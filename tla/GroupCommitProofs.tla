-------------------------- MODULE GroupCommitProofs --------------------------
(***************************************************************************)
(* Theorems about group commit, for any set of write requests.             *)
(***************************************************************************)
EXTENDS GroupCommit, TLAPS

USE DEF GroupCommitAssumption

TaskPc == {"none", "spawned", "drain", "lock", "apply", "ack"}

\* A task built from typed parts is a task.
LEMMA TaskIsTyped ==
    ASSUME NEW pc \in TaskPc, NEW group \in Seq(Writers), NEW acks \in Seq(Ackd),
           NEW failed \in BOOLEAN
    PROVE  Task(pc, group, acks, failed) \in TaskType
BY DEF Task, TaskType, TaskPc

LEMMA EmptyTaskIsTyped ==
    ASSUME NEW pc \in TaskPc
    PROVE  Task(pc, <<>>, <<>>, FALSE) \in TaskType
BY DEF Task, TaskType, TaskPc

\* The fields of a typed task.
LEMMA TaskFields ==
    ASSUME NEW t \in TaskType
    PROVE  /\ t.pc \in TaskPc /\ t.group \in Seq(Writers)
           /\ t.acks \in Seq(Ackd) /\ t.failed \in BOOLEAN
BY DEF TaskType, TaskPc

LEMMA TypeInit == Init => TypeOK
<1> SUFFICES ASSUME Init PROVE TypeOK
    OBVIOUS
<1>1. NoTask \in TaskType
    BY EmptyTaskIsTyped, Zenon DEF NoTask, TaskPc
<1>2. task \in [Writers -> TaskType]
    BY <1>1 DEF Init
<1>3. open \in BOOLEAN /\ leader \in BOOLEAN /\ poisoned \in BOOLEAN
    BY Zenon DEF Init
<1>4. queue \in Seq(Writers)
    BY DEF Init
<1>5. answer \in [Writers -> {"none", "waiting", "gone", "ok", "err"}]
    BY DEF Init
<1>6. reads \in Nat /\ guard \in {"free", "shared", "exclusive"}
    BY DEF Init
<1>7. unsynced \subseteq Writers /\ durable \subseteq Writers
    BY DEF Init
<1> QED
    BY <1>2, <1>3, <1>4, <1>5, <1>6, <1>7, Zenon DEF TypeOK

\* Every step of a request, of a drive task or of a reader keeps the types.
LEMMA TypeStep == TypeOK /\ [Next]_vars => TypeOK'
<1> SUFFICES ASSUME TypeOK, [Next]_vars PROVE TypeOK'
    OBVIOUS
<1> USE DEF TypeOK
<1>1. CASE OpenStore
    BY <1>1 DEF OpenStore
<1>2. CASE ReadBegin
    BY <1>2 DEF ReadBegin
<1>3. CASE ReadEnd
    BY <1>3 DEF ReadEnd
<1>4. ASSUME NEW w \in Writers, Refuse(w) PROVE TypeOK'
    BY <1>4 DEF Refuse
<1>5. ASSUME NEW w \in Writers, Submit(w) PROVE TypeOK'
  <2>1. Task("spawned", <<>>, <<>>, FALSE) \in TaskType
    BY EmptyTaskIsTyped, Zenon DEF TaskPc
  <2>2. task' \in [Writers -> TaskType]
    BY <1>5, <2>1 DEF Submit
  <2>3. leader' \in BOOLEAN /\ UNCHANGED <<open, poisoned>>
    BY <1>5, Zenon DEF Submit
  <2>4. /\ queue' \in Seq(Writers)
        /\ answer' \in [Writers -> {"none", "waiting", "gone", "ok", "err"}]
    BY <1>5 DEF Submit
  <2> QED
    BY <1>5, <2>2, <2>3, <2>4, Zenon DEF Submit
<1>6. ASSUME NEW w \in Writers, GiveUp(w) PROVE TypeOK'
    BY <1>6 DEF GiveUp
<1>7. ASSUME NEW w \in Writers, Start(w) PROVE TypeOK'
  <2>1. Task("drain", <<>>, <<>>, FALSE) \in TaskType
    BY EmptyTaskIsTyped, Zenon DEF TaskPc
  <2> QED
    BY <1>7, <2>1 DEF Start
<1>8. ASSUME NEW w \in Writers, Drain(w) PROVE TypeOK'
  <2>1. NoTask \in TaskType
    BY EmptyTaskIsTyped, Zenon DEF NoTask, TaskPc
  <2>2. Task("lock", queue, <<>>, FALSE) \in TaskType
    BY DEF Task, TaskType
  <2>3. task' \in [Writers -> TaskType]
    BY <1>8, <2>1, <2>2 DEF Drain
  <2>4. leader' \in BOOLEAN /\ UNCHANGED <<open, poisoned>>
    BY <1>8, Zenon DEF Drain
  <2>5. queue' \in Seq(Writers)
    <3>1. queue' = queue \/ queue' = <<>>
      BY <1>8, Zenon DEF Drain
    <3>2. queue \in Seq(Writers) /\ <<>> \in Seq(Writers)
      OBVIOUS
    <3> QED
      BY <3>1, <3>2, Zenon
  <2>6. UNCHANGED <<guard, answer, unsynced, durable, reads>>
    BY <1>8, Zenon DEF Drain
  <2> QED
    BY <2>3, <2>4, <2>5, <2>6, Zenon
<1>9. ASSUME NEW w \in Writers, Reach(w) PROVE TypeOK'
  <2>1. Task("drain", <<>>, <<>>, FALSE) \in TaskType
    BY EmptyTaskIsTyped, Zenon DEF TaskPc
  <2>2. Task("apply", task[w].group, <<>>, FALSE) \in TaskType
    BY TaskFields DEF Task, TaskType
  <2>3. task' \in [Writers -> TaskType]
    BY <1>9, <2>1, <2>2 DEF Reach
  <2>4. answer' \in [Writers -> {"none", "waiting", "gone", "ok", "err"}]
    BY <1>9 DEF Reach, Dropped
  <2> QED
    BY <1>9, <2>3, <2>4 DEF Reach
<1>10. ASSUME NEW w \in Writers, Apply(w) PROVE TypeOK'
  <2>1. PICK ok \in BOOLEAN :
            /\ task' = [task EXCEPT ![w] =
                   Task("apply", Tail(task[w].group),
                        Append(task[w].acks, [who |-> Head(task[w].group), ok |-> ok]), FALSE)]
            /\ unsynced' = IF ok THEN unsynced \cup {Head(task[w].group)} ELSE unsynced
    BY <1>10 DEF Apply
  <2>2. task[w].group \in Seq(Writers) /\ task[w].group # <<>> /\ task[w].acks \in Seq(Ackd)
    BY <1>10, TaskFields DEF Apply
  <2>3. Head(task[w].group) \in Writers /\ Tail(task[w].group) \in Seq(Writers)
    BY <2>2
  <2>4. [who |-> Head(task[w].group), ok |-> ok] \in Ackd
    BY <2>3 DEF Ackd
  <2>5. Append(task[w].acks, [who |-> Head(task[w].group), ok |-> ok]) \in Seq(Ackd)
    BY <2>2, <2>4
  <2>6. task' \in [Writers -> TaskType]
    BY <2>1, <2>3, <2>5, TaskIsTyped DEF TaskPc
  <2> QED
    BY <1>10, <2>1, <2>3, <2>6 DEF Apply
<1>11. ASSUME NEW w \in Writers, Panic(w) PROVE TypeOK'
  <2>1. NoTask \in TaskType
    BY EmptyTaskIsTyped, Zenon DEF NoTask, TaskPc
  <2>2. answer' \in [Writers -> {"none", "waiting", "gone", "ok", "err"}]
    BY <1>11 DEF Panic, Dropped
  <2> QED
    BY <1>11, <2>1, <2>2 DEF Panic
<1>12. ASSUME NEW w \in Writers, Barrier(w) PROVE TypeOK'
  <2>1. \A failed \in BOOLEAN : Task("ack", <<>>, task[w].acks, failed) \in TaskType
    BY TaskFields DEF Task, TaskType
  <2>2. task' \in [Writers -> TaskType]
    BY <1>12, <2>1 DEF Barrier
  <2> QED
    BY <1>12, <2>2 DEF Barrier
<1>13. ASSUME NEW w \in Writers, Ack(w) PROVE TypeOK'
  <2>1. CASE task[w].acks = <<>>
    <3>1. Task("drain", <<>>, <<>>, FALSE) \in TaskType
      BY EmptyTaskIsTyped, Zenon DEF TaskPc
    <3> QED
      BY <1>13, <2>1, <3>1 DEF Ack
  <2>2. CASE task[w].acks # <<>>
    <3>1. task[w].acks \in Seq(Ackd) /\ task[w].failed \in BOOLEAN
      BY TaskFields
    <3>2. Head(task[w].acks) \in Ackd /\ Tail(task[w].acks) \in Seq(Ackd)
      BY <2>2, <3>1
    <3>3. Task("ack", <<>>, Tail(task[w].acks), task[w].failed) \in TaskType
      BY <3>1, <3>2 DEF Task, TaskType
    <3>4. task' \in [Writers -> TaskType]
      BY <1>13, <2>2, <3>3 DEF Ack
    <3>5. answer' \in [Writers -> {"none", "waiting", "gone", "ok", "err"}]
      BY <1>13, <2>2, <3>2 DEF Ack, Ackd, Outcome
    <3> QED
      BY <1>13, <3>4, <3>5 DEF Ack
  <2> QED
    BY <2>1, <2>2
<1>14. CASE UNCHANGED vars
    BY <1>14 DEF vars
<1> QED
    BY <1>1, <1>2, <1>3, <1>4, <1>5, <1>6, <1>7, <1>8, <1>9, <1>10, <1>11, <1>12, <1>13,
       <1>14 DEF Next, Step

-----------------------------------------------------------------------------
(* Acknowledged means durable *)

\* What a task that holds outcomes may assume of the store: an applied write
\* is at worst waiting for the barrier while the group is applied, and is
\* durable once the barrier was taken and did not fail.
TaskInv(w) ==
    /\ task[w].pc = "apply" =>
          \A i \in DOMAIN task[w].acks :
              task[w].acks[i].ok => task[w].acks[i].who \in unsynced \cup durable
    /\ task[w].pc = "ack" /\ ~task[w].failed =>
          \A i \in DOMAIN task[w].acks :
              task[w].acks[i].ok => task[w].acks[i].who \in durable

\* The inductive invariant: AckedDurable alone says nothing of the outcomes a
\* leader still holds.
AckInv == TypeOK /\ AckedDurable /\ \A w \in Writers : TaskInv(w)

\* A task that has no outcomes yet owes nothing.
LEMMA FreshTask ==
    ASSUME NEW w \in Writers, task'[w].acks = <<>>
    PROVE  TaskInv(w)'
BY DEF TaskInv

\* A step that leaves a task alone and only moves writes towards durability
\* keeps what the task may assume.
LEMMA OtherTask ==
    ASSUME NEW w \in Writers, TaskInv(w), task'[w] = task[w],
           durable \subseteq durable',
           unsynced \cup durable \subseteq unsynced' \cup durable'
    PROVE  TaskInv(w)'
BY DEF TaskInv

LEMMA AckInit == Init => AckInv
<1> SUFFICES ASSUME Init PROVE AckInv
    OBVIOUS
<1>1. TypeOK
    BY TypeInit
<1>2. AckedDurable
    BY DEF Init, AckedDurable
<1>3. \A w \in Writers : TaskInv(w)
    BY DEF Init, TaskInv, NoTask, Task
<1> QED
    BY <1>1, <1>2, <1>3 DEF AckInv

\* The senders a leader drops are never told Ok.
LEMMA DroppedNeverOk ==
    ASSUME NEW S, NEW w \in Writers, Dropped(S)[w] = "ok"
    PROVE  answer[w] = "ok"
BY DEF Dropped

LEMMA AckStep == AckInv /\ [Next]_vars => AckInv'
<1> SUFFICES ASSUME AckInv, [Next]_vars PROVE AckInv'
    OBVIOUS
<1>0. TypeOK /\ TypeOK' /\ AckedDurable /\ \A w \in Writers : TaskInv(w)
    BY TypeStep DEF AckInv
<1>a. SUFFICES AckedDurable' /\ \A v \in Writers : TaskInv(v)'
    BY <1>0 DEF AckInv
<1>1. CASE OpenStore
    BY <1>0, <1>1, OtherTask DEF OpenStore, AckedDurable
<1>2. CASE ReadBegin
    BY <1>0, <1>2, OtherTask DEF ReadBegin, AckedDurable
<1>3. CASE ReadEnd
    BY <1>0, <1>3, OtherTask DEF ReadEnd, AckedDurable
<1>4. ASSUME NEW w \in Writers, Refuse(w)
      PROVE  AckedDurable' /\ \A v \in Writers : TaskInv(v)'
    BY <1>0, <1>4, OtherTask DEF Refuse, AckedDurable, TypeOK
<1>5. ASSUME NEW w \in Writers, Submit(w)
      PROVE  AckedDurable' /\ \A v \in Writers : TaskInv(v)'
  <2>1. AckedDurable'
    BY <1>0, <1>5 DEF Submit, AckedDurable, TypeOK
  <2>2. ASSUME NEW v \in Writers PROVE task'[v] = task[v] \/ task'[v].acks = <<>>
    BY <1>0, <1>5 DEF Submit, TypeOK, Task
  <2>3. UNCHANGED <<unsynced, durable>>
    BY <1>5 DEF Submit
  <2> QED
    BY <1>0, <2>1, <2>2, <2>3, OtherTask, FreshTask
<1>6. ASSUME NEW w \in Writers, GiveUp(w)
      PROVE  AckedDurable' /\ \A v \in Writers : TaskInv(v)'
    BY <1>0, <1>6, OtherTask DEF GiveUp, AckedDurable, TypeOK
<1>7. ASSUME NEW w \in Writers, Start(w)
      PROVE  AckedDurable' /\ \A v \in Writers : TaskInv(v)'
  <2>1. ASSUME NEW v \in Writers PROVE task'[v] = task[v] \/ task'[v].acks = <<>>
    BY <1>0, <1>7 DEF Start, TypeOK, Task
  <2> QED
    BY <1>0, <1>7, <2>1, OtherTask, FreshTask DEF Start, AckedDurable
<1>8. ASSUME NEW w \in Writers, Drain(w)
      PROVE  AckedDurable' /\ \A v \in Writers : TaskInv(v)'
  <2>1. ASSUME NEW v \in Writers PROVE task'[v] = task[v] \/ task'[v].acks = <<>>
    BY <1>0, <1>8 DEF Drain, TypeOK, NoTask, Task
  <2>2. UNCHANGED <<answer, unsynced, durable>>
    BY <1>8, Zenon DEF Drain
  <2> QED
    BY <1>0, <2>1, <2>2, OtherTask, FreshTask DEF AckedDurable
<1>9. ASSUME NEW w \in Writers, Reach(w)
      PROVE  AckedDurable' /\ \A v \in Writers : TaskInv(v)'
  <2>1. ASSUME NEW v \in Writers PROVE task'[v] = task[v] \/ task'[v].acks = <<>>
    BY <1>0, <1>9 DEF Reach, TypeOK, Task
  <2>2. UNCHANGED <<unsynced, durable>>
    BY <1>9, Zenon DEF Reach
  <2>3. answer' = answer \/ answer' = Dropped(Members(task[w]))
    BY <1>9, Zenon DEF Reach
  <2>4. AckedDurable'
    BY <1>0, <2>2, <2>3, DroppedNeverOk DEF AckedDurable
  <2> QED
    BY <1>0, <2>1, <2>2, <2>4, OtherTask, FreshTask
<1>10. ASSUME NEW w \in Writers, Apply(w)
       PROVE  AckedDurable' /\ \A v \in Writers : TaskInv(v)'
  <2>1. PICK ok \in BOOLEAN :
            /\ task' = [task EXCEPT ![w] =
                   Task("apply", Tail(task[w].group),
                        Append(task[w].acks, [who |-> Head(task[w].group), ok |-> ok]), FALSE)]
            /\ unsynced' = IF ok THEN unsynced \cup {Head(task[w].group)} ELSE unsynced
    BY <1>10 DEF Apply
  <2>2. UNCHANGED <<answer, durable>> /\ task[w].pc = "apply"
    BY <1>10, Zenon DEF Apply
  <2>3. unsynced \subseteq unsynced'
    BY <2>1
  <2>4. ASSUME NEW v \in Writers, v # w PROVE TaskInv(v)'
    BY <1>0, <2>1, <2>2, <2>3, <2>4, OtherTask DEF TypeOK
  <2>5. TaskInv(w)'
    <3>1. task[w].acks \in Seq(Ackd)
      BY <1>0, TaskFields DEF TypeOK
    <3>2. task'[w].pc = "apply"
          /\ task'[w].acks = Append(task[w].acks, [who |-> Head(task[w].group), ok |-> ok])
      BY <1>0, <2>1 DEF TypeOK, Task
    <3>3. ASSUME NEW i \in DOMAIN task'[w].acks, task'[w].acks[i].ok
          PROVE  task'[w].acks[i].who \in unsynced' \cup durable'
      <4>1. CASE i \in DOMAIN task[w].acks
        <5>1. task'[w].acks[i] = task[w].acks[i]
          BY <3>1, <3>2, <4>1
        <5> QED
          BY <1>0, <2>2, <2>3, <3>3, <4>1, <5>1 DEF TaskInv
      <4>2. CASE i \notin DOMAIN task[w].acks
        <5>1. task'[w].acks[i] = [who |-> Head(task[w].group), ok |-> ok]
          BY <3>1, <3>2, <3>3, <4>2
        <5>2. ok
          BY <3>3, <5>1
        <5>3. Head(task[w].group) \in unsynced'
          BY <2>1, <5>2, Zenon
        <5> QED
          BY <5>1, <5>3
      <4> QED
        BY <4>1, <4>2
    <3> QED
      BY <3>2, <3>3 DEF TaskInv
  <2> QED
    BY <1>0, <2>2, <2>4, <2>5 DEF AckedDurable
<1>11. ASSUME NEW w \in Writers, Panic(w)
       PROVE  AckedDurable' /\ \A v \in Writers : TaskInv(v)'
  <2>1. ASSUME NEW v \in Writers PROVE task'[v] = task[v] \/ task'[v].acks = <<>>
    BY <1>0, <1>11 DEF Panic, TypeOK, NoTask, Task
  <2>2. UNCHANGED <<unsynced, durable>> /\ answer' = Dropped(Members(task[w]))
    BY <1>11, Zenon DEF Panic
  <2>3. AckedDurable'
    BY <1>0, <2>2, DroppedNeverOk DEF AckedDurable
  <2> QED
    BY <1>0, <2>1, <2>2, <2>3, OtherTask, FreshTask
<1>12. ASSUME NEW w \in Writers, Barrier(w)
       PROVE  AckedDurable' /\ \A v \in Writers : TaskInv(v)'
  <2>1. /\ durable \subseteq durable'
        /\ unsynced \cup durable \subseteq unsynced' \cup durable'
        /\ UNCHANGED answer /\ task[w].pc = "apply"
    BY <1>12 DEF Barrier
  <2>2. ASSUME NEW v \in Writers, v # w PROVE TaskInv(v)'
    <3>1. task'[v] = task[v]
      BY <1>0, <1>12, <2>2 DEF Barrier, TypeOK
    <3> QED
      BY <1>0, <2>1, <3>1, OtherTask
  <2>3. TaskInv(w)'
    <3>1. task'[w].pc = "ack" /\ task'[w].acks = task[w].acks
      BY <1>0, <1>12 DEF Barrier, TypeOK, Task
    <3>2. CASE durable' = durable \cup unsynced
      BY <1>0, <2>1, <3>1, <3>2 DEF TaskInv
    <3>3. CASE task'[w].failed = TRUE
      BY <3>1, <3>3 DEF TaskInv
    <3>4. CASE ~needs_barrier(task[w].acks)
      BY <3>1, <3>4 DEF TaskInv, needs_barrier
    <3>5. ASSUME task' = [task EXCEPT ![w] = Task("ack", <<>>, task[w].acks, TRUE)]
          PROVE  task'[w].failed = TRUE
      BY <1>0, <3>5 DEF TypeOK, Task
    <3> QED
      BY <1>12, <3>2, <3>3, <3>4, <3>5, Zenon DEF Barrier
  <2> QED
    BY <1>0, <2>1, <2>2, <2>3 DEF AckedDurable
<1>13. ASSUME NEW w \in Writers, Ack(w)
       PROVE  AckedDurable' /\ \A v \in Writers : TaskInv(v)'
  <2>0. UNCHANGED <<unsynced, durable>> /\ task[w].pc = "ack"
    BY <1>13, Zenon DEF Ack
  <2>1. ASSUME NEW v \in Writers, v # w PROVE TaskInv(v)'
    <3>1. task'[v] = task[v]
      BY <1>0, <1>13, <2>1 DEF Ack, TypeOK
    <3> QED
      BY <1>0, <2>0, <3>1, OtherTask
  <2>2. CASE task[w].acks = <<>>
    <3>1. task'[w].acks = <<>> /\ UNCHANGED answer
      BY <1>0, <1>13, <2>2 DEF Ack, TypeOK, Task
    <3> QED
      BY <1>0, <2>0, <2>1, <3>1, FreshTask DEF AckedDurable
  <2>3. CASE task[w].acks # <<>>
    <3>1. task[w].acks \in Seq(Ackd)
      BY <1>0, TaskFields DEF TypeOK
    <3>2. /\ task'[w].pc = "ack" /\ task'[w].acks = Tail(task[w].acks)
          /\ task'[w].failed = task[w].failed
      BY <1>0, <1>13, <2>3 DEF Ack, TypeOK, Task
    <3>3. ASSUME NEW i \in DOMAIN task'[w].acks
          PROVE  i + 1 \in DOMAIN task[w].acks /\ task'[w].acks[i] = task[w].acks[i + 1]
      BY <2>3, <3>1, <3>2
    <3>4. TaskInv(w)'
      BY <1>0, <2>0, <3>2, <3>3 DEF TaskInv
    <3>5. answer' = [answer EXCEPT ![Head(task[w].acks).who] =
                IF @ = "waiting" THEN Outcome(Head(task[w].acks), task[w].failed) ELSE @]
      BY <1>13, <2>3 DEF Ack
    <3>6. 1 \in DOMAIN task[w].acks /\ Head(task[w].acks) = task[w].acks[1]
      BY <2>3, <3>1
    <3>7. Outcome(Head(task[w].acks), task[w].failed) = "ok" => Head(task[w].acks).who \in durable
      BY <1>0, <2>0, <3>6 DEF TaskInv, Outcome
    <3>8. AckedDurable'
      BY <1>0, <2>0, <3>5, <3>7 DEF AckedDurable, TypeOK
    <3> QED
      BY <2>1, <3>4, <3>8
  <2> QED
    BY <2>2, <2>3
<1>14. CASE UNCHANGED vars
    BY <1>0, <1>14, OtherTask DEF vars, AckedDurable
<1> QED
    BY <1>1, <1>2, <1>3, <1>4, <1>5, <1>6, <1>7, <1>8, <1>9, <1>10, <1>11, <1>12, <1>13,
       <1>14 DEF Next, Step

\* A served write answered Ok is durable: for any number of concurrent writes,
\* whichever of them fail, panic or lose their client, and whichever barriers
\* fail (commit_group).
THEOREM AckedWritesAreDurable == Spec => []AckedDurable
<1>1. Init => AckInv
    BY AckInit
<1>2. AckInv /\ [Next]_vars => AckInv'
    BY AckStep
<1>3. AckInv => AckedDurable
    BY DEF AckInv
<1> QED
    BY <1>1, <1>2, <1>3, PTL DEF Spec

-----------------------------------------------------------------------------
(* One leader *)

\* Leadership, the spawned task and the queue move together.  NothingUnattended
\* is inductive over the types.
LeadInv == TypeOK /\ NothingUnattended

\* A step of a task that goes on neither elects nor deposes anybody.
LEMMA SameLead ==
    ASSUME NothingUnattended, NEW w \in Writers, task \in [Writers -> TaskType],
           NEW t, t.pc # "none", task[w].pc # "none",
           task' = [task EXCEPT ![w] = t],
           UNCHANGED <<leader, poisoned>>, queue' = queue \/ queue' = <<>>
    PROVE  NothingUnattended'
<1>1. \A v \in Writers : task'[v].pc # "none" <=> task[v].pc # "none"
    OBVIOUS
<1> QED
    BY <1>1 DEF NothingUnattended

\* A leader that returns leaves no task behind.
LEMMA LeadLeft ==
    ASSUME NothingUnattended, NEW w \in Writers, task \in [Writers -> TaskType],
           task[w].pc # "none", task' = [task EXCEPT ![w] = NoTask],
           leader' = FALSE, queue' = <<>> \/ poisoned'
    PROVE  NothingUnattended'
<1>1. \A v \in Writers : task'[v].pc = "none"
    BY DEF NothingUnattended, NoTask, Task
<1> QED
    BY <1>1 DEF NothingUnattended

LEMMA LeadInit == Init => LeadInv
<1> SUFFICES ASSUME Init PROVE LeadInv
    OBVIOUS
<1>1. TypeOK
    BY TypeInit
<1>2. \A w \in Writers : task[w].pc = "none"
    BY DEF Init, NoTask, Task
<1>3. NothingUnattended
    BY <1>2 DEF Init, NothingUnattended
<1> QED
    BY <1>1, <1>3 DEF LeadInv

LEMMA LeadStep == LeadInv /\ [Next]_vars => LeadInv'
<1> SUFFICES ASSUME LeadInv, [Next]_vars PROVE LeadInv'
    OBVIOUS
<1>0. TypeOK /\ TypeOK' /\ NothingUnattended /\ task \in [Writers -> TaskType]
    BY TypeStep DEF LeadInv, TypeOK
<1>a. SUFFICES NothingUnattended'
    BY <1>0 DEF LeadInv
<1>1. CASE UNCHANGED <<queue, leader, task, poisoned>>
    BY <1>0, <1>1 DEF NothingUnattended
<1>2. CASE OpenStore
    BY <1>1, <1>2 DEF OpenStore
<1>3. CASE ReadBegin
    BY <1>1, <1>3 DEF ReadBegin
<1>4. CASE ReadEnd
    BY <1>1, <1>4 DEF ReadEnd
<1>5. ASSUME NEW w \in Writers, Refuse(w) PROVE NothingUnattended'
    BY <1>1, <1>5 DEF Refuse
<1>6. ASSUME NEW w \in Writers, GiveUp(w) PROVE NothingUnattended'
    BY <1>1, <1>6 DEF GiveUp
<1>7. ASSUME NEW w \in Writers, Submit(w) PROVE NothingUnattended'
  <2>1. CASE leader
    <3>1. leader' = TRUE /\ task' = task
      BY <1>7, <2>1, Zenon DEF Submit
    <3>2. leader' <=> \E v \in Writers : task'[v].pc # "none"
      BY <1>0, <2>1, <3>1, Zenon DEF NothingUnattended
    <3> QED
      BY <1>0, <3>1, <3>2, Zenon DEF NothingUnattended
  <2>2. CASE ~leader
    <3>1. \A v \in Writers : task[v].pc = "none"
      BY <1>0, <2>2 DEF NothingUnattended
    <3>2. leader' = TRUE /\ task' = [task EXCEPT ![w] = Task("spawned", <<>>, <<>>, FALSE)]
      BY <1>7, <2>2, Zenon DEF Submit
    <3>3. \A v \in Writers : task'[v].pc # "none" <=> v = w
      BY <1>0, <3>1, <3>2 DEF Task
    <3> QED
      BY <3>2, <3>3, Zenon DEF NothingUnattended
  <2> QED
    BY <2>1, <2>2
<1>8. ASSUME NEW w \in Writers, Start(w) PROVE NothingUnattended'
  <2>1. Task("drain", <<>>, <<>>, FALSE).pc # "none"
    BY DEF Task
  <2> QED
    BY <1>0, <1>8, <2>1, SameLead DEF Start
<1>9. ASSUME NEW w \in Writers, Drain(w) PROVE NothingUnattended'
  <2>1. CASE queue = <<>>
    BY <1>0, <1>9, <2>1, LeadLeft DEF Drain
  <2>2. CASE queue # <<>>
    <3>1. Task("lock", queue, <<>>, FALSE).pc # "none"
      BY DEF Task
    <3> QED
      BY <1>0, <1>9, <2>2, <3>1, SameLead DEF Drain
  <2> QED
    BY <2>1, <2>2
<1>10. ASSUME NEW w \in Writers, Reach(w) PROVE NothingUnattended'
  <2>1. PICK t : t.pc # "none" /\ task' = [task EXCEPT ![w] = t]
    BY <1>10 DEF Reach, Task
  <2> QED
    BY <1>0, <1>10, <2>1, SameLead DEF Reach
<1>11. ASSUME NEW w \in Writers, Apply(w) PROVE NothingUnattended'
  <2>1. PICK t : t.pc # "none" /\ task' = [task EXCEPT ![w] = t]
    BY <1>11 DEF Apply, Task
  <2> QED
    BY <1>0, <1>11, <2>1, SameLead DEF Apply
<1>12. ASSUME NEW w \in Writers, Panic(w) PROVE NothingUnattended'
    BY <1>0, <1>12, LeadLeft DEF Panic
<1>13. ASSUME NEW w \in Writers, Barrier(w) PROVE NothingUnattended'
  <2>1. PICK t : t.pc # "none" /\ task' = [task EXCEPT ![w] = t]
    BY <1>13 DEF Barrier, Task
  <2> QED
    BY <1>0, <1>13, <2>1, SameLead DEF Barrier
<1>14. ASSUME NEW w \in Writers, Ack(w) PROVE NothingUnattended'
  <2>1. PICK t : t.pc # "none" /\ task' = [task EXCEPT ![w] = t]
    BY <1>14 DEF Ack, Task
  <2> QED
    BY <1>0, <1>14, <2>1, SameLead DEF Ack
<1>15. CASE UNCHANGED vars
    BY <1>1, <1>15 DEF vars
<1> QED
    BY <1>2, <1>3, <1>4, <1>5, <1>6, <1>7, <1>8, <1>9, <1>10, <1>11, <1>12, <1>13, <1>14,
       <1>15 DEF Next, Step

\* At any time at most one drive task runs, the leadership flag says whether
\* one does, and a queue nobody leads is one a panic left behind: submit's
\* election and drive's standing down cannot miss each other, whatever number
\* of writes race for the lead.
THEOREM NoWriteUnattended == Spec => []NothingUnattended
<1>1. Init => LeadInv
    BY LeadInit
<1>2. LeadInv /\ [Next]_vars => LeadInv'
    BY LeadStep
<1>3. LeadInv => NothingUnattended
    BY DEF LeadInv
<1> QED
    BY <1>1, <1>2, <1>3, PTL DEF Spec

-----------------------------------------------------------------------------
(* Only what a client submitted is worked on *)

Submitted == {w \in Writers : answer[w] # "none"}

\* A task's hands hold submitted writes only.
HandsInv(v) ==
    /\ task[v].group \in Seq(Submitted)
    /\ task[v].acks \in Seq([who : Submitted, ok : BOOLEAN])

\* Whatever the committer holds, queued, drained or applied, somebody asked
\* for.
HeldInv ==
    /\ queue \in Seq(Submitted)
    /\ \A v \in Writers : HandsInv(v)
    /\ unsynced \subseteq Submitted /\ durable \subseteq Submitted

\* A sequence over a set is one over any larger set.
LEMMA SeqMonotone ==
    ASSUME NEW S, NEW T, S \subseteq T
    PROVE  Seq(S) \subseteq Seq(T)
OBVIOUS

LEMMA AcksMonotone ==
    ASSUME NEW S, NEW T, S \subseteq T
    PROVE  Seq([who : S, ok : BOOLEAN]) \subseteq Seq([who : T, ok : BOOLEAN])
<1>1. [who : S, ok : BOOLEAN] \subseteq [who : T, ok : BOOLEAN]
    OBVIOUS
<1> QED
    BY <1>1, SeqMonotone

\* No step of anybody makes a submitted write unsubmitted.
LEMMA SubmittedStays == TypeOK /\ [Next]_vars => Submitted \subseteq Submitted'
<1> SUFFICES ASSUME TypeOK, [Next]_vars PROVE Submitted \subseteq Submitted'
    OBVIOUS
<1>0. answer \in [Writers -> {"none", "waiting", "gone", "ok", "err"}]
    BY DEF TypeOK
<1>1. CASE UNCHANGED answer
    BY <1>1 DEF Submitted
<1>2. ASSUME NEW S, answer' = Dropped(S) PROVE Submitted \subseteq Submitted'
    BY <1>0, <1>2 DEF Submitted, Dropped
<1>3. ASSUME NEW v, NEW a \in {"waiting", "gone", "ok", "err"},
             answer' = [answer EXCEPT ![v] = a]
      PROVE  Submitted \subseteq Submitted'
    BY <1>0, <1>3 DEF Submitted
<1>4. ASSUME NEW w \in Writers, Refuse(w) \/ Submit(w) \/ GiveUp(w)
      PROVE  Submitted \subseteq Submitted'
    BY <1>3, <1>4 DEF Refuse, Submit, GiveUp
<1>5. ASSUME NEW w \in Writers, Reach(w) \/ Panic(w) PROVE Submitted \subseteq Submitted'
    BY <1>1, <1>2, <1>5 DEF Reach, Panic
<1>6. ASSUME NEW w \in Writers, Ack(w) PROVE Submitted \subseteq Submitted'
  <2>1. CASE task[w].acks = <<>>
    BY <1>1, <1>6, <2>1 DEF Ack
  <2>2. CASE task[w].acks # <<>>
    BY <1>0, <1>6, <2>2 DEF Ack, Outcome, Submitted
  <2> QED
    BY <2>1, <2>2
<1>7. ASSUME NEW w \in Writers, Start(w) \/ Drain(w) \/ Apply(w) \/ Barrier(w)
      PROVE  Submitted \subseteq Submitted'
  <2>1. UNCHANGED answer
    BY <1>7, Zenon DEF Start, Drain, Apply, Barrier
  <2> QED
    BY <1>1, <2>1
<1>8. CASE OpenStore \/ ReadBegin \/ ReadEnd \/ UNCHANGED vars
    BY <1>1, <1>8 DEF OpenStore, ReadBegin, ReadEnd, vars
<1> QED
    BY <1>4, <1>5, <1>6, <1>7, <1>8 DEF Next, Step

LEMMA OtherHands ==
    ASSUME NEW v \in Writers, HandsInv(v), Submitted \subseteq Submitted', task'[v] = task[v]
    PROVE  HandsInv(v)'
<1>1. task[v].group \in Seq(Submitted')
    BY SeqMonotone DEF HandsInv
<1>2. task[v].acks \in Seq([who : Submitted', ok : BOOLEAN])
    BY AcksMonotone DEF HandsInv
<1> QED
    BY <1>1, <1>2 DEF HandsInv

LEMMA EmptyHands ==
    ASSUME NEW v \in Writers, task'[v].group = <<>>, task'[v].acks = <<>>
    PROVE  HandsInv(v)'
BY DEF HandsInv

LEMMA EmptySeq ==
    ASSUME NEW S
    PROVE  <<>> \in Seq(S)
OBVIOUS

LEMMA HeldInit == Init => HeldInv
<1> SUFFICES ASSUME Init PROVE HeldInv
    OBVIOUS
<1>1. queue \in Seq(Submitted) /\ unsynced \subseteq Submitted /\ durable \subseteq Submitted
    BY DEF Init
<1>2. \A v \in Writers : task[v].group = <<>> /\ task[v].acks = <<>>
    BY DEF Init, NoTask, Task
<1>3. \A v \in Writers : HandsInv(v)
    BY <1>2, EmptySeq, Zenon DEF HandsInv
<1> QED
    BY <1>1, <1>3 DEF HeldInv

LEMMA HeldStep == TypeOK /\ HeldInv /\ [Next]_vars => HeldInv'
<1> SUFFICES ASSUME TypeOK, HeldInv, [Next]_vars PROVE HeldInv'
    OBVIOUS
<1>0. Submitted \subseteq Submitted' /\ task \in [Writers -> TaskType]
    BY SubmittedStays DEF TypeOK
<1>a. /\ queue \in Seq(Submitted) /\ queue \in Seq(Submitted')
      /\ unsynced \subseteq Submitted' /\ durable \subseteq Submitted'
      /\ \A v \in Writers : HandsInv(v)
    BY <1>0, SeqMonotone DEF HeldInv
<1>b. ASSUME queue' = queue \/ queue' = <<>>, unsynced' \subseteq unsynced,
             durable' \subseteq durable \cup unsynced,
             \A v \in Writers : HandsInv(v)'
      PROVE  HeldInv'
  <2>1. queue' \in Seq(Submitted')
    BY <1>a, <1>b, EmptySeq, Zenon
  <2>2. unsynced' \subseteq Submitted' /\ durable' \subseteq Submitted'
    BY <1>a, <1>b
  <2> QED
    BY <1>b, <2>1, <2>2 DEF HeldInv
<1>c. ASSUME NEW v \in Writers, task'[v] = task[v] PROVE HandsInv(v)'
    BY <1>0, <1>a, <1>c, OtherHands
<1>d. ASSUME NEW w \in Writers, NEW t, task' = [task EXCEPT ![w] = t], HandsInv(w)'
      PROVE  \A v \in Writers : HandsInv(v)'
    BY <1>0, <1>c, <1>d
<1>1. CASE UNCHANGED <<queue, task, unsynced, durable>>
    BY <1>b, <1>c, <1>1
<1>2. CASE OpenStore \/ ReadBegin \/ ReadEnd \/ UNCHANGED vars
    BY <1>1, <1>2 DEF OpenStore, ReadBegin, ReadEnd, vars
<1>3. ASSUME NEW w \in Writers, Refuse(w) \/ GiveUp(w) PROVE HeldInv'
    BY <1>1, <1>3 DEF Refuse, GiveUp
<1>4. ASSUME NEW w \in Writers, Submit(w) PROVE HeldInv'
  <2>1. w \in Submitted'
    BY <1>4 DEF Submit, Submitted, TypeOK
  <2>2. queue' \in Seq(Submitted')
    BY <1>4, <1>a, <2>1 DEF Submit
  <2>3. \A v \in Writers : HandsInv(v)'
    <3>1. CASE leader
      BY <1>4, <1>c, <3>1 DEF Submit
    <3>2. CASE ~leader
      <4>1. task' = [task EXCEPT ![w] = Task("spawned", <<>>, <<>>, FALSE)]
        BY <1>4, <3>2, Zenon DEF Submit
      <4>2. task'[w].group = <<>> /\ task'[w].acks = <<>>
        BY <1>0, <4>1 DEF Task
      <4> QED
        BY <1>d, <4>1, <4>2, EmptyHands
    <3> QED
      BY <3>1, <3>2
  <2> QED
    BY <1>4, <1>a, <2>2, <2>3 DEF Submit, HeldInv
<1>5. ASSUME NEW w \in Writers, Start(w) PROVE HeldInv'
  <2>1. task' = [task EXCEPT ![w] = Task("drain", <<>>, <<>>, FALSE)]
    BY <1>5 DEF Start
  <2>2. task'[w].group = <<>> /\ task'[w].acks = <<>>
    BY <1>0, <2>1 DEF Task
  <2>3. \A v \in Writers : HandsInv(v)'
    BY <1>d, <2>1, <2>2, EmptyHands
  <2> QED
    BY <1>5, <1>b, <2>3 DEF Start
<1>6. ASSUME NEW w \in Writers, Drain(w) PROVE HeldInv'
  <2>1. CASE queue = <<>>
    <3>1. task' = [task EXCEPT ![w] = NoTask]
      BY <1>6, <2>1 DEF Drain
    <3>2. task'[w].group = <<>> /\ task'[w].acks = <<>>
      BY <1>0, <3>1 DEF NoTask, Task
    <3>3. \A v \in Writers : HandsInv(v)'
      BY <1>d, <3>1, <3>2, EmptyHands
    <3> QED
      BY <1>6, <2>1, <1>b, <3>3 DEF Drain
  <2>2. CASE queue # <<>>
    <3>1. task' = [task EXCEPT ![w] = Task("lock", queue, <<>>, FALSE)]
      BY <1>6, <2>2 DEF Drain
    <3>2. task'[w].group = queue /\ task'[w].acks = <<>>
      BY <1>0, <3>1 DEF Task
    <3>3. HandsInv(w)'
      BY <1>a, <3>2 DEF HandsInv
    <3>4. \A v \in Writers : HandsInv(v)'
      BY <1>d, <3>1, <3>3
    <3> QED
      BY <1>6, <2>2, <1>b, <3>4 DEF Drain
  <2> QED
    BY <2>1, <2>2
<1>7. ASSUME NEW w \in Writers, Reach(w) PROVE HeldInv'
  <2>1. CASE poisoned
    <3>1. task' = [task EXCEPT ![w] = Task("drain", <<>>, <<>>, FALSE)]
      BY <1>7, <2>1 DEF Reach
    <3>2. task'[w].group = <<>> /\ task'[w].acks = <<>>
      BY <1>0, <3>1 DEF Task
    <3>3. \A v \in Writers : HandsInv(v)'
      BY <1>d, <3>1, <3>2, EmptyHands
    <3> QED
      BY <1>7, <1>b, <3>3 DEF Reach
  <2>2. CASE ~poisoned
    <3>1. task' = [task EXCEPT ![w] = Task("apply", task[w].group, <<>>, FALSE)]
      BY <1>7, <2>2 DEF Reach
    <3>2. task'[w].group = task[w].group /\ task'[w].acks = <<>>
      BY <1>0, <3>1 DEF Task
    <3>3. HandsInv(w)'
      BY <1>0, <1>a, <3>2, SeqMonotone DEF HandsInv
    <3>4. \A v \in Writers : HandsInv(v)'
      BY <1>d, <3>1, <3>3
    <3> QED
      BY <1>7, <1>b, <3>4 DEF Reach
  <2> QED
    BY <2>1, <2>2
<1>8. ASSUME NEW w \in Writers, Apply(w) PROVE HeldInv'
  <2>1. PICK ok \in BOOLEAN :
            /\ task' = [task EXCEPT ![w] =
                   Task("apply", Tail(task[w].group),
                        Append(task[w].acks, [who |-> Head(task[w].group), ok |-> ok]), FALSE)]
            /\ unsynced' = IF ok THEN unsynced \cup {Head(task[w].group)} ELSE unsynced
    BY <1>8 DEF Apply
  <2>2. task[w].group \in Seq(Submitted') /\ task[w].group # <<>>
    BY <1>0, <1>8, <1>a, SeqMonotone DEF Apply, HandsInv
  <2>3. task[w].acks \in Seq([who : Submitted', ok : BOOLEAN])
    BY <1>0, <1>a, AcksMonotone DEF HandsInv
  <2>4. Head(task[w].group) \in Submitted' /\ Tail(task[w].group) \in Seq(Submitted')
    BY <2>2
  <2>5. [who |-> Head(task[w].group), ok |-> ok] \in [who : Submitted', ok : BOOLEAN]
    BY <2>4
  <2>6. Append(task[w].acks, [who |-> Head(task[w].group), ok |-> ok])
            \in Seq([who : Submitted', ok : BOOLEAN])
    BY <2>3, <2>5
  <2>7. /\ task'[w].group = Tail(task[w].group)
        /\ task'[w].acks = Append(task[w].acks, [who |-> Head(task[w].group), ok |-> ok])
    BY <1>0, <2>1 DEF Task
  <2>8. HandsInv(w)'
    BY <2>4, <2>6, <2>7 DEF HandsInv
  <2>9. \A v \in Writers : HandsInv(v)'
    BY <1>d, <2>1, <2>8
  <2> QED
    BY <1>8, <1>a, <2>1, <2>4, <2>9 DEF Apply, HeldInv
<1>9. ASSUME NEW w \in Writers, Panic(w) PROVE HeldInv'
  <2>1. task' = [task EXCEPT ![w] = NoTask]
    BY <1>9 DEF Panic
  <2>2. task'[w].group = <<>> /\ task'[w].acks = <<>>
    BY <1>0, <2>1 DEF NoTask, Task
  <2>3. \A v \in Writers : HandsInv(v)'
    BY <1>d, <2>1, <2>2, EmptyHands
  <2> QED
    BY <1>9, <1>b, <2>3 DEF Panic
<1>10. ASSUME NEW w \in Writers, Barrier(w) PROVE HeldInv'
  <2>1. PICK failed \in BOOLEAN : task' = [task EXCEPT ![w] = Task("ack", <<>>, task[w].acks, failed)]
    BY <1>10 DEF Barrier
  <2>2. task'[w].group = <<>> /\ task'[w].acks = task[w].acks
    BY <1>0, <2>1 DEF Task
  <2>3. HandsInv(w)'
    <3>1. task[w].acks \in Seq([who : Submitted', ok : BOOLEAN])
      BY <1>0, <1>a, AcksMonotone DEF HandsInv
    <3> QED
      BY <2>2, <3>1 DEF HandsInv
  <2>4. \A v \in Writers : HandsInv(v)'
    BY <1>d, <2>1, <2>3
  <2>5. unsynced' \subseteq unsynced /\ durable' \subseteq durable \cup unsynced /\ queue' = queue
    BY <1>10 DEF Barrier
  <2> QED
    BY <1>b, <2>4, <2>5
<1>11. ASSUME NEW w \in Writers, Ack(w) PROVE HeldInv'
  <2>1. UNCHANGED <<queue, unsynced, durable>>
    BY <1>11, Zenon DEF Ack
  <2>2. CASE task[w].acks = <<>>
    <3>1. task' = [task EXCEPT ![w] = Task("drain", <<>>, <<>>, FALSE)]
      BY <1>11, <2>2 DEF Ack
    <3>2. task'[w].group = <<>> /\ task'[w].acks = <<>>
      BY <1>0, <3>1 DEF Task
    <3>3. \A v \in Writers : HandsInv(v)'
      BY <1>d, <3>1, <3>2, EmptyHands
    <3> QED
      BY <1>b, <2>1, <3>3
  <2>3. CASE task[w].acks # <<>>
    <3>1. task' = [task EXCEPT ![w] = Task("ack", <<>>, Tail(task[w].acks), task[w].failed)]
      BY <1>11, <2>3 DEF Ack
    <3>2. task'[w].group = <<>> /\ task'[w].acks = Tail(task[w].acks)
      BY <1>0, <3>1 DEF Task
    <3>3. task[w].acks \in Seq([who : Submitted', ok : BOOLEAN])
      BY <1>0, <1>a, AcksMonotone DEF HandsInv
    <3>4. Tail(task[w].acks) \in Seq([who : Submitted', ok : BOOLEAN])
      BY <2>3, <3>3
    <3>5. HandsInv(w)'
      BY <3>2, <3>4 DEF HandsInv
    <3>6. \A v \in Writers : HandsInv(v)'
      BY <1>d, <3>1, <3>5
    <3> QED
      BY <1>b, <2>1, <3>6
  <2> QED
    BY <2>2, <2>3
<1> QED
    BY <1>2, <1>3, <1>4, <1>5, <1>6, <1>7, <1>8, <1>9, <1>10, <1>11 DEF Next, Step

-----------------------------------------------------------------------------
(* The committer implements the contract of the write path *)

ContractInv == AckInv /\ HeldInv

LEMMA ContractInit == Init => ContractInv /\ Contract!CInit
BY AckInit, HeldInit DEF ContractInv, Init, Contract!CInit

\* Senders dropped together are one Fail of the contract: of the members still
\* waiting, whichever they are.
LEMMA DroppedIsFail ==
    ASSUME NEW S, answer \in [Writers -> {"none", "waiting", "gone", "ok", "err"}],
           answer' = Dropped(S), UNCHANGED durable
    PROVE  Contract!Fail
<1> DEFINE W == {w \in Writers : w \in S /\ answer[w] = "waiting"}
<1>1. W \in SUBSET Writers /\ \A w \in W : answer[w] = "waiting"
    OBVIOUS
<1>2. answer' = [w \in Writers |-> IF w \in W THEN "err" ELSE answer[w]]
    BY DEF Dropped
<1> QED
    BY <1>1, <1>2 DEF Contract!Fail

\* Every step of the committer is a step of the contract, or hidden behind it.
LEMMA ContractStep ==
    ContractInv /\ [Next]_vars => [Contract!CNext]_(Contract!contract)
<1> SUFFICES ASSUME ContractInv, [Next]_vars
             PROVE  [Contract!CNext]_(Contract!contract)
    OBVIOUS
<1>0. /\ TypeOK /\ HeldInv /\ \A w \in Writers : TaskInv(w)
      /\ answer \in [Writers -> {"none", "waiting", "gone", "ok", "err"}]
    BY DEF ContractInv, AckInv, TypeOK
<1>1. CASE UNCHANGED <<answer, durable>>
    BY <1>1 DEF Contract!contract
<1>2. CASE OpenStore \/ ReadBegin \/ ReadEnd \/ UNCHANGED vars
    BY <1>1, <1>2 DEF OpenStore, ReadBegin, ReadEnd, vars
<1>3. ASSUME NEW w \in Writers, Refuse(w) \/ Submit(w)
      PROVE  Contract!Take(w)
    BY <1>3 DEF Refuse, Submit, Contract!Take
<1>4. ASSUME NEW w \in Writers, GiveUp(w)
      PROVE  Contract!Leave(w)
    BY <1>4 DEF GiveUp, Contract!Leave
<1>5. ASSUME NEW w \in Writers, Start(w) \/ Drain(w) \/ Apply(w)
      PROVE  UNCHANGED <<answer, durable>>
    BY <1>5, Zenon DEF Start, Drain, Apply
<1>6. ASSUME NEW w \in Writers, Reach(w)
      PROVE  UNCHANGED <<answer, durable>> \/ Contract!Fail
  <2>1. CASE poisoned
    BY <1>0, <1>6, <2>1, DroppedIsFail DEF Reach
  <2>2. CASE ~poisoned
    BY <1>6, <2>2 DEF Reach
  <2> QED
    BY <2>1, <2>2
<1>7. ASSUME NEW w \in Writers, Panic(w) PROVE Contract!Fail
    BY <1>0, <1>7, DroppedIsFail DEF Panic
<1>8. ASSUME NEW w \in Writers, Barrier(w)
      PROVE  UNCHANGED <<answer, durable>> \/ Contract!Persist
  <2>1. UNCHANGED answer /\ (durable' = durable \/ durable' = durable \cup unsynced)
    BY <1>8, Zenon DEF Barrier
  <2>2. unsynced \in SUBSET Writers /\ \A v \in unsynced : answer[v] # "none"
    BY <1>0 DEF HeldInv, Submitted
  <2> QED
    BY <2>1, <2>2 DEF Contract!Persist
<1>9. ASSUME NEW w \in Writers, Ack(w)
      PROVE  UNCHANGED <<answer, durable>> \/ Contract!Fail \/ \E v \in Writers : Contract!Confirm(v)
  <2>0. UNCHANGED durable /\ task[w].pc = "ack"
    BY <1>9, Zenon DEF Ack
  <2>1. CASE task[w].acks = <<>>
    BY <1>9, <2>0, <2>1 DEF Ack
  <2>2. CASE task[w].acks # <<>>
    <3> DEFINE a == Head(task[w].acks)
    <3>1. task[w].acks \in Seq(Ackd)
      BY <1>0, TaskFields DEF TypeOK
    <3>a. 1 \in DOMAIN task[w].acks /\ a = task[w].acks[1] /\ a \in Ackd
      BY <2>2, <3>1
    <3>2. 1 \in DOMAIN task[w].acks /\ a = task[w].acks[1] /\ a.who \in Writers
      BY <3>a DEF Ackd
    <3>3. answer' = [answer EXCEPT ![a.who] =
                IF @ = "waiting" THEN Outcome(a, task[w].failed) ELSE @]
      BY <1>9, <2>2 DEF Ack
    <3> HIDE DEF a
    <3>4. CASE answer[a.who] # "waiting"
      BY <1>0, <2>0, <3>2, <3>3, <3>4
    <3>5. CASE answer[a.who] = "waiting" /\ Outcome(a, task[w].failed) = "ok"
      <4>1. a.who \in durable
        BY <1>0, <2>0, <3>2, <3>5 DEF TaskInv, Outcome
      <4>2. answer' = [answer EXCEPT ![a.who] = "ok"]
        BY <3>3, <3>5
      <4>3. Contract!Confirm(a.who)
        BY <2>0, <3>5, <4>1, <4>2 DEF Contract!Confirm
      <4> QED
        BY <3>2, <4>3
    <3>6. CASE answer[a.who] = "waiting" /\ Outcome(a, task[w].failed) = "err"
      <4>1. {a.who} \in SUBSET Writers /\ \A v \in {a.who} : answer[v] = "waiting"
        BY <3>2, <3>6
      <4>2. answer' = [v \in Writers |-> IF v \in {a.who} THEN "err" ELSE answer[v]]
        BY <1>0, <3>3, <3>6
      <4> QED
        BY <2>0, <4>1, <4>2 DEF Contract!Fail
    <3>7. Outcome(a, task[w].failed) \in {"ok", "err"}
      BY DEF Outcome
    <3> QED
      BY <3>4, <3>5, <3>6, <3>7
  <2> QED
    BY <2>1, <2>2
<1>10. ASSUME NEW w \in Writers, Refuse(w) \/ Submit(w) \/ GiveUp(w) \/ Step(w)
       PROVE  UNCHANGED <<answer, durable>> \/ Contract!CNext
    BY <1>3, <1>4, <1>5, <1>6, <1>7, <1>8, <1>9, <1>10 DEF Step, Contract!CNext
<1> QED
    BY <1>1, <1>2, <1>10 DEF Next, Contract!contract

\* The queue, the election, the groups and the shared barriers implement the
\* contract of the write path: a client sees writes submitted once, answered at
\* most once, confirmed only when durable, and durable only if submitted
\* (submit, drive, commit_group and StandDown in commit.rs).
THEOREM GroupCommitImplementsContract == Spec => ImplementsContract
<1>1. Init => ContractInv /\ Contract!CInit
    BY ContractInit
<1>2. ContractInv /\ [Next]_vars => ContractInv'
    BY AckStep, HeldStep DEF ContractInv, AckInv
<1>3. ContractInv /\ [Next]_vars => [Contract!CNext]_(Contract!contract)
    BY ContractStep
<1> QED
    BY <1>1, <1>2, <1>3, PTL DEF Spec, ImplementsContract, Contract!CSpec

=============================================================================
