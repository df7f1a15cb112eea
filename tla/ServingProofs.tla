---------------------------- MODULE ServingProofs ----------------------------
(***************************************************************************)
(* Theorems about the HTTP front end, for any set of requests and any      *)
(* number of permits and body slots.                                       *)
(***************************************************************************)
EXTENDS Serving, GroupCommitProofs

-----------------------------------------------------------------------------
(* The committer behind the front end *)

\* Every step of the front end leaves the committer alone or is one of its own
\* steps, except the last one: the flush of shutdown_store.
LEMMA FrontStep == ServingNext => [Next]_vars \/ Stop
<1> SUFFICES ASSUME ServingNext PROVE [Next]_vars \/ Stop
    OBVIOUS
<1>1. CASE Opens
    BY <1>1 DEF Opens, Next
<1>2. CASE OpenFails \/ Signal
    BY <1>2 DEF OpenFails, Signal
<1>3. ASSUME NEW r \in Requests, Arrive(r) \/ BodyArrives(r) \/ BodyFails(r)
      PROVE  UNCHANGED vars
    BY <1>3, Zenon DEF Arrive, BodyArrives, BodyFails
<1>4. ASSUME NEW r \in Requests, Deadline(r) \/ Disconnect(r) PROVE [Next]_vars
  <2>1. Abandoned(r)
    BY <1>4, Zenon DEF Deadline, Disconnect
  <2> QED
    BY <2>1 DEF Abandoned, Next
<1>5. ASSUME NEW w \in Writers, RunWrite(w) \/ Drives(w) PROVE Next
    BY <1>5, Zenon DEF RunWrite, Drives, Next
<1>6. ASSUME NEW w \in Writers, WriteReturns(w) PROVE UNCHANGED vars
    BY <1>6 DEF WriteReturns
<1>7. ASSUME NEW r \in Readers, RunRead(r) \/ ReadReturns(r) \/ ScanRefused(r)
      PROVE  UNCHANGED vars
    BY <1>7, Zenon DEF RunRead, ReadReturns, ScanRefused
<1>8. ASSUME NEW r \in Readers, ScanBegin(r) \/ ScanEnd(r) PROVE Next
    BY <1>8, Zenon DEF ScanBegin, ScanEnd, Next
<1> QED
    BY <1>1, <1>2, <1>3, <1>4, <1>5, <1>6, <1>7, <1>8 DEF ServingNext, Scans

\* The flush keeps the committer's types and what it holds.
LEMMA StopKeeps ==
    ASSUME TypeOK, HeldInv, Stop
    PROVE  TypeOK' /\ HeldInv'
<1>1. UNCHANGED <<open, queue, leader, task, guard, poisoned, answer, reads>>
    BY Zenon DEF Stop
<1>2. unsynced' \subseteq unsynced /\ durable' \subseteq durable \cup unsynced
    BY DEF Stop
<1>3. TypeOK'
    BY <1>1, <1>2 DEF TypeOK
<1>4. HeldInv'
    BY <1>1, <1>2 DEF HeldInv, HandsInv, Submitted
<1> QED
    BY <1>3, <1>4

LEMMA SeqElement ==
    ASSUME NEW S, NEW s \in Seq(S), NEW i \in DOMAIN s
    PROVE  s[i] \in S
OBVIOUS

\* What the committer holds was submitted to it.
LEMMA HeldIsSubmitted ==
    ASSUME HeldInv
    PROVE  Held \cup unsynced \cup durable \subseteq Submitted
<1>1. \A i \in DOMAIN queue : queue[i] \in Submitted
    BY DEF HeldInv
<1>2. ASSUME NEW v \in Writers PROVE Members(task[v]) \subseteq Submitted
  <2>0. task[v].group \in Seq(Submitted) /\ task[v].acks \in Seq([who : Submitted, ok : BOOLEAN])
    BY Zenon DEF HeldInv, HandsInv
  <2>1. \A i \in DOMAIN task[v].group : task[v].group[i] \in Submitted
    BY <2>0, SeqElement, Zenon
  <2>2. \A i \in DOMAIN task[v].acks : task[v].acks[i] \in [who : Submitted, ok : BOOLEAN]
    BY <2>0, SeqElement, Zenon
  <2>3. \A i \in DOMAIN task[v].acks : task[v].acks[i].who \in Submitted
    BY <2>2
  <2> QED
    BY <2>1, <2>3 DEF Members
<1>3. Held \subseteq Submitted
    BY <1>1, <1>2 DEF Held
<1> QED
    BY <1>3 DEF HeldInv

-----------------------------------------------------------------------------
(* Shed means untouched *)

Untouched(r) ==
    /\ r \in Writers => answer[r] = "none"
    /\ r \in Readers => scan[r] = "none"

\* A request that is not admitted has not been worked on, and one that left
\* with a refusal never was admitted.
Clean(r) ==
    /\ phase[r] # "done" => reply[r] = "none"
    /\ phase[r] # "admitted" /\ reply[r] \in {"none", "shed", "too large"} => Untouched(r)

FrontInv == \A r \in Requests : Clean(r)

FrontType ==
    /\ phase \in [Requests -> {"new", "body", "admitted", "done"}]
    /\ DOMAIN reply = Requests
    /\ scan \in [Readers -> {"none", "spawned", "scanning", "ok", "err"}]

\* The inductive invariant of the front end.
ShedInv == TypeOK /\ HeldInv /\ FrontType /\ FrontInv

LEMMA ShedInit == ServingInit => ShedInv
<1> SUFFICES ASSUME ServingInit PROVE ShedInv
    OBVIOUS
<1>1. TypeOK /\ HeldInv
    BY TypeInit, HeldInit DEF ServingInit
<1>2. FrontType
    BY DEF ServingInit, FrontType
<1>3. FrontInv
    BY DEF ServingInit, Init, FrontInv, Clean, Untouched, Requests
<1> QED
    BY <1>1, <1>2, <1>3 DEF ShedInv

\* A write nobody has submitted stays so, whatever the leader and the other
\* requests do.
LEMMA NobodyElseSubmits ==
    ASSUME TypeOK, NEW v \in Writers, answer[v] = "none", NEW w \in Writers,
           Step(w) \/ GiveUp(w) \/ (w # v /\ (Refuse(w) \/ Submit(w)))
    PROVE  answer'[v] = "none"
<1>0. answer \in [Writers -> {"none", "waiting", "gone", "ok", "err"}]
    BY DEF TypeOK
<1>1. CASE Start(w) \/ Drain(w) \/ Apply(w) \/ Barrier(w)
    BY <1>1, Zenon DEF Start, Drain, Apply, Barrier
<1>2. CASE Reach(w)
  <2>1. UNCHANGED answer \/ answer' = Dropped(Members(task[w]))
    BY <1>2, Zenon DEF Reach
  <2> QED
    BY <2>1 DEF Dropped
<1>3. CASE Panic(w)
    BY <1>3 DEF Panic, Dropped
<1>4. CASE Ack(w)
  <2>1. CASE task[w].acks = <<>>
    BY <1>4, <2>1 DEF Ack
  <2>2. CASE task[w].acks # <<>>
    BY <1>0, <1>4, <2>2 DEF Ack
  <2> QED
    BY <2>1, <2>2
<1>5. CASE GiveUp(w)
    BY <1>0, <1>5 DEF GiveUp
<1>6. CASE w # v /\ (Refuse(w) \/ Submit(w))
    BY <1>0, <1>6 DEF Refuse, Submit
<1> QED
    BY <1>1, <1>2, <1>3, <1>4, <1>5, <1>6 DEF Step

\* A request nobody touches, in a step that does not work on it.
LEMMA StaysClean ==
    ASSUME NEW q \in Requests, Clean(q), phase'[q] = phase[q], reply'[q] = reply[q],
           phase[q] # "admitted" => (Untouched(q) => Untouched(q)')
    PROVE  Clean(q)'
BY DEF Clean

\* A request that gives up its place without an answer, or is shed before it
\* had one.
LEMMA LeavesClean ==
    ASSUME NEW q \in Requests, Clean(q), phase'[q] = "done",
           \/ reply'[q] \notin {"none", "shed", "too large"}
           \/ phase[q] \in {"new", "body"} /\ (Untouched(q) => Untouched(q)')
    PROVE  Clean(q)'
BY DEF Clean

LEMMA MovesClean ==
    ASSUME NEW q \in Requests, Clean(q), phase[q] # "done", reply'[q] = reply[q],
           \/ phase'[q] = "admitted"
           \/ phase[q] # "admitted" /\ phase'[q] # "done" /\ (Untouched(q) => Untouched(q)')
    PROVE  Clean(q)'
BY DEF Clean

\* Admission, from either side of the body.
LEMMA AdmitClean ==
    ASSUME FrontType, FrontInv, NEW r \in Requests, phase[r] \in {"new", "body"},
           UNCHANGED <<answer, scan>>,
           \/ Admit(r)
           \/ Leaves(r, "shed") \/ Leaves(r, "too large")
           \/ phase' = [phase EXCEPT ![r] = "body"] /\ UNCHANGED reply
    PROVE  FrontType' /\ FrontInv'
<1>1. \A q \in Requests : Untouched(q) => Untouched(q)'
    BY DEF Untouched
<1>2. \/ Leaves(r, "shed") \/ Leaves(r, "too large")
      \/ phase' = [phase EXCEPT ![r] = "admitted"] /\ UNCHANGED reply
      \/ phase' = [phase EXCEPT ![r] = "body"] /\ UNCHANGED reply
    BY Zenon DEF Admit
<1>3. FrontType'
    BY <1>2 DEF FrontType, Leaves
<1>4. ASSUME NEW q \in Requests, q # r PROVE Clean(q)'
  <2>1. phase'[q] = phase[q] /\ reply'[q] = reply[q]
    BY <1>2, <1>4 DEF FrontType, Leaves
  <2> QED
    BY <1>1, <2>1, StaysClean DEF FrontInv
<1>5. Clean(r)'
  <2>1. CASE Leaves(r, "shed") \/ Leaves(r, "too large")
    <3>1. phase'[r] = "done"
      BY <2>1 DEF FrontType, Leaves
    <3> QED
      BY <1>1, <3>1, LeavesClean DEF FrontInv
  <2>2. CASE phase' = [phase EXCEPT ![r] = "admitted"] /\ UNCHANGED reply
    <3>1. phase'[r] = "admitted" /\ reply'[r] = reply[r]
      BY <2>2 DEF FrontType
    <3> QED
      BY <3>1, MovesClean DEF FrontInv
  <2>3. CASE phase' = [phase EXCEPT ![r] = "body"] /\ UNCHANGED reply
    <3>1. phase'[r] = "body" /\ reply'[r] = reply[r]
      BY <2>3 DEF FrontType
    <3> QED
      BY <1>1, <3>1, MovesClean DEF FrontInv
  <2> QED
    BY <1>2, <2>1, <2>2, <2>3
<1> QED
    BY <1>3, <1>4, <1>5 DEF FrontInv

\* A request that leaves admitted: with an answer, past its deadline, or
\* because its client went.
LEMMA LeavingClean ==
    ASSUME FrontType, FrontInv, NEW r \in Requests,
           NEW a, a \notin {"none", "shed", "too large"}, Leaves(r, a), UNCHANGED scan,
           \A q \in Requests : Untouched(q) => Untouched(q)'
    PROVE  FrontType' /\ FrontInv'
<1>1. FrontType'
    BY DEF FrontType, Leaves
<1>2. phase'[r] = "done" /\ reply'[r] = a
    BY DEF FrontType, Leaves
<1>3. Clean(r)'
    BY <1>2, LeavesClean DEF FrontInv
<1>4. ASSUME NEW q \in Requests, q # r PROVE Clean(q)'
  <2>1. phase'[q] = phase[q] /\ reply'[q] = reply[q]
    BY <1>4 DEF FrontType, Leaves
  <2> QED
    BY <2>1, StaysClean DEF FrontInv
<1> QED
    BY <1>1, <1>3, <1>4 DEF FrontInv

LEMMA ShedStep == ShedInv /\ [ServingNext]_served => ShedInv'
<1> SUFFICES ASSUME ShedInv, [ServingNext]_served PROVE ShedInv'
    OBVIOUS
<1>0. TypeOK /\ HeldInv /\ FrontType /\ FrontInv /\ \A q \in Requests : Clean(q)
    BY DEF ShedInv, FrontInv
<1>1. TypeOK' /\ HeldInv'
  <2>1. [Next]_vars \/ Stop
    BY FrontStep DEF served
  <2> QED
    BY <1>0, <2>1, TypeStep, HeldStep, StopKeeps
<1>a. SUFFICES FrontType' /\ FrontInv'
    BY <1>1 DEF ShedInv
<1>b. ASSUME UNCHANGED <<phase, reply, scan>>,
             \A q \in Requests : phase[q] # "admitted" => (Untouched(q) => Untouched(q)')
      PROVE  FrontType' /\ FrontInv'
  <2>1. FrontType'
    BY <1>0, <1>b DEF FrontType
  <2>2. ASSUME NEW q \in Requests PROVE Clean(q)'
    BY <1>0, <1>b, StaysClean
  <2> QED
    BY <2>1, <2>2 DEF FrontInv
<1>c. ASSUME UNCHANGED <<answer, phase, reply, scan>> PROVE FrontType' /\ FrontInv'
    BY <1>b, <1>c DEF Untouched
<1>2. CASE Opens \/ OpenFails \/ Signal \/ Stop
    BY <1>c, <1>2 DEF Opens, OpenFails, Signal, Stop, OpenStore, front, vars
<1>3. ASSUME NEW r \in Requests, Arrive(r) PROVE FrontType' /\ FrontInv'
  <2>1. phase[r] \in {"new", "body"} /\ UNCHANGED <<answer, scan>>
    BY <1>3, Zenon DEF Arrive, vars
  <2>2. \/ Admit(r)
        \/ Leaves(r, "shed") \/ Leaves(r, "too large")
        \/ phase' = [phase EXCEPT ![r] = "body"] /\ UNCHANGED reply
    BY <1>3, Zenon DEF Arrive
  <2> QED
    BY <1>0, <2>1, <2>2, AdmitClean
<1>4. ASSUME NEW r \in Requests, BodyArrives(r) \/ BodyFails(r) PROVE FrontType' /\ FrontInv'
  <2>1. phase[r] \in {"new", "body"} /\ UNCHANGED <<answer, scan>>
    BY <1>4, Zenon DEF BodyArrives, BodyFails, vars
  <2>2. Admit(r) \/ Leaves(r, "too large")
    BY <1>4, Zenon DEF BodyArrives, BodyFails
  <2> QED
    BY <1>0, <2>1, <2>2, AdmitClean
<1>5. ASSUME NEW r \in Requests, Deadline(r) \/ Disconnect(r) PROVE FrontType' /\ FrontInv'
  <2>1. Abandoned(r) /\ UNCHANGED scan /\ (Leaves(r, "timed out") \/ Leaves(r, "gone"))
    BY <1>5, Zenon DEF Deadline, Disconnect
  <2>2. ASSUME NEW q \in Requests, Untouched(q) PROVE Untouched(q)'
    <3>1. CASE UNCHANGED vars
      BY <2>1, <2>2, <3>1 DEF Untouched, vars
    <3>2. CASE r \in Writers /\ GiveUp(r)
      BY <1>0, <2>1, <2>2, <3>2, NobodyElseSubmits DEF Untouched
    <3> QED
      BY <2>1, <3>1, <3>2, Zenon DEF Abandoned
  <2> QED
    BY <1>0, <2>1, <2>2, LeavingClean
<1>6. ASSUME NEW w \in Writers, RunWrite(w) PROVE FrontType' /\ FrontInv'
  <2>1. phase[w] = "admitted" /\ (Refuse(w) \/ Submit(w)) /\ UNCHANGED <<phase, reply, scan>>
    BY <1>6, Zenon DEF RunWrite, front
  <2>2. ASSUME NEW q \in Requests, phase[q] # "admitted", Untouched(q) PROVE Untouched(q)'
    BY <1>0, <2>1, <2>2, NobodyElseSubmits DEF Untouched
  <2> QED
    BY <1>b, <2>1, <2>2
<1>7. ASSUME NEW w \in Writers, Drives(w) PROVE FrontType' /\ FrontInv'
  <2>1. Step(w) /\ UNCHANGED <<phase, reply, scan>>
    BY <1>7, Zenon DEF Drives, front
  <2>2. ASSUME NEW q \in Requests, Untouched(q) PROVE Untouched(q)'
    BY <1>0, <2>1, <2>2, NobodyElseSubmits DEF Untouched
  <2> QED
    BY <1>b, <2>1, <2>2
<1>8. ASSUME NEW w \in Writers, WriteReturns(w) PROVE FrontType' /\ FrontInv'
  <2>1. /\ answer[w] \notin {"none", "shed", "too large"} /\ Leaves(w, answer[w])
        /\ UNCHANGED <<answer, scan>>
    BY <1>8 DEF WriteReturns, vars
  <2> QED
    BY <1>0, <2>1, LeavingClean DEF Untouched, Requests
<1>9. ASSUME NEW r \in Readers, ReadReturns(r) PROVE FrontType' /\ FrontInv'
  <2>1. /\ scan[r] \notin {"none", "shed", "too large"} /\ Leaves(r, scan[r])
        /\ UNCHANGED <<answer, scan>>
    BY <1>9 DEF ReadReturns, vars
  <2> QED
    BY <1>0, <2>1, LeavingClean DEF Untouched, Requests
<1>10. ASSUME NEW r \in Readers, RunRead(r) \/ Scans(r) PROVE FrontType' /\ FrontInv'
  <2>1. /\ UNCHANGED <<phase, reply, answer>>
        /\ \E a \in {"spawned", "scanning", "ok", "err"} : scan' = [scan EXCEPT ![r] = a]
        /\ phase[r] = "admitted" \/ scan[r] # "none"
    BY <1>10 DEF RunRead, Scans, ScanRefused, ScanBegin, ScanEnd, ReadBegin, ReadEnd, vars
  <2>2. FrontType'
    BY <1>0, <2>1 DEF FrontType
  <2>3. ASSUME NEW q \in Requests, phase[q] # "admitted", Untouched(q) PROVE Untouched(q)'
    BY <1>0, <2>1, <2>3 DEF Untouched, FrontType
  <2> QED
    BY <1>0, <2>1, <2>2, <2>3, StaysClean DEF FrontInv
<1>11. CASE UNCHANGED served
    BY <1>c, <1>11 DEF served, front, vars
<1> QED
    BY <1>2, <1>3, <1>4, <1>5, <1>6, <1>7, <1>8, <1>9, <1>10, <1>11 DEF ServingNext

\* A request that was shed, or whose body was refused, was never worked on and
\* never will be: for any number of requests, permits and body slots, whatever
\* deadlines fire, clients leave and writes panic around it (backpressure and
\* overloaded in limits.rs: a shed request is safe to retry).
THEOREM ShedRequestsUntouched == ServingSpec => []ShedUntouched
<1>1. ServingInit => ShedInv
    BY ShedInit
<1>2. ShedInv /\ [ServingNext]_served => ShedInv'
    BY ShedStep
<1>3. ShedInv => ShedUntouched
  <2> SUFFICES ASSUME ShedInv, NEW r \in Requests, reply[r] \in {"shed", "too large"}
               PROVE  /\ r \in Writers => answer[r] = "none" /\ r \notin Held \cup unsynced \cup durable
                      /\ r \in Readers => scan[r] = "none"
    BY DEF ShedUntouched
  <2>1. Untouched(r)
    BY DEF ShedInv, FrontInv, Clean
  <2>2. Held \cup unsynced \cup durable \subseteq Submitted
    BY HeldIsSubmitted DEF ShedInv
  <2> QED
    BY <2>1, <2>2 DEF Untouched, Submitted
<1> QED
    BY <1>1, <1>2, <1>3, PTL DEF ServingSpec

-----------------------------------------------------------------------------
(* What the committer promises survives the front end *)

\* Behind deadlines, disconnects, a failing open and the flush of shutdown, a
\* write answered Ok is durable: the front end is a client of the committer
\* that cannot break its promise.
THEOREM ServedAckedDurable == ServingSpec => []AckedDurable
<1>1. ServingInit => AckInv /\ HeldInv
    BY AckInit, HeldInit DEF ServingInit
<1>2. AckInv /\ HeldInv /\ [ServingNext]_served => (AckInv /\ HeldInv)'
  <2> SUFFICES ASSUME AckInv, HeldInv, [ServingNext]_served PROVE (AckInv /\ HeldInv)'
    OBVIOUS
  <2>0. TypeOK
    BY DEF AckInv
  <2>1. CASE [Next]_vars
    BY <2>0, <2>1, AckStep, HeldStep
  <2>2. CASE Stop
    <3>1. UNCHANGED <<task, answer>> /\ durable \subseteq durable'
          /\ unsynced \cup durable \subseteq unsynced' \cup durable'
      BY <2>2 DEF Stop
    <3>2. \A w \in Writers : TaskInv(w)'
      BY <3>1, OtherTask DEF AckInv
    <3>3. AckedDurable'
      BY <3>1 DEF AckInv, AckedDurable
    <3>4. TypeOK' /\ HeldInv'
      BY <2>0, <2>2, StopKeeps
    <3> QED
      BY <3>2, <3>3, <3>4 DEF AckInv
  <2> QED
    BY <2>1, <2>2, FrontStep DEF served
<1>3. AckInv => AckedDurable
    BY DEF AckInv
<1> QED
    BY <1>1, <1>2, <1>3, PTL DEF ServingSpec

=============================================================================
