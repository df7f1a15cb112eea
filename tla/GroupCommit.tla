----------------------------- MODULE GroupCommit -----------------------------
(***************************************************************************)
(* Group commit of the served write path (src/server/commit.rs): writes    *)
(* queue, the first one in elects itself leader and spawns a drive task,   *)
(* the leader applies the whole queue under one exclusive store guard with *)
(* every barrier deferred, takes one barrier, and answers its members      *)
(* after it released the guard.                                            *)
(*                                                                         *)
(* A write is known by the request that submits it.  The store behind the  *)
(* guard is reduced to what the committer asks of it: a deferred write is  *)
(* applied or fails and rolls back, and commit() makes everything applied  *)
(* so far durable or fails (module Store has the inside of both).          *)
(***************************************************************************)
EXTENDS Naturals, Sequences, FiniteSets

CONSTANTS
    Writers,      \* the write requests of a behaviour
    MaxReads,     \* bound: shared guards taken by readers in a behaviour
    Panics        \* whether a write may panic while it is applied

ASSUME GroupCommitAssumption ==
    MaxReads \in Nat /\ Panics \in BOOLEAN

VARIABLES
    open,         \* Store::Single::open, the flag a request reads before it queues
    queue,        \* Inner::queue
    leader,       \* Inner::leader
    task,         \* per writer, the drive task its election spawned
    guard,        \* the store's RwLock: "free", "shared" or "exclusive"
    poisoned,     \* a write panicked under the exclusive guard
    answer,       \* per writer: "none", "waiting", "gone", "ok" or "err"
    unsynced,     \* writes in the index whose barrier is owed
    durable,      \* writes a barrier covered
    reads         \* shared guards taken so far

vars == <<open, queue, leader, task, guard, poisoned, answer, unsynced, durable, reads>>

\* A task that was never spawned or has returned.  group is what drive drained
\* and has not applied, acks the outcomes of what it has, failed whether the
\* group's barrier failed.
Task(pc, group, acks, failed) ==
    [pc |-> pc, group |-> group, acks |-> acks, failed |-> failed]

NoTask == Task("none", <<>>, <<>>, FALSE)

Members(t) ==
    {t.group[i] : i \in DOMAIN t.group} \cup {t.acks[i].who : i \in DOMAIN t.acks}

\* Mutant: a receiver whose sender is gone keeps waiting.
DroppedSilently(S) == answer

\* Mutant: every member of a dropped group is answered, whoever gave up before.
DroppedTwice(S) == [w \in Writers |-> IF w \in S THEN "err" ELSE answer[w]]

\* The senders of S are dropped unanswered: each receiver still there takes
\* submit's oneshot fallback.
Dropped(S) ==
    [w \in Writers |-> IF w \in S /\ answer[w] = "waiting" THEN "err" ELSE answer[w]]

-----------------------------------------------------------------------------
(* The request side *)

\* serve: the store is opened on a blocking task, then published.
OpenStore ==
    /\ ~open
    /\ open' = TRUE
    /\ UNCHANGED <<queue, leader, task, guard, poisoned, answer, unsynced, durable, reads>>

\* run_write before the store is open: refused without queueing.
Refuse(w) ==
    /\ answer[w] = "none" /\ ~open
    /\ answer' = [answer EXCEPT ![w] = "err"]
    /\ UNCHANGED <<open, queue, leader, task, guard, poisoned, unsynced, durable, reads>>

\* Mutant: every write that finds the queue empty takes the lead.
SubmitElectsOnEmpty(w) ==
    /\ answer[w] = "none" /\ open
    /\ answer' = [answer EXCEPT ![w] = "waiting"]
    /\ queue' = Append(queue, w)
    /\ leader' = TRUE
    /\ task' = IF queue = <<>> THEN [task EXCEPT ![w] = Task("spawned", <<>>, <<>>, FALSE)] ELSE task
    /\ UNCHANGED <<open, guard, poisoned, unsynced, durable, reads>>

\* submit: enqueue and election in one critical section.
Submit(w) ==
    /\ answer[w] = "none" /\ open
    /\ answer' = [answer EXCEPT ![w] = "waiting"]
    /\ queue' = Append(queue, w)
    /\ leader' = TRUE
    /\ task' = IF leader THEN task ELSE [task EXCEPT ![w] = Task("spawned", <<>>, <<>>, FALSE)]
    /\ UNCHANGED <<open, guard, poisoned, unsynced, durable, reads>>

\* A deadline or a disconnect drops the receiver; the job stays queued.
GiveUp(w) ==
    /\ answer[w] = "waiting"
    /\ answer' = [answer EXCEPT ![w] = "gone"]
    /\ UNCHANGED <<open, queue, leader, task, guard, poisoned, unsynced, durable, reads>>

-----------------------------------------------------------------------------
(* drive *)

\* A blocking thread picks the task up.
Start(w) ==
    /\ task[w].pc = "spawned"
    /\ task' = [task EXCEPT ![w] = Task("drain", <<>>, <<>>, FALSE)]
    /\ UNCHANGED <<open, queue, leader, guard, poisoned, answer, unsynced, durable, reads>>

\* Mutant: the leader looks at the queue, and stands down in a step of its own.
DrainThenStandDown(w) ==
    /\ \/ /\ task[w].pc = "drain"
          /\ IF queue = <<>>
             THEN task' = [task EXCEPT ![w].pc = "leave"] /\ UNCHANGED queue
             ELSE /\ task' = [task EXCEPT ![w] = Task("lock", queue, <<>>, FALSE)]
                  /\ queue' = <<>>
          /\ UNCHANGED leader
       \/ /\ task[w].pc = "leave"
          /\ task' = [task EXCEPT ![w] = NoTask]
          /\ leader' = FALSE
          /\ UNCHANGED queue
    /\ UNCHANGED <<open, guard, poisoned, answer, unsynced, durable, reads>>

\* The queue is taken whole, or found empty and leadership given up under the
\* same lock.
Drain(w) ==
    /\ task[w].pc = "drain"
    /\ IF queue = <<>>
       THEN /\ task' = [task EXCEPT ![w] = NoTask]
            /\ leader' = FALSE
            /\ UNCHANGED queue
       ELSE /\ task' = [task EXCEPT ![w] = Task("lock", queue, <<>>, FALSE)]
            /\ queue' = <<>>
            /\ UNCHANGED leader
    /\ UNCHANGED <<open, guard, poisoned, answer, unsynced, durable, reads>>

\* with_store: the exclusive guard, or, on a poisoned lock, None and the group
\* dropped.
Reach(w) ==
    /\ task[w].pc = "lock" /\ guard = "free"
    /\ IF poisoned
       THEN /\ task' = [task EXCEPT ![w] = Task("drain", <<>>, <<>>, FALSE)]
            /\ answer' = Dropped(Members(task[w]))
            /\ UNCHANGED guard
       ELSE /\ task' = [task EXCEPT ![w] = Task("apply", task[w].group, <<>>, FALSE)]
            /\ guard' = "exclusive"
            /\ UNCHANGED answer
    /\ UNCHANGED <<open, queue, leader, poisoned, unsynced, durable, reads>>

\* Phase 1, one write: applied with its barrier deferred, or failed and rolled
\* back.
Apply(w) ==
    /\ task[w].pc = "apply" /\ task[w].group # <<>>
    /\ \E ok \in BOOLEAN :
        /\ task' = [task EXCEPT ![w] =
                       Task("apply", Tail(task[w].group),
                            Append(task[w].acks, [who |-> Head(task[w].group), ok |-> ok]), FALSE)]
        /\ unsynced' = IF ok THEN unsynced \cup {Head(task[w].group)} ELSE unsynced
    /\ UNCHANGED <<open, queue, leader, guard, poisoned, answer, durable, reads>>

\* The write panics: the guard is poisoned, the unwind drops the whole group's
\* senders, and StandDown clears the leadership flag.
Panic(w) ==
    /\ Panics
    /\ task[w].pc = "apply" /\ task[w].group # <<>>
    /\ poisoned' = TRUE
    /\ guard' = "free"
    /\ answer' = Dropped(Members(task[w]))
    /\ task' = [task EXCEPT ![w] = NoTask]
    /\ leader' = FALSE
    /\ UNCHANGED <<open, queue, unsynced, durable, reads>>

\* Some write of the group was applied.
needs_barrier(acks) == \E i \in DOMAIN acks : acks[i].ok

\* Phase 2: one barrier for the group, unless every write in it failed; then
\* the guard is released.
Barrier(w) ==
    /\ task[w].pc = "apply" /\ task[w].group = <<>>
    /\ \/ /\ needs_barrier(task[w].acks)
          /\ durable' = durable \cup unsynced
          /\ unsynced' = {}
          /\ task' = [task EXCEPT ![w] = Task("ack", <<>>, task[w].acks, FALSE)]
       \/ /\ needs_barrier(task[w].acks)
          /\ task' = [task EXCEPT ![w] = Task("ack", <<>>, task[w].acks, TRUE)]
          /\ UNCHANGED <<durable, unsynced>>
       \/ /\ ~needs_barrier(task[w].acks)
          /\ task' = [task EXCEPT ![w] = Task("ack", <<>>, task[w].acks, FALSE)]
          /\ UNCHANGED <<durable, unsynced>>
    /\ guard' = "free"
    /\ UNCHANGED <<open, queue, leader, poisoned, answer, reads>>

\* Mutant: a member hears how its own write went, whatever the barrier did.
OutcomeOfWrite(a, failed) == IF a.ok THEN "ok" ELSE "err"

\* What a member is told: its own failure, or the barrier's.
Outcome(a, failed) == IF a.ok /\ ~failed THEN "ok" ELSE "err"

\* Phase 3: answer the members one after the other, then look at the queue.
Ack(w) ==
    /\ task[w].pc = "ack"
    /\ IF task[w].acks = <<>>
       THEN task' = [task EXCEPT ![w] = Task("drain", <<>>, <<>>, FALSE)] /\ UNCHANGED answer
       ELSE LET a == Head(task[w].acks) IN
            /\ answer' = [answer EXCEPT ![a.who] =
                             IF @ = "waiting" THEN Outcome(a, task[w].failed) ELSE @]
            /\ task' = [task EXCEPT ![w] = Task("ack", <<>>, Tail(task[w].acks), task[w].failed)]
    /\ UNCHANGED <<open, queue, leader, guard, poisoned, unsynced, durable, reads>>

-----------------------------------------------------------------------------
(* Readers share the guard: run_read. *)

ReadBegin ==
    /\ open /\ guard = "free" /\ ~poisoned /\ reads < MaxReads
    /\ guard' = "shared"
    /\ reads' = reads + 1
    /\ UNCHANGED <<open, queue, leader, task, poisoned, answer, unsynced, durable>>

ReadEnd ==
    /\ guard = "shared"
    /\ guard' = "free"
    /\ UNCHANGED <<open, queue, leader, task, poisoned, answer, unsynced, durable, reads>>

Init ==
    /\ open = FALSE
    /\ queue = <<>> /\ leader = FALSE
    /\ task = [w \in Writers |-> NoTask]
    /\ guard = "free" /\ poisoned = FALSE
    /\ answer = [w \in Writers |-> "none"]
    /\ unsynced = {} /\ durable = {}
    /\ reads = 0

Step(w) == Start(w) \/ Drain(w) \/ Reach(w) \/ Apply(w) \/ Panic(w) \/ Barrier(w) \/ Ack(w)

Next ==
    \/ OpenStore \/ ReadBegin \/ ReadEnd
    \/ \E w \in Writers : Refuse(w) \/ Submit(w) \/ GiveUp(w) \/ Step(w)

\* A blocking thread keeps running, a read ends, and the lock is granted to a
\* task that waits for it.
Fairness ==
    /\ WF_vars(ReadEnd)
    /\ \A w \in Writers : WF_vars(Step(w)) /\ SF_vars(Reach(w))

Spec == Init /\ [][Next]_vars /\ Fairness

-----------------------------------------------------------------------------
(* Properties *)

Contract == INSTANCE WriteContract WITH told <- answer, kept <- durable

\* Queue, leader, groups and shared barriers keep the contract of the write
\* path: what they hide behind, every step of theirs is a step of it or none.
ImplementsContract == Contract!CSpec

Ackd == [who : Writers, ok : BOOLEAN]
TaskType ==
    [pc : {"none", "spawned", "drain", "lock", "apply", "ack"},
     group : Seq(Writers), acks : Seq(Ackd), failed : BOOLEAN]

\* The shape of the queue, of the drive tasks and of the answers.
TypeOK ==
    /\ open \in BOOLEAN /\ leader \in BOOLEAN /\ poisoned \in BOOLEAN
    /\ queue \in Seq(Writers)
    /\ task \in [Writers -> TaskType]
    /\ guard \in {"free", "shared", "exclusive"}
    /\ answer \in [Writers -> {"none", "waiting", "gone", "ok", "err"}]
    /\ unsynced \subseteq Writers /\ durable \subseteq Writers
    /\ reads \in Nat

\* Nothing is reported successful before the barrier that covers it returned
\* Ok (SPEC 6.4), whatever group it was in and whatever failed next to it.
AckedDurable == \A w \in Writers : answer[w] = "ok" => w \in durable

\* A queued write is never left unattended: someone leads, and no second
\* leader competes for the guard; only a write that panicked leaves a queue
\* behind (Inner::leader, cleared under the lock that saw the queue empty).
NothingUnattended ==
    /\ queue # <<>> => leader \/ poisoned
    /\ leader <=> \E w \in Writers : task[w].pc # "none"
    /\ \A v, w \in Writers : task[v].pc # "none" /\ task[w].pc # "none" => v = w

\* No request is lost: one that still waits is in the queue or in the leader's
\* hands.
WaitingIsHeld ==
    \A w \in Writers : answer[w] = "waiting" =>
        \/ \E i \in DOMAIN queue : queue[i] = w
        \/ \E v \in Writers : w \in Members(task[v])

\* Every write that queued on a store no write has poisoned is answered: the
\* leader that will serve it does not stand down first.
AnsweredUnlessPoisoned ==
    \A w \in Writers : answer[w] = "waiting" ~> (answer[w] # "waiting" \/ poisoned)

\* Every write that queued is answered, whatever panics next to it (the
\* comment on StandDown: a panicking write must not leave the queue
\* leaderless, which would hang every write behind it).
EveryWriteAnswered ==
    \A w \in Writers : answer[w] = "waiting" ~> answer[w] # "waiting"

=============================================================================
