------------------------------- MODULE Serving -------------------------------
(***************************************************************************)
(* The HTTP front end over the group committer (src/server/limits.rs,      *)
(* src/server/mod.rs): a request's body is received under a body slot, the *)
(* request is admitted under a store permit or shed, its handler reads     *)
(* under the shared guard or submits to the committer, and a deadline or a *)
(* disconnect frees the permit while the work goes on.  A signal, or a     *)
(* store that will not open, drains the server and flushes the store.      *)
(*                                                                         *)
(* The committer is module GroupCommit, whose actions are steps of this    *)
(* one.  Deadlines and the body's idle timer are configured, as they are   *)
(* by default.                                                             *)
(***************************************************************************)
EXTENDS GroupCommit

CONSTANTS
    Readers,            \* the read requests of a behaviour
    Limit,              \* Limits::limit, the store permits
    BODY_SLOT_FACTOR    \* body slots per store permit

ASSUME ServingAssumption ==
    /\ Limit \in Nat \ {0} /\ BODY_SLOT_FACTOR \in Nat \ {0}
    /\ Readers \cap Writers = {}

VARIABLES
    phase,    \* per request: "new", "body", "admitted" or "done"
    reply,    \* per request: the response, "none" until there is one
    scan,     \* per read: "none", "spawned", "scanning", "ok" or "err"
    serving   \* the process: "up", "draining" or "stopped"

front == <<phase, reply, scan, serving>>
served == <<vars, front>>

Requests == Writers \cup Readers

Permits == {r \in Requests : phase[r] = "admitted"}
Bodies == {r \in Requests : phase[r] = "body"}

\* The request leaves with response a; what it held is released.
Leaves(r, a) ==
    /\ phase' = [phase EXCEPT ![r] = "done"]
    /\ reply' = [reply EXCEPT ![r] = a]

\* Phase 2 of backpressure: a store permit, or 503 at once.
Admit(r) ==
    IF Cardinality(Permits) < Limit
    THEN phase' = [phase EXCEPT ![r] = "admitted"] /\ UNCHANGED reply
    ELSE Leaves(r, "shed")

\* A request comes in.  One that declares too much is refused, one that
\* declares no body needs no slot, any other takes a body slot or is shed.
Arrive(r) ==
    /\ serving = "up" /\ phase[r] = "new"
    /\ \/ Leaves(r, "too large")
       \/ Admit(r)
       \/ IF Cardinality(Bodies) < Limit * BODY_SLOT_FACTOR
          THEN phase' = [phase EXCEPT ![r] = "body"] /\ UNCHANGED reply
          ELSE Leaves(r, "shed")
    /\ UNCHANGED <<vars, scan, serving>>

\* The last frame: the slot is dropped and the request goes on to Admit.
BodyArrives(r) ==
    /\ phase[r] = "body"
    /\ Admit(r)
    /\ UNCHANGED <<vars, scan, serving>>

\* Mutant: a body may stall for ever.
BodyWaits(r) == FALSE /\ UNCHANGED served

\* IdleTimeoutBody gives up on a silent client, or the body outgrows its limit.
BodyFails(r) ==
    /\ phase[r] = "body"
    /\ Leaves(r, "too large")
    /\ UNCHANGED <<vars, scan, serving>>

-----------------------------------------------------------------------------
(* The handlers *)

\* run_write: refused before the store is open, or submitted.
RunWrite(w) ==
    /\ phase[w] = "admitted"
    /\ Refuse(w) \/ Submit(w)
    /\ UNCHANGED front

\* The committer answered and the handler returns.
WriteReturns(w) ==
    /\ phase[w] = "admitted" /\ answer[w] \in {"ok", "err"}
    /\ Leaves(w, answer[w])
    /\ UNCHANGED <<vars, scan, serving>>

\* run_read: the closure goes to a blocking thread ...
RunRead(r) ==
    /\ phase[r] = "admitted" /\ scan[r] = "none"
    /\ scan' = [scan EXCEPT ![r] = "spawned"]
    /\ UNCHANGED <<vars, phase, reply, serving>>

\* ... where it finds the lock poisoned or no store behind it ...
ScanRefused(r) ==
    /\ scan[r] = "spawned" /\ guard # "exclusive" /\ (poisoned \/ ~open)
    /\ scan' = [scan EXCEPT ![r] = "err"]
    /\ UNCHANGED <<vars, phase, reply, serving>>

\* ... or takes the shared guard ...
ScanBegin(r) ==
    /\ scan[r] = "spawned"
    /\ ReadBegin
    /\ scan' = [scan EXCEPT ![r] = "scanning"]
    /\ UNCHANGED <<phase, reply, serving>>

\* ... and scans to the end, or to the check that sees the token cancelled.
ScanEnd(r) ==
    /\ scan[r] = "scanning"
    /\ ReadEnd
    /\ \E a \in {"ok", "err"} : scan' = [scan EXCEPT ![r] = a]
    /\ UNCHANGED <<phase, reply, serving>>

ReadReturns(r) ==
    /\ phase[r] = "admitted" /\ scan[r] \in {"ok", "err"}
    /\ Leaves(r, scan[r])
    /\ UNCHANGED <<vars, scan, serving>>

\* Nothing has been returned to the request's handler yet.
Unfinished(r) ==
    IF r \in Writers THEN answer[r] \in {"none", "waiting"} ELSE scan[r] \notin {"ok", "err"}

\* The handler is dropped: a submitted write's receiver goes, its job stays.
Abandoned(r) == IF r \in Writers /\ answer[r] = "waiting" THEN GiveUp(r) ELSE UNCHANGED vars

\* Mutant: a request past its deadline is told to retry.
DeadlineSheds(r) ==
    /\ phase[r] = "admitted" /\ Unfinished(r)
    /\ Leaves(r, "shed")
    /\ Abandoned(r)
    /\ UNCHANGED <<scan, serving>>

\* Mutant: only a read has a deadline.
DeadlineOfReads(r) ==
    /\ phase[r] = "admitted" /\ Unfinished(r) /\ r \in Readers
    /\ Leaves(r, "timed out")
    /\ Abandoned(r)
    /\ UNCHANGED <<scan, serving>>

\* The deadline: 504, and the permit is free while the work may still run.
Deadline(r) ==
    /\ phase[r] = "admitted" /\ Unfinished(r)
    /\ Leaves(r, "timed out")
    /\ Abandoned(r)
    /\ UNCHANGED <<scan, serving>>

\* The client goes: hyper drops the response future wherever it is.
Disconnect(r) ==
    /\ phase[r] \in {"body", "admitted"}
    /\ Leaves(r, "gone")
    /\ Abandoned(r)
    /\ UNCHANGED <<scan, serving>>

-----------------------------------------------------------------------------
(* The process *)

\* serve's blocking task: the store opens, and is published under the guard.
Opens ==
    /\ serving \in {"up", "draining"} /\ guard = "free"
    /\ OpenStore
    /\ UNCHANGED front

\* The store will not open: the server is asked to stop.
OpenFails ==
    /\ serving \in {"up", "draining"} /\ ~open
    /\ serving' = "aborting"
    /\ UNCHANGED <<vars, phase, reply, scan>>

\* shutdown_signal: SIGTERM or Ctrl-C; no new requests from here on.
Signal ==
    /\ serving = "up"
    /\ serving' = "draining"
    /\ UNCHANGED <<vars, phase, reply, scan>>

\* shutdown_store, once axum has answered what was in flight: flush under the
\* exclusive guard, its failure only logged.
Stop ==
    /\ serving \in {"draining", "aborting"} /\ Permits \cup Bodies = {}
    /\ guard = "free"
    /\ serving' = "stopped"
    /\ \/ UNCHANGED <<unsynced, durable>>
       \/ /\ open /\ ~poisoned
          /\ durable' = durable \cup unsynced
          /\ unsynced' = {}
    /\ UNCHANGED <<open, queue, leader, task, guard, poisoned, answer, reads, phase, reply, scan>>

ServingInit ==
    /\ Init
    /\ phase = [r \in Requests |-> "new"]
    /\ reply = [r \in Requests |-> "none"]
    /\ scan = [r \in Readers |-> "none"]
    /\ serving = "up"

\* A step of the leader's blocking thread.
Drives(w) == Step(w) /\ UNCHANGED front

Scans(r) == ScanRefused(r) \/ ScanBegin(r) \/ ScanEnd(r)

ServingNext ==
    \/ Opens \/ OpenFails \/ Signal \/ Stop
    \/ \E r \in Requests : Arrive(r) \/ BodyArrives(r) \/ BodyFails(r) \/ Deadline(r) \/ Disconnect(r)
    \/ \E w \in Writers : RunWrite(w) \/ WriteReturns(w) \/ Drives(w)
    \/ \E r \in Readers : RunRead(r) \/ ReadReturns(r) \/ Scans(r)

\* Timers fire, blocking threads run, a handler whose answer has come returns,
\* and the lock is granted to a task that waits for it.  Nothing is asked of a
\* client, of the open, or of a handler before it submits.
ServingFairness ==
    /\ WF_served(Stop)
    /\ \A r \in Requests : WF_served(BodyFails(r)) /\ WF_served(Deadline(r))
    /\ \A w \in Writers :
        /\ WF_served(WriteReturns(w)) /\ WF_served(Drives(w))
        /\ SF_served(Reach(w) /\ UNCHANGED front)
    /\ \A r \in Readers : WF_served(ReadReturns(r)) /\ WF_served(Scans(r))

ServingSpec == ServingInit /\ [][ServingNext]_served /\ ServingFairness

-----------------------------------------------------------------------------
(* Properties *)

\* The shape of the front end, over that of the committer.
ServingTypeOK ==
    /\ TypeOK
    /\ phase \in [Requests -> {"new", "body", "admitted", "done"}]
    /\ reply \in [Requests -> {"none", "ok", "err", "shed", "too large", "timed out", "gone"}]
    /\ scan \in [Readers -> {"none", "spawned", "scanning", "ok", "err"}]
    /\ serving \in {"up", "draining", "aborting", "stopped"}
    /\ Cardinality(Permits) <= Limit /\ Cardinality(Bodies) <= Limit * BODY_SLOT_FACTOR

\* The jobs the committer holds, queued or drained.
Held == {w \in Writers : w \in {queue[i] : i \in DOMAIN queue} \cup UNION {Members(task[v]) : v \in Writers}}

\* A request that was shed was never worked on, then or later (the comment on
\* overloaded: a shed request is retryable, nothing was attempted, the store is
\* untouched), nor was one whose body was refused.
ShedUntouched ==
    \A r \in Requests : reply[r] \in {"shed", "too large"} =>
        /\ r \in Writers => answer[r] = "none" /\ r \notin Held \cup unsynced \cup durable
        /\ r \in Readers => scan[r] = "none"

\* The committer never holds more jobs than there are permits (SPEC 6.4: the
\* queue is bounded, nothing reaches it without holding a permit).
QueueBounded == Cardinality(Held) <= Limit

\* Every request that arrived leaves, even behind a poisoned store or a queue
\* nobody leads: the deadline stands behind what the committer owes.
EveryRequestLeaves ==
    \A r \in Requests : phase[r] # "new" ~> phase[r] = "done"

\* A server told to stop stops: no silent client, no stuck write and no
\* poisoned store keeps it from draining.
Stops == serving \in {"draining", "aborting"} ~> serving = "stopped"
=============================================================================
