---------------------------- MODULE ClusterLease ----------------------------
(***************************************************************************)
(* The writer lease of cluster mode (src/backend/object.rs): a lock object *)
(* that carries its owner and the time of its last stamp.  An instance     *)
(* claims it (try_claim), keeps it warm from two places that do not share  *)
(* a lock (the write path's ClusterLease::renew and the server's timer     *)
(* through LeaseRenewer), releases it on drop, or dies.  Every request to  *)
(* the object store is a step of its own.                                  *)
(*                                                                         *)
(* Time is kept as ages, saturating at MaxAge: how long ago the lease was  *)
(* stamped, and how long ago a request read the clock it will stamp with.  *)
(* A compare-and-swap token is kept as the fact it stands for: the object  *)
(* has not been written since this reader read it.                         *)
(***************************************************************************)
EXTENDS Naturals, FiniteSets

CONSTANTS
    Instances,    \* the cooperating processes
    TTL,          \* Config::lock_ttl, in clock ticks
    MaxPause,     \* bound: ticks between a claim's clock read and its read of the lease
    MaxLives,     \* bound: owner ids an instance puts on a lease or dies with
    Renewers,     \* who renews: "op", the write path; "timer", the server's task
    Releases,     \* whether a process may close its store cleanly
    Retries       \* whether a conditional put that landed may be sent again

ASSUME ClusterLeaseAssumption ==
    /\ TTL \in Nat /\ MaxPause \in Nat /\ MaxLives \in Nat
    /\ Renewers \subseteq {"op", "timer"}
    /\ Releases \in BOOLEAN /\ Retries \in BOOLEAN

VARIABLES
    lease,        \* the lock object, or Absent
    inst,         \* per instance: its place in open, claim and drop
    renewing,     \* per instance and renewer: its place in a renewal
    fresh,        \* the readers whose token is still the object's
    fenced,       \* Store::fenced, latched when the lease is found lost
    life          \* lives used up, the unique part of an owner id

vars == <<lease, inst, renewing, fresh, fenced, life>>

\* An age at MaxAge is past the TTL for every claim that is still to read it.
MaxAge == TTL + MaxPause + 1
Ages == 0..MaxAge
Absent == [owner |-> <<"none", 0>>, age |-> 0]

\* mint_owner: no two lives share an owner id.
Me(i) == <<i, life[i]>>
Body(i, age) == [owner |-> Me(i), age |-> age]

\* Mutant: the stamp is not looked at.
AlwaysLive(since) == TRUE

\* is_live, judged at the time the claim read its clock, `since` ticks ago: an
\* age equal to the TTL is still live.
is_live(since) == lease.age <= TTL + since

\* with_one_retry: the connection dropped after the first attempt landed, and
\* the replay finds its token consumed.
Replayed == Retries

\* A write of the object invalidates every token read before it.
Write(l) == lease' = l /\ fresh' = {}
Read(x) == fresh' = fresh \cup {x}

\* A claim in flight remembers its clock read.
InFlight == {"read", "swap", "clear", "create"}

Goto(i, pc) ==
    inst' = [inst EXCEPT ![i] = [pc |-> pc, since |-> IF pc \in InFlight THEN @.since ELSE 0]]

-----------------------------------------------------------------------------
(* try_claim, retried by await_writer_handle while a live holder is found.  *)

\* The attempt ends, and the next one mints an owner id of its own; the id is
\* used again in the model when no lease carries it.
Abandon(i) ==
    /\ Goto(i, "out")
    /\ life' = [life EXCEPT ![i] = IF lease.owner = Me(i) THEN @ ELSE @ - 1]
    /\ UNCHANGED <<lease, fresh>>

\* create-if-absent, with the clock read for the stamp just before it.
ClaimCreate(i) ==
    /\ inst[i].pc = "out" /\ life[i] < MaxLives
    /\ life' = [life EXCEPT ![i] = @ + 1]
    /\ \/ /\ lease = Absent
          /\ Write([owner |-> <<i, life[i] + 1>>, age |-> 0])
          /\ \E pc \in {"held"} \cup {p \in {"read"} : Replayed} :
                inst' = [inst EXCEPT ![i] = [pc |-> pc, since |-> 0]]
       \/ /\ lease # Absent
          /\ inst' = [inst EXCEPT ![i] = [pc |-> "read", since |-> 0]]
          /\ UNCHANGED <<lease, fresh>>
    /\ UNCHANGED <<renewing, fenced>>

\* The holder's stamp and token: an object that vanished is raced for, a live
\* one ends the attempt, a stale one is swapped.
ClaimRead(i) ==
    /\ inst[i].pc = "read"
    /\ \/ lease = Absent /\ Goto(i, "clear") /\ UNCHANGED <<lease, fresh, life>>
       \/ lease # Absent /\ is_live(inst[i].since) /\ Abandon(i)
       \/ /\ lease # Absent /\ ~is_live(inst[i].since)
          /\ Goto(i, "swap") /\ Read(<<i, "claim">>) /\ UNCHANGED <<lease, life>>
    /\ UNCHANGED <<renewing, fenced>>

\* Mutant: the stale lease is overwritten unconditionally.
ClaimOverwrite(i) ==
    /\ inst[i].pc = "swap"
    /\ Write(Body(i, inst[i].since))
    /\ Goto(i, "held")
    /\ UNCHANGED <<renewing, fenced, life>>

\* The conditional overwrite of a stale lease.
ClaimSwap(i) ==
    /\ inst[i].pc = "swap"
    /\ \/ /\ <<i, "claim">> \in fresh
          /\ Write(Body(i, inst[i].since))
          /\ \E pc \in {"held"} \cup {p \in {"out"} : Replayed} : Goto(i, pc)
          /\ UNCHANGED life
       \/ <<i, "claim">> \notin fresh /\ Abandon(i)
    /\ UNCHANGED <<renewing, fenced>>

\* reclaim_create: delete whatever is there, then race a create.
ReclaimDelete(i) ==
    /\ inst[i].pc = "clear"
    /\ Write(Absent)
    /\ Goto(i, "create")
    /\ UNCHANGED <<renewing, fenced, life>>

ReclaimCreate(i) ==
    /\ inst[i].pc = "create"
    /\ \/ /\ lease = Absent
          /\ Write(Body(i, inst[i].since))
          /\ \E pc \in {"held"} \cup {p \in {"out"} : Replayed} : Goto(i, pc)
          /\ UNCHANGED life
       \/ lease # Absent /\ Abandon(i)
    /\ UNCHANGED <<renewing, fenced>>

-----------------------------------------------------------------------------
(* renew_lease_object, from the write path and from the timer *)

Idle == [pc |-> "idle", since |-> 0]
Renewing(i, t, pc) == renewing' = [renewing EXCEPT ![i][t] = [pc |-> pc, since |-> 0]]

\* LeaseLost: check_writable and the timer both latch the fence.
Lost(i, t) == fenced' = [fenced EXCEPT ![i] = TRUE] /\ Renewing(i, t, "idle")

\* Mutant: a rival's lease is taken for a transient error.
RenewReadIgnoring(i, t) ==
    /\ inst[i].pc = "held" /\ renewing[i][t].pc = "idle"
    /\ \/ lease = Absent /\ Renewing(i, t, "create") /\ UNCHANGED fresh
       \/ lease.owner = Me(i) /\ Renewing(i, t, "put") /\ Read(<<i, t>>)
    /\ UNCHANGED <<lease, inst, fenced, life>>

RenewRead(i, t) ==
    /\ inst[i].pc = "held" /\ renewing[i][t].pc = "idle"
    /\ \/ lease = Absent /\ Renewing(i, t, "create") /\ UNCHANGED <<fresh, fenced>>
       \/ lease # Absent /\ lease.owner # Me(i) /\ Lost(i, t) /\ UNCHANGED fresh
       \/ lease.owner = Me(i) /\ Renewing(i, t, "put") /\ Read(<<i, t>>) /\ UNCHANGED fenced
    /\ UNCHANGED <<lease, inst, life>>

\* Mutant: get-then-put.
RenewOverwrite(i, t) ==
    /\ renewing[i][t].pc = "put"
    /\ Write(Body(i, renewing[i][t].since))
    /\ Renewing(i, t, "idle")
    /\ UNCHANGED <<inst, fenced, life>>

\* The re-stamp, conditional on the token just read.
RenewPut(i, t) ==
    /\ renewing[i][t].pc = "put"
    /\ \/ /\ <<i, t>> \in fresh
          /\ Write(Body(i, renewing[i][t].since))
          /\ \E pc \in {"idle"} \cup {p \in {"reread"} : Replayed} : Renewing(i, t, pc)
       \/ <<i, t>> \notin fresh /\ Renewing(i, t, "reread") /\ UNCHANGED <<lease, fresh>>
    /\ UNCHANGED <<inst, fenced, life>>

\* A lost compare-and-swap is re-read: a peer took over, or the instance's
\* other renewer was faster.
RenewReread(i, t) ==
    /\ renewing[i][t].pc = "reread"
    /\ \/ lease.owner = Me(i) /\ Renewing(i, t, "idle") /\ UNCHANGED fenced
       \/ lease.owner # Me(i) /\ Lost(i, t)
    /\ UNCHANGED <<lease, inst, fresh, life>>

\* The lease object was gone: re-create it.  A create that finds the object
\* there, its own included, is a lost lease.
RenewCreate(i, t) ==
    /\ renewing[i][t].pc = "create"
    /\ \/ /\ lease = Absent
          /\ Write(Body(i, renewing[i][t].since))
          /\ \/ Renewing(i, t, "idle") /\ UNCHANGED fenced
             \/ Replayed /\ Lost(i, t)
       \/ lease # Absent /\ Lost(i, t) /\ UNCHANGED <<lease, fresh>>
    /\ UNCHANGED <<inst, life>>

-----------------------------------------------------------------------------
(* Drop, death and time *)

\* ClusterLease::drop reads the owner, then deletes without a condition.  The
\* write path is done by then; a renewal the timer started may still be in
\* flight.
ReleaseRead(i) ==
    /\ Releases
    /\ inst[i].pc = "held"
    /\ \A t \in Renewers \ {"timer"} : renewing[i][t].pc = "idle"
    /\ Goto(i, IF lease.owner = Me(i) THEN "delete" ELSE "gone")
    /\ UNCHANGED <<lease, renewing, fresh, fenced, life>>

ReleaseDelete(i) ==
    /\ inst[i].pc = "delete"
    /\ Write(Absent)
    /\ Goto(i, "gone")
    /\ UNCHANGED <<renewing, fenced, life>>

NoRenewal == [t \in Renewers |-> Idle]

\* The process ends: after its drop, or at any moment.  A supervisor starts it
\* again.
Exit(i) ==
    /\ inst[i].pc # "out"
    /\ inst' = [inst EXCEPT ![i] = [pc |-> "out", since |-> 0]]
    /\ renewing' = [renewing EXCEPT ![i] = NoRenewal]
    /\ fenced' = [fenced EXCEPT ![i] = FALSE]
    /\ UNCHANGED <<lease, fresh, life>>

Older(age) == IF age < MaxAge THEN age + 1 ELSE age

Tick ==
    /\ \A i \in Instances : inst[i].pc = "read" => inst[i].since < MaxPause
    /\ lease' = IF lease = Absent THEN lease ELSE [lease EXCEPT !.age = Older(@)]
    /\ inst' = [i \in Instances |->
                   IF inst[i].pc \in InFlight
                   THEN [inst[i] EXCEPT !.since = Older(@)] ELSE inst[i]]
    /\ renewing' = [i \in Instances |-> [t \in Renewers |->
                   IF renewing[i][t].pc \in {"put", "create"}
                   THEN [renewing[i][t] EXCEPT !.since = Older(@)] ELSE renewing[i][t]]]
    /\ UNCHANGED <<fresh, fenced, life>>

Init ==
    /\ lease = Absent
    /\ inst = [i \in Instances |-> [pc |-> "out", since |-> 0]]
    /\ renewing = [i \in Instances |-> NoRenewal]
    /\ fresh = {}
    /\ fenced = [i \in Instances |-> FALSE]
    /\ life = [i \in Instances |-> 0]

Claim(i) ==
    ClaimCreate(i) \/ ClaimRead(i) \/ ClaimSwap(i) \/ ReclaimDelete(i) \/ ReclaimCreate(i)

Renew(i, t) == RenewRead(i, t) \/ RenewPut(i, t) \/ RenewReread(i, t) \/ RenewCreate(i, t)

Next ==
    \/ \E i \in Instances :
        \/ Claim(i) \/ ReleaseRead(i) \/ ReleaseDelete(i) \/ Exit(i)
        \/ \E t \in Renewers : Renew(i, t)
    \/ Tick

\* Time passes, a standby keeps polling (LeaseWait::Forever), and the server's
\* timer keeps renewing, errors or not (spawn_lease_renewal).
Fairness ==
    /\ WF_vars(Tick)
    /\ \A i \in Instances :
          WF_vars(Claim(i)) /\ \A t \in Renewers \cap {"timer"} : WF_vars(Renew(i, t))

Spec == Init /\ [][Next]_vars /\ Fairness

-----------------------------------------------------------------------------
(* Properties *)

ClaimPc == InFlight \cup {"out", "held", "delete", "gone"}
RenewPc == {"idle", "put", "reread", "create"}

\* The shape of the lease, of the claims and of the renewals.
TypeOK ==
    /\ lease.age \in Ages
    /\ lease.owner \in {<<"none", 0>>} \cup (Instances \X (1..MaxLives))
    /\ inst \in [Instances -> [pc : ClaimPc, since : Ages]]
    /\ renewing \in [Instances -> [Renewers -> [pc : RenewPc, since : Ages]]]
    /\ fresh \subseteq Instances \X (Renewers \cup {"claim"})
    /\ fenced \in [Instances -> BOOLEAN]
    /\ life \in [Instances -> 0..MaxLives]

Live == lease # Absent /\ lease.age <= TTL

\* A lease passes from one owner to another only after it went a whole TTL
\* without a stamp: neither a claim that judged it stale a while ago nor a
\* renewal that read it a while ago overwrites it.
OverwriteOnlyStale ==
    [][Live /\ lease' # Absent => lease'.owner = lease.owner]_vars

\* An instance is never fenced while the lease names it, its two renewers
\* racing each other included.
NoFalseFence ==
    [][\A i \in Instances : ~fenced[i] /\ fenced'[i] => lease'.owner # Me(i)]_vars

\* try_claim is race-free on a backend with compare-and-swap: no claim deletes
\* a live lease.
ClaimNeverDeletesLive ==
    [][\A i \in Instances : inst[i].pc = "clear" /\ inst'[i].pc = "create" => ~Live]_vars

\* A drop never deletes a lease a peer has taken over.
DropDeletesOwn ==
    [][\A i \in Instances :
          inst[i].pc = "delete" /\ inst'[i].pc = "gone" => lease = Absent \/ lease.owner = Me(i)]_vars

\* A fenced writer no longer holds anything: the lease does not name it.
FencedHoldsNothing ==
    \A i \in Instances : fenced[i] => lease.owner # Me(i)

\* A process that wants the lease and may still ask for it.
Standby(i) ==
    \/ inst[i].pc = "out" /\ life[i] < MaxLives
    \/ inst[i].pc \in InFlight

\* A standby is promoted: while one is waiting, somebody gets the lease in the
\* end, however its holders died, closed or raced each other
\* (await_writer_handle under LeaseWait::Forever).
StandbyPromoted ==
    (\E i \in Instances : Standby(i)) ~>
        ((\E i \in Instances : inst[i].pc = "held") \/ (\A i \in Instances : ~Standby(i)))

\* A superseded writer learns of it: an instance that believes it holds a
\* lease another owner has taken is fenced in the end, traffic or not, unless
\* the lease changes again.
SupersededFenced ==
    \A i \in Instances :
        (inst[i].pc = "held" /\ lease # Absent /\ lease.owner # Me(i))
          ~> (fenced[i] \/ inst[i].pc # "held" \/ lease = Absent \/ lease.owner = Me(i))

=============================================================================
