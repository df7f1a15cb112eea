-------------------------- MODULE ClusterLeaseProofs --------------------------
(***************************************************************************)
(* Theorems about the writer lease, for any number of instances, any TTL   *)
(* and any interleaving of claims, renewals, releases, deaths and replayed *)
(* requests.                                                               *)
(***************************************************************************)
EXTENDS ClusterLease, Integers, TLAPS

Claims == [pc : ClaimPc, since : Nat]
Renewals == [pc : RenewPc, since : Nat]

\* What the argument needs of types.
Typed ==
    /\ lease.age \in Nat
    /\ inst \in [Instances -> Claims]
    /\ renewing \in [Instances -> [Renewers -> Renewals]]
    /\ life \in [Instances -> Int]

\* A claim whose token still is the object's judged this very stamp, and the
\* stamp has only grown older since.
SwapsStale ==
    \A i \in Instances :
        inst[i].pc = "swap" /\ <<i, "claim">> \in fresh => lease.age > TTL

\* A process that does not hold the lease has no renewal in flight, so its
\* owner id is fixed while one is.
OnlyHoldersRenew ==
    \A i \in Instances : inst[i].pc \in InFlight \cup {"out"} =>
        \A t \in Renewers : renewing[i][t].pc = "idle"

\* A renewal whose token still is the object's read its own name in it.
RestampsOwn ==
    \A i \in Instances : \A t \in Renewers :
        renewing[i][t].pc = "put" /\ <<i, t>> \in fresh => lease.owner = Me(i)

LeaseInv == Typed /\ SwapsStale /\ OnlyHoldersRenew /\ RestampsOwn

\* The lease changes hands in this step only if nobody holds it live.
Handover == Live /\ lease' # Absent => lease'.owner = lease.owner

LEMMA LeaseInit == Init => LeaseInv
<1> SUFFICES ASSUME Init PROVE LeaseInv
    OBVIOUS
<1> USE DEF Init, NoRenewal, Idle
<1>1. Typed
    BY DEF Typed, Claims, Renewals, ClaimPc, RenewPc, InFlight, Absent
<1>2. SwapsStale /\ OnlyHoldersRenew /\ RestampsOwn
    BY DEF SwapsStale, OnlyHoldersRenew, RestampsOwn
<1> QED BY <1>1, <1>2 DEF LeaseInv

(* One lemma per action *)

LEMMA ClaimCreateStep ==
    ASSUME LeaseInv, NEW i \in Instances, ClaimCreate(i)
    PROVE  LeaseInv' /\ Handover
<1> USE ClusterLeaseAssumption DEF LeaseInv, ClaimCreate, Write
<1>1. Typed'
  <2>1. PICK pc \in ClaimPc : inst' = [inst EXCEPT ![i] = [pc |-> pc, since |-> inst'[i].since]]
                             /\ inst'[i].since \in Nat
    BY DEF Typed, Claims, ClaimPc, InFlight
  <2>2. inst' \in [Instances -> Claims]
    BY <2>1 DEF Typed, Claims
  <2>3. lease'.age \in Nat /\ life' \in [Instances -> Int] /\ renewing' = renewing
    BY DEF Typed, Claims, Body
  <2> QED BY <2>2, <2>3 DEF Typed
<1>2. SwapsStale'
    BY DEF Typed, SwapsStale, Claims, InFlight
<1>3. OnlyHoldersRenew'
    BY DEF Typed, OnlyHoldersRenew, Claims, Renewals, InFlight
<1>4. RestampsOwn'
    BY DEF Typed, OnlyHoldersRenew, RestampsOwn, Claims, Renewals, Me, InFlight
<1>5. Handover
    BY DEF Typed, SwapsStale, RestampsOwn, Handover, Live, Body, Me
<1> QED BY <1>1, <1>2, <1>3, <1>4, <1>5

LEMMA ClaimReadStep ==
    ASSUME LeaseInv, NEW i \in Instances, ClaimRead(i)
    PROVE  LeaseInv' /\ Handover
<1> USE ClusterLeaseAssumption DEF LeaseInv, ClaimRead, Abandon, Goto, Read, is_live
<1>1. Typed'
    BY DEF Typed, Claims, Renewals, ClaimPc, RenewPc, InFlight, Body, Absent
<1>2. SwapsStale'
    BY DEF Typed, SwapsStale, Claims, InFlight
<1>3. OnlyHoldersRenew'
    BY DEF Typed, OnlyHoldersRenew, Claims, Renewals, InFlight
<1>4. RestampsOwn'
    BY DEF Typed, OnlyHoldersRenew, RestampsOwn, Claims, Renewals, Me, InFlight
<1>5. Handover
    BY DEF Typed, SwapsStale, RestampsOwn, Handover, Live, Body, Me
<1> QED BY <1>1, <1>2, <1>3, <1>4, <1>5

LEMMA ClaimSwapStep ==
    ASSUME LeaseInv, NEW i \in Instances, ClaimSwap(i)
    PROVE  LeaseInv' /\ Handover
<1> USE ClusterLeaseAssumption DEF LeaseInv, ClaimSwap, Abandon, Goto, Write
<1>1. Typed'
  <2>1. PICK pc \in ClaimPc : inst' = [inst EXCEPT ![i] = [pc |-> pc, since |-> inst'[i].since]]
                             /\ inst'[i].since \in Nat
    BY DEF Typed, Claims, ClaimPc, InFlight
  <2>2. inst' \in [Instances -> Claims]
    BY <2>1 DEF Typed, Claims
  <2>3. lease'.age \in Nat /\ life' \in [Instances -> Int] /\ renewing' = renewing
    BY DEF Typed, Claims, Body
  <2> QED BY <2>2, <2>3 DEF Typed
<1>2. SwapsStale'
    BY DEF Typed, SwapsStale, Claims, InFlight
<1>3. OnlyHoldersRenew'
    BY DEF Typed, OnlyHoldersRenew, Claims, Renewals, InFlight
<1>4. RestampsOwn'
    BY DEF Typed, OnlyHoldersRenew, RestampsOwn, Claims, Renewals, Me, InFlight
<1>5. Handover
    BY DEF Typed, SwapsStale, RestampsOwn, Handover, Live, Body, Me
<1> QED BY <1>1, <1>2, <1>3, <1>4, <1>5

LEMMA ReclaimDeleteStep ==
    ASSUME LeaseInv, NEW i \in Instances, ReclaimDelete(i)
    PROVE  LeaseInv' /\ Handover
<1> USE ClusterLeaseAssumption DEF LeaseInv, ReclaimDelete, Goto, Write
<1>1. Typed'
    BY DEF Typed, Claims, Renewals, ClaimPc, RenewPc, InFlight, Body, Absent
<1>2. SwapsStale'
    BY DEF Typed, SwapsStale, Claims, InFlight
<1>3. OnlyHoldersRenew'
    BY DEF Typed, OnlyHoldersRenew, Claims, Renewals, InFlight
<1>4. RestampsOwn'
    BY DEF Typed, OnlyHoldersRenew, RestampsOwn, Claims, Renewals, Me, InFlight
<1>5. Handover
    BY DEF Typed, SwapsStale, RestampsOwn, Handover, Live, Body, Me
<1> QED BY <1>1, <1>2, <1>3, <1>4, <1>5

LEMMA ReclaimCreateStep ==
    ASSUME LeaseInv, NEW i \in Instances, ReclaimCreate(i)
    PROVE  LeaseInv' /\ Handover
<1> USE ClusterLeaseAssumption DEF LeaseInv, ReclaimCreate, Abandon, Goto, Write
<1>1. Typed'
    BY DEF Typed, Claims, Renewals, ClaimPc, RenewPc, InFlight, Body, Absent
<1>2. SwapsStale'
    BY DEF Typed, SwapsStale, Claims, InFlight
<1>3. OnlyHoldersRenew'
    BY DEF Typed, OnlyHoldersRenew, Claims, Renewals, InFlight
<1>4. RestampsOwn'
    BY DEF Typed, OnlyHoldersRenew, RestampsOwn, Claims, Renewals, Me, InFlight
<1>5. Handover
    BY DEF Typed, SwapsStale, RestampsOwn, Handover, Live, Body, Me
<1> QED BY <1>1, <1>2, <1>3, <1>4, <1>5

\* A step of a renewal moves that renewal alone.
LEMMA RenewingMoves ==
    ASSUME Typed, NEW i \in Instances, NEW t \in Renewers, NEW pc \in RenewPc, Renewing(i, t, pc)
    PROVE  /\ renewing' \in [Instances -> [Renewers -> Renewals]]
           /\ renewing'[i][t].pc = pc
           /\ \A j \in Instances, u \in Renewers :
                  j # i \/ u # t => renewing'[j][u] = renewing[j][u]
BY DEF Typed, Renewing, Renewals

LEMMA RenewReadStep ==
    ASSUME LeaseInv, NEW i \in Instances, NEW t \in Renewers, RenewRead(i, t)
    PROVE  LeaseInv' /\ Handover
<1> USE ClusterLeaseAssumption DEF LeaseInv
<1>1. PICK pc \in RenewPc : Renewing(i, t, pc) /\ (pc = "put" => lease.owner = Me(i))
    BY DEF RenewRead, RenewPc, Lost
<1>2. inst' = inst /\ life' = life
    BY DEF RenewRead
<1>3. Typed'
  <2>1. lease'.age \in Nat
    BY DEF RenewRead, Typed, Renewals
  <2> QED BY <1>1, <1>2, <2>1, RenewingMoves DEF Typed
<1>4. SwapsStale'
    BY <1>2, ClusterLeaseAssumption DEF RenewRead, SwapsStale, Read
<1>5. OnlyHoldersRenew'
  <2> SUFFICES ASSUME NEW j \in Instances, inst'[j].pc \in InFlight \cup {"out"},
                      NEW u \in Renewers
               PROVE  renewing'[j][u].pc = "idle"
    BY DEF OnlyHoldersRenew
  <2>1. inst[i].pc \notin InFlight \cup {"out"}
    BY DEF RenewRead, OnlyHoldersRenew, InFlight
  <2>2. j # i
    BY <1>2, <2>1
  <2>3. renewing'[j][u] = renewing[j][u]
    BY <1>1, <2>2, RenewingMoves
  <2> QED BY <1>2, <2>3 DEF OnlyHoldersRenew
<1>6. RestampsOwn'
  <2> SUFFICES ASSUME NEW j \in Instances, NEW u \in Renewers,
                      renewing'[j][u].pc = "put", <<j, u>> \in fresh'
               PROVE  lease'.owner = Me(j)'
    BY DEF RestampsOwn
  <2>1. Me(j)' = Me(j)
    BY <1>2 DEF Me
  <2>2. CASE j = i /\ u = t
    BY <1>1, <2>1, <2>2, RenewingMoves DEF RenewRead, Read
  <2>3. CASE j # i \/ u # t
    BY <1>1, <2>1, <2>3, RenewingMoves DEF RestampsOwn, RenewRead, Read
  <2> QED BY <2>2, <2>3
<1>7. Handover
    BY DEF RenewRead, RestampsOwn, Handover, Live, Body, Me, Read
<1> QED BY <1>3, <1>4, <1>5, <1>6, <1>7

LEMMA RenewPutStep ==
    ASSUME LeaseInv, NEW i \in Instances, NEW t \in Renewers, RenewPut(i, t)
    PROVE  LeaseInv' /\ Handover
<1> USE ClusterLeaseAssumption DEF LeaseInv
<1>1. PICK pc \in RenewPc : Renewing(i, t, pc) /\ pc # "put"
    BY DEF RenewPut, RenewPc
<1>2. inst' = inst /\ life' = life
    BY DEF RenewPut
<1>3. Typed'
  <2>1. lease'.age \in Nat
    BY DEF RenewPut, Typed, Renewals, Write, Body
  <2> QED BY <1>1, <1>2, <2>1, RenewingMoves DEF Typed
<1>4. SwapsStale'
    BY <1>2, ClusterLeaseAssumption DEF RenewPut, SwapsStale, Write
<1>5. OnlyHoldersRenew'
  <2> SUFFICES ASSUME NEW j \in Instances, inst'[j].pc \in InFlight \cup {"out"},
                      NEW u \in Renewers
               PROVE  renewing'[j][u].pc = "idle"
    BY DEF OnlyHoldersRenew
  <2>1. inst[i].pc \notin InFlight \cup {"out"}
    BY DEF RenewPut, OnlyHoldersRenew, InFlight
  <2>2. j # i
    BY <1>2, <2>1
  <2>3. renewing'[j][u] = renewing[j][u]
    BY <1>1, <2>2, RenewingMoves
  <2> QED BY <1>2, <2>3 DEF OnlyHoldersRenew
<1>6. RestampsOwn'
  <2> SUFFICES ASSUME NEW j \in Instances, NEW u \in Renewers,
                      renewing'[j][u].pc = "put", <<j, u>> \in fresh'
               PROVE  lease'.owner = Me(j)'
    BY DEF RestampsOwn
  <2>1. Me(j)' = Me(j)
    BY <1>2 DEF Me
  <2>2. CASE j = i /\ u = t
    BY <1>1, <2>1, <2>2, RenewingMoves DEF RenewPut, Write
  <2>3. CASE j # i \/ u # t
    BY <1>1, <2>1, <2>3, RenewingMoves DEF RestampsOwn, RenewPut, Write
  <2> QED BY <2>2, <2>3
<1>7. Handover
    BY DEF RenewPut, RestampsOwn, Handover, Live, Body, Me, Write
<1> QED BY <1>3, <1>4, <1>5, <1>6, <1>7

LEMMA RenewRereadStep ==
    ASSUME LeaseInv, NEW i \in Instances, NEW t \in Renewers, RenewReread(i, t)
    PROVE  LeaseInv' /\ Handover
<1> USE ClusterLeaseAssumption DEF LeaseInv
<1>1. PICK pc \in RenewPc : Renewing(i, t, pc) /\ pc # "put"
    BY DEF RenewReread, RenewPc, Lost
<1>2. inst' = inst /\ life' = life
    BY DEF RenewReread
<1>3. Typed'
  <2>1. lease'.age \in Nat
    BY DEF RenewReread, Typed, Renewals
  <2> QED BY <1>1, <1>2, <2>1, RenewingMoves DEF Typed
<1>4. SwapsStale'
    BY <1>2, ClusterLeaseAssumption DEF RenewReread, SwapsStale
<1>5. OnlyHoldersRenew'
  <2> SUFFICES ASSUME NEW j \in Instances, inst'[j].pc \in InFlight \cup {"out"},
                      NEW u \in Renewers
               PROVE  renewing'[j][u].pc = "idle"
    BY DEF OnlyHoldersRenew
  <2>1. inst[i].pc \notin InFlight \cup {"out"}
    BY DEF RenewReread, OnlyHoldersRenew, InFlight
  <2>2. j # i
    BY <1>2, <2>1
  <2>3. renewing'[j][u] = renewing[j][u]
    BY <1>1, <2>2, RenewingMoves
  <2> QED BY <1>2, <2>3 DEF OnlyHoldersRenew
<1>6. RestampsOwn'
  <2> SUFFICES ASSUME NEW j \in Instances, NEW u \in Renewers,
                      renewing'[j][u].pc = "put", <<j, u>> \in fresh'
               PROVE  lease'.owner = Me(j)'
    BY DEF RestampsOwn
  <2>1. Me(j)' = Me(j)
    BY <1>2 DEF Me
  <2>2. CASE j = i /\ u = t
    BY <1>1, <2>1, <2>2, RenewingMoves DEF RenewReread
  <2>3. CASE j # i \/ u # t
    BY <1>1, <2>1, <2>3, RenewingMoves DEF RestampsOwn, RenewReread
  <2> QED BY <2>2, <2>3
<1>7. Handover
    BY DEF RenewReread, RestampsOwn, Handover, Live, Body, Me
<1> QED BY <1>3, <1>4, <1>5, <1>6, <1>7

LEMMA RenewCreateStep ==
    ASSUME LeaseInv, NEW i \in Instances, NEW t \in Renewers, RenewCreate(i, t)
    PROVE  LeaseInv' /\ Handover
<1> USE ClusterLeaseAssumption DEF LeaseInv
<1>1. PICK pc \in RenewPc : Renewing(i, t, pc) /\ pc # "put"
    BY DEF RenewCreate, RenewPc, Lost
<1>2. inst' = inst /\ life' = life
    BY DEF RenewCreate
<1>3. Typed'
  <2>1. lease'.age \in Nat
    BY DEF RenewCreate, Typed, Renewals, Write, Body
  <2> QED BY <1>1, <1>2, <2>1, RenewingMoves DEF Typed
<1>4. SwapsStale'
    BY <1>2, ClusterLeaseAssumption DEF RenewCreate, SwapsStale, Write
<1>5. OnlyHoldersRenew'
  <2> SUFFICES ASSUME NEW j \in Instances, inst'[j].pc \in InFlight \cup {"out"},
                      NEW u \in Renewers
               PROVE  renewing'[j][u].pc = "idle"
    BY DEF OnlyHoldersRenew
  <2>1. inst[i].pc \notin InFlight \cup {"out"}
    BY DEF RenewCreate, OnlyHoldersRenew, InFlight
  <2>2. j # i
    BY <1>2, <2>1
  <2>3. renewing'[j][u] = renewing[j][u]
    BY <1>1, <2>2, RenewingMoves
  <2> QED BY <1>2, <2>3 DEF OnlyHoldersRenew
<1>6. RestampsOwn'
  <2> SUFFICES ASSUME NEW j \in Instances, NEW u \in Renewers,
                      renewing'[j][u].pc = "put", <<j, u>> \in fresh'
               PROVE  lease'.owner = Me(j)'
    BY DEF RestampsOwn
  <2>1. Me(j)' = Me(j)
    BY <1>2 DEF Me
  <2>2. CASE j = i /\ u = t
    BY <1>1, <2>1, <2>2, RenewingMoves DEF RenewCreate, Write
  <2>3. CASE j # i \/ u # t
    BY <1>1, <2>1, <2>3, RenewingMoves DEF RestampsOwn, RenewCreate, Write
  <2> QED BY <2>2, <2>3
<1>7. Handover
    BY DEF RenewCreate, RestampsOwn, Handover, Live, Body, Me, Write
<1> QED BY <1>3, <1>4, <1>5, <1>6, <1>7

LEMMA ReleaseReadStep ==
    ASSUME LeaseInv, NEW i \in Instances, ReleaseRead(i)
    PROVE  LeaseInv' /\ Handover
<1> USE ClusterLeaseAssumption DEF LeaseInv, ReleaseRead, Goto
<1>1. Typed'
    BY DEF Typed, Claims, Renewals, ClaimPc, RenewPc, InFlight, Body, Absent
<1>2. SwapsStale'
    BY DEF Typed, SwapsStale, Claims, InFlight
<1>3. OnlyHoldersRenew'
    BY DEF Typed, OnlyHoldersRenew, Claims, Renewals, InFlight
<1>4. RestampsOwn'
    BY DEF Typed, OnlyHoldersRenew, RestampsOwn, Claims, Renewals, Me, InFlight
<1>5. Handover
    BY DEF Typed, SwapsStale, RestampsOwn, Handover, Live, Body, Me
<1> QED BY <1>1, <1>2, <1>3, <1>4, <1>5

LEMMA ReleaseDeleteStep ==
    ASSUME LeaseInv, NEW i \in Instances, ReleaseDelete(i)
    PROVE  LeaseInv' /\ Handover
<1> USE ClusterLeaseAssumption DEF LeaseInv, ReleaseDelete, Goto, Write
<1>1. Typed'
    BY DEF Typed, Claims, Renewals, ClaimPc, RenewPc, InFlight, Body, Absent
<1>2. SwapsStale'
    BY DEF Typed, SwapsStale, Claims, InFlight
<1>3. OnlyHoldersRenew'
    BY DEF Typed, OnlyHoldersRenew, Claims, Renewals, InFlight
<1>4. RestampsOwn'
    BY DEF Typed, OnlyHoldersRenew, RestampsOwn, Claims, Renewals, Me, InFlight
<1>5. Handover
    BY DEF Typed, SwapsStale, RestampsOwn, Handover, Live, Body, Me
<1> QED BY <1>1, <1>2, <1>3, <1>4, <1>5

LEMMA ExitStep ==
    ASSUME LeaseInv, NEW i \in Instances, Exit(i)
    PROVE  LeaseInv' /\ Handover
<1> USE ClusterLeaseAssumption DEF LeaseInv, Exit, NoRenewal, Idle
<1>1. Typed'
    BY DEF Typed, Claims, Renewals, ClaimPc, RenewPc, InFlight, Body, Absent
<1>2. SwapsStale'
    BY DEF Typed, SwapsStale, Claims, InFlight
<1>3. OnlyHoldersRenew'
    BY DEF Typed, OnlyHoldersRenew, Claims, Renewals, InFlight
<1>4. RestampsOwn'
    BY DEF Typed, OnlyHoldersRenew, RestampsOwn, Claims, Renewals, Me, InFlight
<1>5. Handover
    BY DEF Typed, SwapsStale, RestampsOwn, Handover, Live, Body, Me
<1> QED BY <1>1, <1>2, <1>3, <1>4, <1>5

LEMMA TickStep ==
    ASSUME LeaseInv, Tick
    PROVE  LeaseInv' /\ Handover
<1> USE ClusterLeaseAssumption DEF LeaseInv, Tick, Older, MaxAge
<1>1. Typed'
    BY DEF Typed, Claims, Renewals, ClaimPc, RenewPc, InFlight, Body, Absent
<1>2. SwapsStale'
    BY DEF Typed, SwapsStale, Claims, InFlight
<1>3. OnlyHoldersRenew'
    BY DEF Typed, OnlyHoldersRenew, Claims, Renewals, InFlight
<1>4. RestampsOwn'
    BY DEF Typed, OnlyHoldersRenew, RestampsOwn, Claims, Renewals, Me, InFlight
<1>5. Handover
    BY DEF Typed, SwapsStale, RestampsOwn, Handover, Live, Body, Me
<1> QED BY <1>1, <1>2, <1>3, <1>4, <1>5

LEMMA LeaseStep == LeaseInv /\ [Next]_vars => LeaseInv' /\ Handover
<1> SUFFICES ASSUME LeaseInv, [Next]_vars
             PROVE  LeaseInv' /\ Handover
    OBVIOUS
<1>1. CASE \E i \in Instances : Claim(i)
    BY <1>1, ClaimCreateStep, ClaimReadStep, ClaimSwapStep, ReclaimDeleteStep, ReclaimCreateStep
       DEF Claim
<1>2. CASE \E i \in Instances : ReleaseRead(i) \/ ReleaseDelete(i) \/ Exit(i)
    BY <1>2, ReleaseReadStep, ReleaseDeleteStep, ExitStep
<1>3. CASE \E i \in Instances, t \in Renewers : Renew(i, t)
    BY <1>3, RenewReadStep, RenewPutStep, RenewRereadStep, RenewCreateStep DEF Renew
<1>4. CASE Tick
    BY <1>4, TickStep
<1>5. CASE UNCHANGED vars
    BY <1>5 DEF vars, LeaseInv, Typed, SwapsStale, OnlyHoldersRenew, RestampsOwn, Me, Handover
<1> QED BY <1>1, <1>2, <1>3, <1>4, <1>5 DEF Next

\* OverwriteOnlyStale: however many instances claim, renew, release, die and
\* retry, and whatever the TTL, no live lease is overwritten with another
\* owner: the compare-and-swap token is enough.
THEOREM LiveLeaseIsNotStolen == Spec => OverwriteOnlyStale
<1>1. Init => LeaseInv
    BY LeaseInit
<1>2. LeaseInv /\ [Next]_vars => LeaseInv' /\ [Live /\ lease' # Absent => lease'.owner = lease.owner]_vars
    BY LeaseStep DEF Handover
<1> QED BY <1>1, <1>2, PTL DEF Spec, OverwriteOnlyStale

=============================================================================
