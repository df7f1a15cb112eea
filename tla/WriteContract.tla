---------------------------- MODULE WriteContract ----------------------------
(***************************************************************************)
(* What the served write path promises, whatever queue, leader and barrier *)
(* it uses: a write is submitted once, answered at most once, reported     *)
(* successful only when it is durable, made durable only if it was         *)
(* submitted (a client that left may still find its write made), and what  *)
(* is durable stays so.                                                    *)
(***************************************************************************)
CONSTANT Writers

VARIABLES
    told,   \* per write: "none", "waiting", "gone", "ok" or "err"
    kept    \* the writes a crash cannot take back

contract == <<told, kept>>

CInit ==
    /\ told = [w \in Writers |-> "none"]
    /\ kept = {}

\* A write is submitted, or refused at once.
Take(w) ==
    /\ told[w] = "none"
    /\ \E a \in {"waiting", "err"} : told' = [told EXCEPT ![w] = a]
    /\ UNCHANGED kept

\* The client stops waiting.
Leave(w) ==
    /\ told[w] = "waiting"
    /\ told' = [told EXCEPT ![w] = "gone"]
    /\ UNCHANGED kept

\* Writes somebody submitted become durable.
Persist ==
    \E S \in SUBSET Writers :
        /\ \A w \in S : told[w] # "none"
        /\ kept' = kept \cup S
        /\ UNCHANGED told

\* A waiting write is reported successful: it is durable.
Confirm(w) ==
    /\ told[w] = "waiting" /\ w \in kept
    /\ told' = [told EXCEPT ![w] = "ok"]
    /\ UNCHANGED kept

\* Waiting writes are told that they failed, or that nobody knows.
Fail ==
    \E S \in SUBSET Writers :
        /\ \A w \in S : told[w] = "waiting"
        /\ told' = [w \in Writers |-> IF w \in S THEN "err" ELSE told[w]]
        /\ UNCHANGED kept

CNext ==
    \/ Persist \/ Fail
    \/ \E w \in Writers : Take(w) \/ Leave(w) \/ Confirm(w)

CSpec == CInit /\ [][CNext]_contract
=============================================================================
