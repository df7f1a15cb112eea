-------------------------------- MODULE Files --------------------------------
(***************************************************************************)
(* An append-only object of a persistence backend (`data`, `seg-…`, `log`) *)
(* as the one process that writes it sees it, and as a crash leaves it.    *)
(*                                                                         *)
(* `cur` is the content the writer's appender shows; `poss` is the set of  *)
(* contents the object may hold when the writer is next opened.  Three     *)
(* kinds of loss are told apart by the constant Durability:                *)
(*   "kill"    the process dies, the operating system lives: what was      *)
(*             written to a local file is all there (FileAppender);        *)
(*   "power"   the machine dies: a local file holds what some prefix of    *)
(*             the writes and truncations since its last fsync made of it, *)
(*             each file on its own (FileAppender, nothing orders files);  *)
(*   "object"  a whole-object store: the appender is a RAM buffer and the  *)
(*             object holds the last upload that went through              *)
(*             (ObjectAppender).                                           *)
(* A torn row or frame is truncated away by the next open, so contents are *)
(* whole rows and whole records.                                           *)
(***************************************************************************)
EXTENDS Integers, Sequences

CONSTANT Durability

ASSUME DurabilityAssumption == Durability \in {"kill", "power", "object"}

\* An object whose content is certain: just opened, just synced, or replaced
\* by an atomic rewrite.
File(s) == [cur |-> s, poss |-> {s}]

\* Appender::append and Appender::truncate_to: the writer sees the new content
\* at once; what a crash finds depends on the backend.
Wrote(f, s) ==
    [cur  |-> s,
     poss |-> CASE Durability = "kill"   -> {s}
                [] Durability = "power"  -> f.poss \cup {s}
                [] Durability = "object" -> f.poss]

\* Appender::sync that returned Ok.
Synced(f) == File(f.cur)

\* Appender::sync that returned Err: an fsync or an upload that failed may
\* have gone through all the same.
SyncFailed(f) == [f EXCEPT !.poss = @ \cup {f.cur}]

\* The objects a crash can leave behind.
AfterCrash(f) == {File(s) : s \in f.poss}

=============================================================================
