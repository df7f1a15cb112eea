--------------------------- MODULE MCStoreDurable ---------------------------
(* Store on the two backends that may lose unsynced bytes, in one run: a    *)
(* local disk that loses power, with the constants of the .cfg, and objects *)
(* that a put makes durable, with the ones below.                           *)
EXTENDS Store

VARIABLE backend    \* which of the two this behaviour has

Never == {FALSE}

Object == INSTANCE Store WITH
    Durability <- "object", MaxBatch <- 1, MaxStamps <- 3, MaxSeg <- 2,
    SegmentMaxRows <- 0, Deferring <- BOOLEAN, Publishes <- TRUE,
    Faults <- {"append", "publish"}, Calls <- {"delete", "sweep", "commit", "flush"}

MCInit ==
    \/ backend = "disk" /\ Init
    \/ backend = "object" /\ Object!Init

MCNext ==
    \/ backend = "disk" /\ Next /\ UNCHANGED backend
    \/ backend = "object" /\ Object!Next /\ UNCHANGED backend

MCSpec == MCInit /\ [][MCNext]_<<vars, backend>>
=============================================================================
