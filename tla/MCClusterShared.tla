--------------------------- MODULE MCClusterShared ---------------------------
(* ClusterStore in one run: writers over a store that never seals and whose *)
(* requests are answered once, with the constants of the .cfg; and writers  *)
(* that seal, create the store and retry a put that may have landed, with   *)
(* the ones below.  What sealing, creating or retrying writers break        *)
(* (ClusterSeal.cfg and its variants) is promised of the first half only.   *)
EXTENDS ClusterStore, TLC

VARIABLE seals    \* whether writers of this behaviour seal, create and retry

Sealing == INSTANCE ClusterStore WITH
    MaxOpens <- 3, SegmentMaxRows <- 1, Unmade <- TRUE, Retries <- TRUE

MCInit ==
    \/ seals = TRUE /\ Sealing!Init
    \/ seals = FALSE /\ Init

MCNext ==
    \/ seals /\ Sealing!Next /\ UNCHANGED seals
    \/ ~seals /\ Next /\ UNCHANGED seals

MCSpec == MCInit /\ [][MCNext]_<<vars, seals>>

Symmetry == Permutations(Instances)

\* While nobody seals or retries, no acknowledged batch is lost, whoever was
\* superseded while it stalled.
AckedKeptUnsealed == ~seals => AckedKept

\* While nobody seals or retries, every record in the log finds its own vector
\* in the row it names.
OwnRowUnsealed == ~seals => OwnRow

\* While the store exists from the start, the commit counter readers poll never
\* goes back.
CommitCounterUnsealed == [][~seals => manifest'.version >= manifest.version]_vars
=============================================================================
