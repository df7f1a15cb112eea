---------------------------- MODULE MCStoreFaults ----------------------------
(* Store under failing backend calls and kills, in one run: every fault,    *)
(* those inside a compaction included, with the constants of the .cfg; and  *)
(* failing appends and barriers only, with the ones below.  A compaction cut*)
(* short leaves files the index does not match, so what the index is        *)
(* promised to be is promised of the second half.                           *)
EXTENDS Store

VARIABLE cut    \* whether a compaction of this behaviour may be cut short

Both == {TRUE, FALSE}

Whole == INSTANCE Store WITH
    SegmentMaxRows <- 2, Publishes <- FALSE,
    Faults <- {"append", "sync"}, CompactCrash <- FALSE

MCInit ==
    \/ cut = TRUE /\ Init
    \/ cut = FALSE /\ Whole!Init

MCNext ==
    \/ cut /\ Next /\ UNCHANGED cut
    \/ ~cut /\ Whole!Next /\ UNCHANGED cut

MCSpec == MCInit /\ [][MCNext]_<<vars, cut>>

\* While compactions run whole, a search of the open store reads each live
\* doc's own vector, whatever append or barrier failed before.
ServedVectorWhole == ~cut => ServedVector

\* While compactions run whole, the index between calls is what a replay of
\* the log would build.
IndexIsReplayWhole == ~cut => IndexIsReplay
=============================================================================
