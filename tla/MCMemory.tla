------------------------------ MODULE MCMemory ------------------------------
(* Small instances of Memory for TLC.                                       *)
EXTENDS Memory

\* The versions of a file: one chunk, two of three chunks, and an empty text.
MCChunksOf == <<1, 3, 3, 0>>

\* No time to live, one that has passed, one that passes at once, and a tick.
MCTTLs == {None, -1, 0, 1}

\* Behaviours of the memory tools, of two recalls, of ingest, and of ingest
\* beside a memory.
MCBudgets ==
  {[notes |-> 2, ticks |-> 2, recalls |-> 1, forgets |-> 1, edits |-> 0, runs |-> 0, kills |-> 0],
   [notes |-> 1, ticks |-> 2, recalls |-> 2, forgets |-> 0, edits |-> 0, runs |-> 0, kills |-> 0],
   [notes |-> 0, ticks |-> 0, recalls |-> 0, forgets |-> 1, edits |-> 3, runs |-> 4, kills |-> 2],
   [notes |-> 1, ticks |-> 0, recalls |-> 0, forgets |-> 1, edits |-> 2, runs |-> 2, kills |-> 1]}
=============================================================================
