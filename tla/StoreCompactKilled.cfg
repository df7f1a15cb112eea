CONSTANTS
  Durability = "kill"
  Docs = {1, 2}
  MaxVecs = 1
  MaxBatch = 1
  MaxStamps = 3
  MaxCalls = 4
  MaxSeg = 2
  MaxCrashes = 1
  MaxStamping = 1
  Capacity = 3
  SegmentMaxRows = 0
  Fsync = "PerBatch"
  Deferring <- Never
  Publishes = FALSE
  Faults = {}
  Calls = {"delete", "compact"}
  CompactCrash = TRUE
SPECIFICATION Spec
INVARIANTS OwnVector
CHECK_DEADLOCK FALSE
