CONSTANTS
  Durability = "power"
  Docs = {1, 2}
  MaxVecs = 1
  MaxBatch = 2
  MaxStamps = 4
  MaxCalls = 4
  MaxSeg = 1
  MaxCrashes = 1
  MaxStamping = 1
  Capacity = 3
  SegmentMaxRows = 1
  Fsync = "PerBatch"
  Deferring <- Never
  Publishes = FALSE
  Faults = {}
  Calls = {"delete", "sweep", "reinforce", "flush", "compact"}
  CompactCrash = FALSE
SPECIFICATION MCSpec
INVARIANTS AckedSurvives OwnVector Reopens
CHECK_DEADLOCK FALSE
