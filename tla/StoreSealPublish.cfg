CONSTANTS
  Durability = "kill"
  Docs = {1, 2}
  MaxVecs = 1
  MaxBatch = 1
  MaxStamps = 3
  MaxCalls = 4
  MaxSeg = 2
  MaxCrashes = 1
  MaxStamping = 1
  Capacity = 3
  SegmentMaxRows = 1
  Fsync = "PerBatch"
  Deferring <- Never
  Publishes = FALSE
  Faults = {"publish"}
  Calls = {}
  CompactCrash = FALSE
SPECIFICATION Spec
INVARIANTS AckedSurvives
CHECK_DEADLOCK FALSE
