CONSTANTS
  Durability = "object"
  Docs = {1, 2}
  MaxVecs = 1
  MaxBatch = 1
  MaxStamps = 3
  MaxCalls = 4
  MaxSeg = 2
  MaxCrashes = 1
  MaxStamping = 1
  Capacity = 3
  SegmentMaxRows = 1
  Fsync = "PerBatch"
  Deferring <- Both
  Publishes = FALSE
  Faults = {}
  Calls = {"commit"}
  CompactCrash = FALSE
SPECIFICATION Spec
INVARIANTS AckedSurvives
CHECK_DEADLOCK FALSE
