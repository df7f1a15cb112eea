CONSTANTS
  Durability = "kill"
  Docs = {1, 2}
  MaxVecs = 1
  MaxBatch = 1
  MaxStamps = 3
  MaxCalls = 4
  MaxSeg = 2
  MaxCrashes = 1
  MaxStamping = 1
  Capacity = 3
  SegmentMaxRows = 1
  Fsync = "PerBatch"
  Deferring <- Both
  Publishes = TRUE
  Faults = {"append", "sync", "publish", "rewrite"}
  Calls = {"delete", "sweep", "reinforce", "commit", "flush", "compact"}
  CompactCrash = TRUE
SPECIFICATION MCSpec
INVARIANTS ServedVectorWhole IndexIsReplayWhole
PROPERTIES VersionMonotone
CHECK_DEADLOCK FALSE
