CONSTANTS
  Instances = {a, b, c}
  MaxOpens = 4
  MaxBatches = 4
  MaxSeg = 2
  SegmentMaxRows = 0
  Unmade = FALSE
  Retries = FALSE
SPECIFICATION MCSpec
SYMMETRY Symmetry
INVARIANTS AckedKeptUnsealed OwnRowUnsealed
PROPERTIES LogOnlyGrows
CHECK_DEADLOCK FALSE
