CONSTANTS
  Instances = {a, b}
  MaxOpens = 3
  MaxBatches = 4
  MaxSeg = 2
  SegmentMaxRows = 1
  Unmade = FALSE
  Retries = FALSE
SPECIFICATION Spec
SYMMETRY Symmetry
INVARIANTS OwnRow
CHECK_DEADLOCK FALSE
