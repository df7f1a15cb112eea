CONSTANTS
  None = None
  Keys <- MCKeys
  Attrs = {"a", "b"}
  Records <- MCFew
  Modes = {"ann"}
  Queries <- MCWhole
  SegmentMaxRows = 2
  SegmentMinRows = 2
  Overscan = 2
  Rescore = 2
  Overfetch = 2
  MaxGroups = 5
  MaxRows = 4
  MaxWrites = 4
  MaxCompactions = 1
  MaxOpens = 2
SPECIFICATION Spec
INVARIANT StaleDiscarded
CHECK_DEADLOCK FALSE
