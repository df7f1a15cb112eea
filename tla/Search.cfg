CONSTANTS
  None = None
  Keys <- MCKeys
  Attrs = {"a", "b"}
  Records <- MCRecords
  Modes = {"ann", "segments", "quant"}
  Queries <- MCQueries
  SegmentMaxRows = 2
  SegmentMinRows = 2
  Overscan = 2
  Rescore = 2
  Overfetch = 2
  MaxGroups = 5
  MaxRows = 3
  MaxWrites = 3
  MaxCompactions = 1
  MaxOpens = 2
SPECIFICATION Spec
INVARIANTS HitsSound CompleteIsExact PagesAreCuts SimilarDropsOnlySource
CHECK_DEADLOCK FALSE
