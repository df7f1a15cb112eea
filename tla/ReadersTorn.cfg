SPECIFICATION Spec
CONSTANTS
    Ids = {1, 2}
    MaxWrites = 3
    MaxCompactions = 1
    MaxCrashes = 1
    SegMax = 2
    HistoryVersions = 2
    PruneBatch = 1
    Environments <- MCRefresh
INVARIANT ServedOwn
CHECK_DEADLOCK FALSE
