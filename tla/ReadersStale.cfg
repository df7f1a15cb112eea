SPECIFICATION Spec
CONSTANTS
    Ids = {1, 2}
    MaxWrites = 3
    MaxCompactions = 0
    MaxCrashes = 1
    SegMax = 2
    HistoryVersions = 0
    PruneBatch = 1
    Environments <- MCRefresh
PROPERTY Converges
CHECK_DEADLOCK FALSE
