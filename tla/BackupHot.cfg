SPECIFICATION BackupSpec
CONSTANTS
    Ids = {1, 2}
    MaxWrites = 3
    MaxCompactions = 1
    MaxCrashes = 0
    SegMax = 2
    HistoryVersions = 0
    PruneBatch = 1
    Environments <- MCBackups
    Targets <- MCNowhere
    ClearFails = FALSE
    MaxKills = 1
    MaxLater = 2
INVARIANT RestoredStaysConsistent
CHECK_DEADLOCK FALSE
