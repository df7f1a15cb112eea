SPECIFICATION BackupSpec
CONSTANTS
    Ids = {1, 2}
    MaxWrites = 3
    MaxCompactions = 1
    MaxCrashes = 0
    SegMax = 2
    HistoryVersions = 0
    PruneBatch = 1
    Environments <- MCEnvironments
    Targets <- MCTargets
    ClearFails = TRUE
    MaxKills = 1
    MaxLater = 2
INVARIANTS BackupRegular RestoredIsArchive
CHECK_DEADLOCK FALSE
