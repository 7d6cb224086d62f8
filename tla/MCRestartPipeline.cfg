CONSTANTS
    Pages = {1, 2}
    RawPages = {2}
    MaxRaw = 1
    MaxPosition = 4
    MaxEpoch = 2
    MaxSequence = 1
    MaxFaults = 1
    MaxGeneration = 1
SPECIFICATION Spec
CHECK_DEADLOCK FALSE
INVARIANTS
    StoreShowsCommitted
    RepairsShowEveryCommit
    TableContinuesHistory
    LifecycleFollowsHistory
    RestartRefusedOnlyForMovedPages
    NeededRecordsRetained
    CleanCloseProven
    PrunedCleanReopenComplete
PROPERTIES
    RestartDecides
