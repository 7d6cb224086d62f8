CONSTANTS
    Logs = {a, b}
    Pages = {1}
    RawPages = {1}
    RawLogs = {b}
    MaxRawPosition = 1
    MaxCoordinators = 2
    MaxEpoch = 2
    MaxSequence = 1
    MaxPosition = 4
    MaxFaults = 1
    None = None
SPECIFICATION Spec
CHECK_DEADLOCK FALSE
INVARIANTS
    TypeOK
    LifecycleMatchesLog
    EvidenceReconciles
PROPERTIES
    DischargedInStore
    RecoveryInstallsLatest
    CommittedImagesStay
    ImplementsCommitOutcomes
    RecoveryEnds
