CONSTANTS
    Pages = {1, 2}
    GroupFrames = 3
    MaxPosition = 3
    MaxSequence = 4
    MaxFaults = 2
SPECIFICATION Spec
CHECK_DEADLOCK FALSE
INVARIANTS
    StoreMatchesFile
PROPERTIES
    ImplementsPageImages
    RecoveryInstallsAll
