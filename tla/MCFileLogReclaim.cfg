CONSTANTS
    PageFrames = 2
    MaxPosition = 2
    MaxEpoch = 2
    MaxGeneration = 1
    UnsyncedRenameOpens = FALSE
SPECIFICATION Spec
CHECK_DEADLOCK FALSE
INVARIANTS
    AbsentChecksLineage
