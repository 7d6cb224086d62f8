CONSTANTS
    Pages = {1}
    RawPages = {}
    MaxRaw = 0
    MaxPosition = 2
    MaxEpoch = 3
    MaxSequence = 1
    MaxFaults = 0
    MaxGeneration = 0
SPECIFICATION Spec
CHECK_DEADLOCK FALSE
INVARIANTS
    CleanReopenComplete
