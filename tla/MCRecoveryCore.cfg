SPECIFICATION FairSpec
CONSTANTS
    Pages = {p1}
    Anchors = {a1, a2}
    MaxPosition = 3
    MaxEpoch = 2
    MaxSequence = 1
    MaxLineage = 2
    MaxGeneration = 1
    TailOutcomes = {FALSE, TRUE}
    SelectedEntries = {"Corrupt"}
    CandidateEntries = {}
    CandidateAnchors = {}
    StepwiseReplacement = FALSE
    None = None
INVARIANTS
    TypeOK
    PagesBackedByDurableWal
    UnresolvedRemembered
    CrashReopens
PROPERTIES
    EpochsNeverReused
    UnresolvedRecordsRetained
    RecoveryConverges
CHECK_DEADLOCK FALSE
