SPECIFICATION Spec
CONSTANTS
    Pages = {p1}
    Anchors = {a1}
    MaxPosition = 2
    MaxEpoch = 2
    MaxSequence = 1
    MaxLineage = 1
    MaxGeneration = 1
    TailOutcomes = {TRUE}
    SelectedEntries = {}
    CandidateEntries = {}
    CandidateAnchors = {}
    StepwiseReplacement = FALSE
    None = None
INVARIANTS
    RequiredSuffixRetained
CHECK_DEADLOCK FALSE
