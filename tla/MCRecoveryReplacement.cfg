SPECIFICATION Spec
CONSTANTS
    Pages = {p1}
    Anchors = {a1}
    MaxPosition = 2
    MaxEpoch = 1
    MaxSequence = 1
    MaxLineage = 1
    MaxGeneration = 2
    TailOutcomes = {FALSE}
    SelectedEntries = {}
    CandidateEntries = {"Valid"}
    CandidateAnchors = {a1}
    StepwiseReplacement = TRUE
    None = None
INVARIANTS
    ReclamationAnchoredInSlot
    CandidateRetainsPages
PROPERTIES
    ImplementsDurablePages
CHECK_DEADLOCK FALSE
