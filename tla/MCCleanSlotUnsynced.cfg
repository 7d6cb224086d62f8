CONSTANTS
    Processes = {p1}
    Nobody = Nobody
    MaxFrontier = 1
    MaxFaults = 2
SPECIFICATION Spec
CHECK_DEADLOCK FALSE
INVARIANTS
    CertifiedCheckpointSelectable
