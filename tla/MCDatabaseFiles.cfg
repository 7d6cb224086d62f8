CONSTANTS
    Processes = {p1, p2}
    Nobody = Nobody
    MaxFrontier = 2
    MaxFaults = 3
SPECIFICATION Spec
CHECK_DEADLOCK FALSE
INVARIANTS
    EveryDirectoryIsAPhase
    SelectionIsComplete
    CleanManifestCertified
PROPERTIES
    ImplementsDatabaseLifecycle
    CreateFinishes
