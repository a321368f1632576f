SPECIFICATION Spec
CONSTANTS
    NUrls = 3
    ParallelReload = 2
    DlRetries = 3
INVARIANTS
    Inv
    RetriesBounded
PROPERTIES
    CycleComplete
