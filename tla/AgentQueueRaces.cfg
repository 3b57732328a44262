SPECIFICATION Spec
CONSTANTS
    j1 = j1
    j2 = j2
    c1 = c1
    c2 = c2
    Jobs = {j1}
    MaxPriority = 1
    Callers = {c1, c2}
    Uses <- Everything
    Routes <- AllRoutes
    EarlyCalls = TRUE
    Reports = TRUE
    Stored = {"absent", "queued", "running"}
    Limits = {0, 9}
    InitialLimit = 1
    MaxTasks = 2
    MaxPasses = 2
    MaxCalls = 2
    MaxCrashes = 0
SYMMETRY Symmetry
INVARIANT TypeOK
INVARIANT SlotNeverLeaked
INVARIANT NoDuplicateWorkers
PROPERTY RemovedStaysRemoved
CHECK_DEADLOCK FALSE
