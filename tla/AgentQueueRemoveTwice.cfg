SPECIFICATION FairSpec
CONSTANTS
    j1 = j1
    j2 = j2
    c1 = c1
    c2 = c2
    Jobs = {j1, j2}
    MaxPriority = 1
    Callers = {c1}
    Uses = {"remove", "removeMissing"}
    Routes <- OneRoute
    EarlyCalls = TRUE
    Reports = FALSE
    Stored = {"queued"}
    Limits = {}
    InitialLimit = 1
    MaxTasks = 1
    MaxPasses = 1
    MaxCalls = 2
    MaxCrashes = 0
PROPERTY RemovalReschedules
CHECK_DEADLOCK FALSE
