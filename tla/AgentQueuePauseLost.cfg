SPECIFICATION Spec
CONSTANTS
    j1 = j1
    j2 = j2
    c1 = c1
    c2 = c2
    Jobs = {j1}
    MaxPriority = 1
    Callers = {c1}
    Uses <- PauseResume
    Routes <- OneRoute
    EarlyCalls = TRUE
    Reports = TRUE
    Stored = {"queued"}
    Limits = {}
    InitialLimit = 1
    MaxTasks = 2
    MaxPasses = 1
    MaxCalls = 1
    MaxCrashes = 0
INVARIANT CancellationPersists
CHECK_DEADLOCK FALSE
