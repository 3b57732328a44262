SPECIFICATION FairSpec
CONSTANTS
    j1 = j1
    j2 = j2
    c1 = c1
    c2 = c2
    Jobs = {j1, j2}
    MaxPriority = 1
    Callers = {c1}
    Uses <- SingleWrite
    Routes <- OneRoute
    EarlyCalls = FALSE
    Reports = FALSE
    Stored = {"absent"}
    Limits = {2}
    InitialLimit = 1
    MaxTasks = 2
    MaxPasses = 1
    MaxCalls = 3
    MaxCrashes = 1
INVARIANT RunningHasWorker
PROPERTY AdmissionWithinLimit
PROPERTY ImplementsLifecycle
CHECK_DEADLOCK FALSE
