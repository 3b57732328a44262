SPECIFICATION Spec
CONSTANTS
    N = 4
    KindOf <- Mixed
    AckCap = 2
    MaxLate = 1
    MaxFailures = 1
    MaxDrops = 1
    MaxCrashes = 1
    MaxUpdates = 1
    Removals = FALSE
INVARIANT TypeOK
INVARIANT SerialExecution
INVARIANT EffectsAreAnswered
INVARIANT AnswersFit
PROPERTY NoAnswerLost
PROPERTY LateHeartbeatChangesNothing
PROPERTY ImplementsCommandLife
