SPECIFICATION FairSpec
CONSTANTS
    N = 2
    KindOf <- BackgroundQueue
    AckCap = 2
    MaxLate = 1
    MaxFailures = 1
    MaxDrops = 1
    MaxCrashes = 1
    MaxUpdates = 1
    Removals = TRUE
PROPERTY EveryCommandAnswered
PROPERTY ProjectionCatchesUp
