SPECIFICATION FairSpec
CONSTANTS
    N = 2
    KindOf <- ReorderFirst
    AckCap = 2
    MaxLate = 1
    MaxFailures = 0
    MaxDrops = 0
    MaxCrashes = 0
    MaxUpdates = 0
    Removals = FALSE
PROPERTY ReorderCrossesTheGateway
