SPECIFICATION FairSpec
CONSTANTS
    N = 0
    KindOf <- NoCommands
    AckCap = 2
    MaxLate = 1
    MaxFailures = 1
    MaxDrops = 0
    MaxCrashes = 0
    MaxUpdates = 1
    Removals = FALSE
PROPERTY PersistenceResumes
