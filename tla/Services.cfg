SPECIFICATION ServicesSpec
CONSTANTS
    Subjects = {"mailbox", "gateway", "wire", "enrollment", "session", "creation", "collections", "staging"}
    Capacity = 4
    MaxWire = 3
    MaxSockets = 2
    MaxTasks = 2
    MaxPosts = 2
    MaxHibernations = 1
    MaxFailedCalls = 1
    Bodies <- MCBodies
    Outcomes <- MCOutcomes
    Phases = {"downloading", "uploading"}
    Announced <- MCAnnounced
    MaxCommands = 2
    MaxLosses = 1
    Keys = {k1, k2}
    Codes = {c1, c2}
    Attempts = {p1, p2}
    MaxActive = 1
    Challenges = {a}
    Requests = {r1, r2}
    MaxConns = 3
    MaxBeats = 1
    MaxVersion = 1
    MaxDrops = 1
    MaxPosted = 2
    RequestIDs = {"q"}
    ReadKeys <- MCReadKeys
    FeedItems = {"i1"}
    Places = {"nas"}
    MaxRows = 3
    MaxTitles = 2
    MaxChanges = 1
    Tabs = {t1, t2}
    PageSize = 1
    MaxEdits = 2
    MaxClock = 1
    MaxSyncLosses = 1
    StagingJobs = {1}
    MaxStages = 2
    StageQuota = 1
    MaxGiveUps = 2
INVARIANT ServicesTypeOK
INVARIANT HandshakeHolds
INVARIANT IdentityIsKept
INVARIANT CollectionsAgree
INVARIANT StagesHold
PROPERTY RepliesAreKept
PROPERTY HopsAgree
PROPERTY PostedIsAnswered
PROPERTY EnrolledOnce
PROPERTY LateRequestsChangeNothing
PROPERTY QueuedWasOffered
PROPERTY ServicesSettle
CHECK_DEADLOCK FALSE
