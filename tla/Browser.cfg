SPECIFICATION BrowserSpec
CONSTANTS
    Subjects = {"feed", "queueing", "home", "signIn", "dashboard", "resolution", "watch", "library", "void", "drive"}
    FeedSites = {"hqporner", "pornhub"}
    FirstSite = "hqporner"
    Queries = {"q"}
    NoQuery = "none"
    MaxFeedLoads = 4
    Views = {"feed", "watch", "home", "library"}
    QueueItems = {"i1"}
    QueueTargets = {"local", "nas"}
    MaxPresses = 3
    Batches = 2
    MaxExtractions = 2
    MaxResumes = 1
    MaxRuns = 2
    MaxLogins = 1
    MaxActions = 2
    MaxPolls = 1
    Scopes = {"dashboard", "history"}
    FirstScope = "dashboard"
    UserActions = {"a1"}
    MaxTruth = 2
    MaxHides = 1
    MaxOpenings = 1
    MaxOutages = 1
    Scenes = {"x", "y"}
    MaxCalls = 2
    WatchSites = {"allpornstream", "hqporner"}
    FirstWatchSite = "hqporner"
    GuardedSite = "allpornstream"
    WatchQueries = {"none", "q"}
    NoText = "none"
    LastPage = 2
    MaxLoads = 3
    MaxExpiries = 1
    MaxResolves = 1
    Sources = {"s1", "s2"}
    OrderKinds = {"library_remove", "queue_url"}
    LibraryChunk = 1
    MaxOrders = 2
    MaxRefreshes = 1
    MaxToggles = 1
    VoidScenes = {"s1", "s2"}
    VoidChunk = 1
    MaxSpent = 2
    MaxPicks = 1
    FolderNames = {"n"}
    DriveDepth = 1
    MaxDrivePresses = 2
    MaxVisits = 2
    MaxRenders = 1
INVARIANT BrowserTypeOK
INVARIANT QueuedAsAsked
INVARIANT ExtractionResumes
INVARIANT StreamedIsOfTheScene
INVARIANT UntangledIsTrue
INVARIANT DestinationsAreTrue
PROPERTY FeedIsCurrent
PROPERTY StatusNeverGoesBack
PROPERTY RefreshesKeepOrder
PROPERTY PickedIsDoneOnce
PROPERTY ViewsSettle
CHECK_DEADLOCK FALSE
