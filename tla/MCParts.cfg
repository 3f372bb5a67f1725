SPECIFICATION Spec
CONSTANTS
    Writer = {"w1", "w2", "w3"}
    MaxLine = 3
    Drainer = {"d1", "d2"}
    Path = {"a", "b"}
    Behavioral = {"b"}
    Content = {"old", "new", "secret"}
    Original = "old"
    Secret = {"secret"}
    MaxRecord = 2
    MaxChange = 1
    MaxFault = 1
    Caller = {"s1", "s2", "s3"}
    MaxChild = 3
    Limit = 3
    Errs = TRUE
    Handler = {"h1", "h2"}
    MaxTunnel = 2
    LateFailure = TRUE
    Client = {"a"}
    Purpose = {"agent", "scale", "load", "handoff"}
    Scale = {1, 2}
    AtOnce = 2
    MaxTab = 4
    MaxRebuild = 2
    Inbound = {"read", "tap"}
    ReadOnly = {"read"}
    MaxMishap = 3
    Post = {"p", "q"}
    SourceDir = {"x", "y", "z"}
    MaxBoards = 2
    IdleTime = 2
    MaxExtensions = 2
    MaxPublished = 4
    User = {"u", "v"}
    Version = {"old", "current"}
    MaxStarted = 3
    Trouble = {"crash", "late", "kill"}
INVARIANTS ChainVerifies NoChangeIsForgotten SecretsStayHome OnlyClassifiedIsCommitted OutcomeIsItsOwn NothingExposedUnremembered OwnedByItsOpener ReportedScaleIsReal DispatchedOnce OneRelaunchPerMishap ReadsRecover IdleWithinBounds OneDesignDaemon
PROPERTY EvictedAreDone
CHECK_DEADLOCK FALSE
