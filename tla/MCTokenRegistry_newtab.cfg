SPECIFICATION Spec
CONSTANTS
    Client = {"agent"}
    GeneratedClient = {}
    Scope <- MCScope
    Command <- MCCommand
    SCOPE_MAP <- MCScopeMap
    Label <- MCLabel
    Host <- MCHost
    Pattern <- MCPattern
    RateLimit <- MCRateLimit
    Asked <- MCAskedScopes
    MaxTokens = 3
    MaxTabs = 1
    Request = {"r1"}
    BatchReachable = TRUE
INVARIANT NoInheritedTab
CHECK_DEADLOCK FALSE
