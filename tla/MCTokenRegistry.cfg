SPECIFICATION Spec
CONSTANTS
    Client = {"agent", "remote"}
    GeneratedClient = {"remote"}
    Scope <- MCScope
    Command <- MCCommand
    SCOPE_MAP <- MCScopeMap
    Label <- MCLabel
    Host <- MCHost
    Pattern <- MCPattern
    RateLimit <- MCRateLimit
    Asked <- MCAskedMixed
    MaxTokens = 3
    MaxTabs = 1
    Request = {"r1"}
    BatchReachable = TRUE
INVARIANTS OneSessionPerClient CredentialsAuthorised
PROPERTY NeverStranded
CHECK_DEADLOCK FALSE
