SPECIFICATION FairSpec
CONSTANTS
    Handler = {"h1"}
    MaxTunnel = 2
    LateFailure = TRUE
    Persist = TRUE
    Crashes = TRUE
PROPERTIES ShutdownEnds AbandonedEnds
CHECK_DEADLOCK FALSE
