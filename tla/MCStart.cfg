SPECIFICATION StartSpec
CONSTANTS
    Cli = {"p1", "p2", "p3"}
    DepthCap = 2
    Invocation = {"c1", "c2", "c3"}
    MaxDaemon = 5
    Scenario <- Played
INVARIANTS NoLeftover OneDaemon KillOnlyByForce Reachable
PROPERTIES ImplementsMutex AnAcquisitionEnds EveryInvocationEnds
CHECK_DEADLOCK FALSE
