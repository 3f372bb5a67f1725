SPECIFICATION FairSpec
CONSTANTS
    MaxSlot = 2
    MaxSession = 2
    MaxAttach = 2
    MaxLease = 1
    MaxDeath = 1
    MaxPoll = 1
    MaxCrossing = 1
    Mishaps = {{"death", "expiry"}, {"overtaking"}, {"crossing"}}
INVARIANTS NoOrphanPty SpentTokens LiveHasItsSocket
PROPERTIES ClosedPanelInterruptsItsPtys
CHECK_DEADLOCK FALSE
