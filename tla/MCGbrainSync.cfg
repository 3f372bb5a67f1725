SPECIFICATION Spec
CONSTANTS
    Proc = {1, 2}
    File = {"f"}
    MaxVersion = 1
    MaxEdit = 1
    MaxDir = 2
    MaxTrouble = 0
    Mode = {"incremental"}
    MaxUpset = 1
    Dreams = TRUE
    Ages = TRUE
INVARIANTS OwnStaging
PROPERTIES LocksAreMutexes NeverWithoutPages
CHECK_DEADLOCK FALSE
