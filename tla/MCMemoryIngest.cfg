SPECIFICATION IngestFairSpec
CONSTANTS
    Proc = {1}
    File = {"f", "g"}
    MaxVersion = 2
    MaxEdit = 3
    MaxDir = 3
    MaxTrouble = 2
    Mode = {"incremental", "bulk", "no-write"}
INVARIANTS  RepoSpared
PROPERTIES PolicyHonoured EveryoneIngested
