SPECIFICATION IngestSpec
CONSTANTS
    Proc = {1}
    File = {"f"}
    MaxVersion = 2
    MaxEdit = 2
    MaxDir = 2
    MaxTrouble = 0
    Mode = {"incremental"}
INVARIANT OnlyLandedIsStamped
