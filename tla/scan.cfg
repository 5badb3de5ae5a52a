SPECIFICATION ScanSpec
CONSTANTS
    Keys <- MCKeys
    FileSizes <- MCFileSizes
    Worker = worker
    Clients = {c1}
    Background = TRUE
    Threshold = 2
    L0Trigger = 1
    SizeRatio = 2
    BaseSize = 1
    RowToColumn = 2
    SizeModulus = 65536
    CrashInWindow = FALSE
    MaxInserts = 5
    MaxFaults = 0
INVARIANTS
    ScanInv
    PinnedBacked
    ScanComplete
    CacheCurrent
