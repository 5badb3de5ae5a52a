SPECIFICATION ScanSpec
CONSTANTS
    Keys <- MCKeys
    FileSizes <- MCFileSizes
    Worker = worker
    Clients = {c1}
    Background = TRUE
    Threshold = 2
    L0Trigger = 2
    SizeRatio = 2
    BaseSize = 1
    RowToColumn = 2
    SizeModulus = 65536
    CrashInWindow = FALSE
    MaxInserts = 3
    MaxFaults = 0
INVARIANTS
    CursorBacked
