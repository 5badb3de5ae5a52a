SPECIFICATION FairSpec
CONSTANTS
    Keys <- MCKeys
    FileSizes <- MCFileSizes
    Worker = worker
    Clients = {c1}
    Background = FALSE
    Threshold = 1
    L0Trigger = 2
    SizeRatio = 2
    BaseSize = 1
    RowToColumn = 2
    SizeModulus = 65536
    CrashInWindow = FALSE
    MaxInserts = 5
    MaxFaults = 1
PROPERTIES
    ImplementsRowStore
    InsertReturns
