SPECIFICATION Spec
CONSTANTS
    Keys <- MCKeys
    FileSizes <- MCFileSizes
    Worker = worker
    Clients = {c1}
    Background = TRUE
    Threshold = 2
    L0Trigger = 2
    SizeRatio = 2
    BaseSize = 1
    RowToColumn = 2
    SizeModulus = 65536
    CrashInWindow = TRUE
    MaxInserts = 4
    MaxFaults = 1
INVARIANTS
    DurableSurvives
