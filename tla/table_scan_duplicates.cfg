SPECIFICATION FileSpec
CONSTANTS
    Keys <- MCKeys
    RowSizes <- MCRowSizes
    IndexOptions <- MCIndexOptions
    MaxFileRows = 4
    TargetRows = 2
    TargetBytes = 2
    IndexEntryBytes = 12
INVARIANTS
    ScanExact
