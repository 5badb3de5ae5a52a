SPECIFICATION ReadPathSpec
CONSTANTS
    Keys <- MCKeys
    RowSizes <- MCRowSizes
    IndexOptions <- MCIndexOptions
    MaxFileRows = 5
    TargetRows = 2
    TargetBytes = 2
    IndexEntryBytes = 12
    NumBlocks = 5
    PageBlocks = 2
    ColumnsCount = 2
    StatsColumns <- MCStatsColumns
    MaxBytes = 7
    EntryBytes = 2
    HistoryLength = 3
    DataBlocks <- MCDataBlocks
    MaxBlockBytes = 4
    Bits = 2
    Word32 = 3
    Word64 = 5
    Tables <- MCTables
    Sources <- MCSources
INVARIANTS
    ScanExactUnlessSplit
    ReadExact
    CacheAccounts
    KeepsRecent
    BlockReturned
    WrittenIsRead
    HeapFresh
    MergeDeterministic
    AllRowsOnce
CHECK_DEADLOCK FALSE
