CONSTANTS
    ByteBits = 3
    WordBytes = 2
    CountBytes = 2
    DISTINCT_VALUE_LIMIT = 2
    DISTINCT_BYTE_LIMIT = 4
    FRAME_ALIGNMENT = 2
    BLOCK_STREAM_DESCRIPTOR_SIZE = 2
    MarginFloor = 3
    MarginShare = 10
    Statistics = "Automatic"
    AUTOMATIC_MIN_DENSE_VALUES = 2
    AUTOMATIC_VALUE_TO_STATISTICS_RATIO = 1
    Null = Null
    ColumnTypes <- MCColumns
    Cells <- MCCells
    Policies <- MCPolicies
    BatchSizes <- MCBatchSizes
    MaxRows <- MCMaxRows
    MaxAlterations <- MCMaxAlterations
SPECIFICATION ColumnSpec
INVARIANTS
    RowsSurviveEncoding
    EstimatesArePrices
    AdaptiveIsCheapest
    AcceptedColumnIsSound
CHECK_DEADLOCK FALSE
