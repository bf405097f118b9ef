CONSTANTS
    Schema <- MCSchema
    Rows <- MCRows
    Statistics = "Automatic"
    AUTOMATIC_MIN_DENSE_VALUES = 2
    AUTOMATIC_VALUE_TO_STATISTICS_RATIO = 1
    MAX_ROWS_PER_BLOCK = 4
    MAX_FRAME_HEADER_LENGTH = 336
    MAX_FRAME_PAYLOAD_LENGTH = 470
    RowTarget = 2
    ByteTarget = 456
    Encodings = {"Raw", "Fixed(Constant)"}
    U64_MAX = 1000
    MaxBatch = 2
    MaxRows = 3
SPECIFICATION AppendFairSpec
INVARIANTS
    AcceptedRowsKept
    BlocksWithinTargets
    BlocksMaximal
    PriceCoversFrame
    CountersDescribeFile
PROPERTIES
    AppendReturns
