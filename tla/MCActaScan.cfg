SPECIFICATION FairSpec
CONSTANTS
    Columns <- MCColumns
    PrimaryColumn = "t"
    NoRange = NoRange
    Blocks <- MCBlocks
    Projections <- MCProjections
    Ranges <- MCRanges
    Streams <- MCStreams
    ValueBytes <- MCValueBytes
    PackedBytes <- MCPackedBytes
    KeyBytes = 2
    HeaderBytes = 1
    MaxRowsPerScan = 5
    MaxScanBytes = 44
    MaxBlockBytes = 36
    MaxBlocks = 2
    FileBlocks = 3
    MaxDamage = 1
INVARIANTS
    AnswersAreExact
    BatchesAreVerified
    EachBlockOnce
    AllowancesBound
    MetricsDescribeAnswers
PROPERTIES
    EveryBlockReached
CHECK_DEADLOCK FALSE
