SPECIFICATION FrameSpec
CONSTANTS
    HeaderSize = 4
    ColumnSize = 2
    StreamSize = 4
    Alignment = 2
    MaxHeaderLength = 40
    MaxPayloadLength = 16
    Schemas <- MCSchemas
    Encodings <- MCEncodings
    RowCount = 2
    MaxAlterations <- MCMaxAlterations
INVARIANTS
    WriterFramesAreRead
    AcceptedRangesAreApart
    ProjectionLosesNoCheck
CHECK_DEADLOCK FALSE
