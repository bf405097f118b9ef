SPECIFICATION FrameSpec
CONSTANTS
    HeaderSize = 4
    ColumnSize = 2
    StreamSize = 4
    Alignment = 2
    MaxHeaderLength = 40
    MaxPayloadLength = 12
    Schemas <- MCSchemas
    Encodings <- MCEncodings
    RowCount = 2
    MaxAlterations <- MCMaxAlterations
INVARIANT
    EmptyOverlapsNothing
CHECK_DEADLOCK FALSE
