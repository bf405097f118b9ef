SPECIFICATION RewriteSpec
CONSTANTS
    File = File
    None = None
    NoFrame = NoFrame
    Bodies = {x, y}
    NoBody = NoBody
    RowIds = TRUE
    UNAVAILABLE_BASE_ROW_ID = 99
    MaxBlocks = 3
    MaxRows = 2
    MaxFrames = 3
    MaxTruncations = 1
PROPERTY
    SnapshotIsOfOneFile
