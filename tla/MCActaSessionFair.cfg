CONSTANTS
    Procs = {p1}
    Inodes = {i1, i2}
    None = None
    Bodies = {x}
    NoBody = NoBody
    RowIds = TRUE
    UNAVAILABLE_BASE_ROW_ID = 99
    RowTarget = 2
    MaxBatch = 3
    MaxFrames = 2
SPECIFICATION FairSpec
PROPERTIES
    CallsReturn
    ImplementsLog
    CommittedOnlyGrows
