CONSTANTS
    Procs = {p1}
    Inodes = {i1, i2}
    None = None
    Bodies = {x}
    NoBody = NoBody
    RowIds = TRUE
    UNAVAILABLE_BASE_ROW_ID = 99
    RowTarget = 2
    MaxBatch = 2
    MaxFrames = 1
    NoFrame = NoFrame
    MaxBlocks = 2
SYMMETRY Symmetry
SPECIFICATION LiveSpec
INVARIANTS
    SnapshotIsCommitted
    ResumesAfterLastBlock
    NoFalseRefusal
    NoneMeansCaughtUp
    TailDeliversCommitted
PROPERTIES
    SnapshotOnlyExtends
