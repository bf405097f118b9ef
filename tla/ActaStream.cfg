CONSTANTS
    ByteBits = 3
    WordBytes = 2
    CountBytes = 1
    StreamBytes = {0, 1, 2, 3, 4, 6, 7}
    MaxStreamBytes = 6
    MaxElements = 4
SPECIFICATION StreamSpec
INVARIANTS
    AcceptedFitsTheColumn
    AcceptedIsCanonical
CHECK_DEADLOCK FALSE
