\* One connection, one chunk: does anything follow the closed event?
SPECIFICATION Spec
CONSTANTS
    MaxConn = 1
    MaxChunk = 1
    IdMod = 3
    GuestWrites = TRUE
    Limit = 2
INVARIANTS
    NothingAfterClosed
CHECK_DEADLOCK FALSE
