\* Two connections, one after the other, and a guest that does not receive.
SPECIFICATION Spec
CONSTANTS
    MaxConn = 2
    MaxChunk = 0
    IdMod = 4
    GuestWrites = FALSE
    Limit = 1
INVARIANTS
    ExcessBoundedByLive
CHECK_DEADLOCK FALSE
