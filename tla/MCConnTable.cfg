\* Two connections whose ids do not wrap, two chunks, and a mailbox of two
\* events that overflows; the guest's writes may fail at any time.
SPECIFICATION Spec
CONSTANTS
    MaxConn = 2
    MaxChunk = 2
    IdMod = 3
    GuestWrites = TRUE
    Limit = 2
INVARIANTS
    GuestStateReclaimable
    NoMixUp
    NoConnectionLeaks
PROPERTIES
    HangUpAnnounced
    ImplementsConnSpec
\* The clients may never connect, or go quiet.
CHECK_DEADLOCK FALSE
