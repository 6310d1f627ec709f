\* Three connections share the two ids that a width of 3 leaves: ids wrap and
\* are reused, with a guest that only receives.
SPECIFICATION Spec
CONSTANTS
    MaxConn = 3
    MaxChunk = 1
    IdMod = 3
    GuestWrites = FALSE
    Limit = 1
INVARIANTS
    TypeOK
    GuestStateReclaimable
    NoConnectionLeaks
PROPERTIES
    NeverRebound
    ImplementsConnSpec
\* The clients may never connect, or go quiet.
CHECK_DEADLOCK FALSE
