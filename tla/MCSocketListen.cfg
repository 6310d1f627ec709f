\* Three processes with one name that start, together or one after the other,
\* stop and crash at any time.
SPECIFICATION Spec
CONSTANTS
    a = a
    b = b
    c = c
    Procs <- MCProcs
INVARIANTS
    ServerReachable
    NoStartFails
PROPERTIES
    NameServed
