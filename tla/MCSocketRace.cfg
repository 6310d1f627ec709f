\* Processes with one name that start at the same time, none of them with a
\* full backlog.
SPECIFICATION Spec
CONSTANTS
    a = a
    b = b
    c = c
    Procs <- MCProcs
INVARIANTS
    OneServer
