\* Hits that race across two and a half intervals.
SPECIFICATION Spec
CONSTANTS
    g1 = g1
    g2 = g2
    g3 = g3
    Callers <- MCCallers
    Interval = 2
    MaxTime = 6
    MaxHit = 6
INVARIANTS
    EveryHitCounted
    LinesLimited
PROPERTIES
    HitReturns
\* There need not be another hit.
CHECK_DEADLOCK FALSE
