SPECIFICATION Spec
CONSTANTS
    Ids = {i1, i2, i3}
    None = None
    Principals = {p1, p2}
    Requests = {r1, r2, r3}
    MaxCrashes = 2
    MaxWriteErrors = 1
INVARIANTS EffectAtMostOnce FailedMeansNoEffect
SYMMETRY Symmetry
\* A client that is done or has given up leaves nothing to do.
CHECK_DEADLOCK FALSE
