SPECIFICATION ClientFairSpec
CONSTANTS
    Slots = {b1, b2, b3}
    Callers = {r1, r2}
    None = None
    MaxFailures = 3
    AsyncForkErrors = FALSE
INVARIANTS OneBackendAlive StartedOnce 
PROPERTIES ParkedCallersSettle
\* After a completed disposal nothing is left to do.
CHECK_DEADLOCK FALSE
