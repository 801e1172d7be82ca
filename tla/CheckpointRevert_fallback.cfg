SPECIFICATION FairSpec
CONSTANTS
    Keys = {k1, k2}
    None = None
    FirstTurns = 2
    MaxTurns = 3
    MaxCrashes = 1
    AnchorKind = "none"
    UserWaits = FALSE
INVARIANTS RolledBackAtMostOnce
PROPERTIES InterruptedRevertsSettle
