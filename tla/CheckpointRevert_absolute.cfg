SPECIFICATION Spec
CONSTANTS
    Keys = {k1, k2}
    None = None
    FirstTurns = 3
    MaxTurns = 4
    MaxCrashes = 2
    AnchorKind = "absolute"
    UserWaits = TRUE
SYMMETRY Symmetry
INVARIANTS NothingForgotten
PROPERTY CompletedMeansReverted
