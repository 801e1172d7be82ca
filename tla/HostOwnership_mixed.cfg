SPECIFICATION Spec
CONSTANTS
    Desktops = {d1}
    Servers = {s1}
    Children = {c1, c2}
    NoProc = NoProc
    MaxEpoch = 3
    ParentPidTracked = FALSE
    GrantAtomic = FALSE
SYMMETRY Symmetry
INVARIANTS OverlapOnlyAcrossGenerations
\* With every process gone and MaxEpoch generations used nothing can happen any more.
CHECK_DEADLOCK FALSE
