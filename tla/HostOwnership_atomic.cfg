SPECIFICATION FairSpec
CONSTANTS
    Desktops = {d1}
    Servers = {s1}
    Children = {c1, c2}
    NoProc = NoProc
    MaxEpoch = 2
    ParentPidTracked = TRUE
    GrantAtomic = TRUE
 
PROPERTIES  OrphanGivesFenceBack AdmissionSettles
\* With every process gone and MaxEpoch generations used nothing can happen any more.
CHECK_DEADLOCK FALSE
