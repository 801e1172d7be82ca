SPECIFICATION FairSpec
CONSTANTS
    Clis = {a1, a2}
    MaxCrashes = 2
    MaxFaults = 1
INVARIANTS ServesThePromotion RecordIsTrue
PROPERTIES ServedKeepsCustody ImplementsOneRoot 
\* A root that every launch refuses stays as it is until somebody removes it.
CHECK_DEADLOCK FALSE
