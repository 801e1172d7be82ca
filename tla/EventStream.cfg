SPECIFICATION FairSpec
CONSTANTS
    MaxEpoch = 2
    MaxSeq = 2
    BufferLimit = 1
    RetryBudget = 1
    MaxTroubles = 2
INVARIANTS QuietMeansComplete AppliedOnce
PROPERTY CatchesUp
\* Every bound used up, nothing is left to happen.
CHECK_DEADLOCK FALSE
