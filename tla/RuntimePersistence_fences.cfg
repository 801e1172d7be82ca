SPECIFICATION FairSpec
CONSTANTS
    Threads = {t1}
    Requests = {x1, x2}
    None = None
    MaxSeq = 3
    Chunk = 1
    ThreadCap = 2
    GlobalCap = 3
    FenceWaiters = 1
    MutationWaiters = 1
    Kinds = {"read", "truncate", "rebase", "delete"}
    MaxOwed = 1
    MaxFaults = 0
    MaxBoots = 1
INVARIANTS PinnedReadIsExact
PROPERTIES NoGapServed AcceptedGetsDurable RequestsSettle
CHECK_DEADLOCK FALSE
