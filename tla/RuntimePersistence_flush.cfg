SPECIFICATION Spec
CONSTANTS
    Threads = {t1, t2}
    Requests = {x1}
    None = None
    MaxSeq = 2
    Chunk = 1
    ThreadCap = 1
    GlobalCap = 2
    FenceWaiters = 1
    MutationWaiters = 1
    Kinds = {"rebase", "acknowledge"}
    MaxOwed = 1
    MaxFaults = 1
    MaxBoots = 2
INVARIANT EvidenceIsKept
PROPERTIES ImplementsDurableLog
SYMMETRY Symmetry
CHECK_DEADLOCK FALSE
