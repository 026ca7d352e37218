CONSTANTS
    a1 = a1
    a2 = a2
    live = live
    recover = recover
    Pools = {a1, a2}
    Procs = {live, recover}
    QueueCap = 1
    RpcMayFail = TRUE
    DbMayFail = FALSE
SPECIFICATION Spec
SYMMETRY MCSymmetry
INVARIANTS
    TypeOK
    CachedIsSaved
PROPERTIES
    StoredNeverForgets
