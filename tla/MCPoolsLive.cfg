CONSTANTS
    a1 = a1
    a2 = a2
    live = live
    recover = recover
    Pools = {a1, a2}
    Procs = {live}
    QueueCap = 1
    RpcMayFail = FALSE
    DbMayFail = TRUE
SPECIFICATION FairSpec
PROPERTIES
    RequestedResolves
