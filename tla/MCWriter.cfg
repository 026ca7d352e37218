CONSTANTS
    e1 = e1
    e2 = e2
    e3 = e3
    s1 = s1
    s2 = s2
    Ids <- MCIds
    SlotOf <- MCSlotOf
    SigOf <- MCSigOf
    PendingWrites <- MCRows
    Writers = {w1, w2}
    QueueSize = 1
    BatchSize = 2
    MaxSends = 2
    MaxCrashes = 1
SPECIFICATION FairSpec
INVARIANTS
    TypeOK
    Accounted
    TradesMatchEvents
    DrainedBeforeStop
    ProgressIsStored
PROPERTIES
    StoreSpec
    EveryRowSettles
    ShutdownCompletes
