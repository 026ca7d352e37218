CONSTANTS
    u1 = u1
    u2 = u2
    u3 = u3
    e1 = e1
    e2 = e2
    e3 = e3
    e4 = e4
    none = none
    Ids <- MCIds
    Body <- MCBody
    ChannelCap = 1
    WriteCap = 1
    BatchCap = 2
SPECIFICATION LiveFairSpec
INVARIANTS
    LiveTypeOK
    EventsAccounted
    StopLosesNothing
PROPERTIES
    TakenSettles
    InterruptEnds

