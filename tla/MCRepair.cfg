CONSTANTS
    sol = sol
    tok = tok
    alt = alt
    e1 = e1
    e2 = e2
    e3 = e3
    e4 = e4
    e5 = e5
    Ids <- MCIds
    EventOf <- MCEventOf
    Mints <- MCMints
    Wsol = sol
    Pools <- MCPools
    MintsOf <- MCMintsOf
    SlotOf <- MCSlotOf
    Legacy <- MCLegacy
    Stored <- MCStored
    Repairers = {r1, r2}
    Limit = 3
    ChunkSize = 2
    MaxAborts = 1
SPECIFICATION FairSpec
INVARIANTS
    TypeOK
    TradesAreTrue
    RunIsComplete
PROPERTIES
    RepairedInTheEnd
