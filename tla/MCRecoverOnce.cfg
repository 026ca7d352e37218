CONSTANTS
    r1 = r1
    r2 = r2
    a = a
    b = b
    c = c
    d = d
    Blocks <- MCBlocks
    Txs <- MCTxs
    BlockOf <- MCBlockOf
    GapIds <- MCGapIds
    StartOf <- MCStartOf
    EndOf <- MCEndOf
    Overlap = 1
    MaxAttempts = 2
    Recoverers = {r1}
    RpcMayFail = TRUE
    MayLack = TRUE
    MayInterrupt = TRUE
    DbMayFail = TRUE
SPECIFICATION FairSpec
INVARIANTS
    TypeOK
PROPERTIES
    GapNeverReopens
    RecoverTerminates
