CONSTANTS
    r1 = r1
    r2 = r2
    a = a
    b = b
    c = c
    d = d
    Blocks = {3, 5}
    Txs <- MCFewTxs
    BlockOf <- MCFewBlockOf
    GapIds <- MCGapIds
    StartOf <- MCStartOf
    EndOf <- MCEndOf
    Overlap = 1
    MaxAttempts = 2
    Recoverers = {r1, r2}
    RpcMayFail = TRUE
    MayLack = TRUE
    MayInterrupt = TRUE
    DbMayFail = TRUE
SPECIFICATION Spec
INVARIANTS
    ClosedIsAccounted
    StuckIsVisible
SYMMETRY Symmetry
