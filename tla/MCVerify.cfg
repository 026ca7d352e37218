CONSTANTS
    a1 = a1
    a2 = a2
    b = b
    before = before
    after = after
    fake = fake
    ghost = ghost
    sa = sa
    sb = sb
    sx = sx
    sy = sy
    sg = sg
    none = none
    Ids <- MCIds
    Real <- MCReal
    Sigs <- MCSigs
    SigOf <- MCSigOf
    SlotOf <- MCSlotOf
    File <- MCFile
    From = 2
    To = 3
    LastSlot = 4
SPECIFICATION Spec
INVARIANTS
    TypeOK
    CleanIsExact
    DifferencesAreReal
