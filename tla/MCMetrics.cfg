CONSTANTS
    Slots = {1, 2, 3}
    Edges <- MCEdges
    Longest = 4
    Earlier <- MCEarlier
    MaxObserved = 2
SPECIFICATION Spec
INVARIANTS
    LagIsBracketed
    ScrapeIsBracketed
    PercentilesAreRanks
