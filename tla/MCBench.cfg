CONSTANTS
    a = a
    b = b
    broken = broken
    Lines = {a, b, broken}
    Good = {a, b}
    Repeat = 2
    FileMayFail = TRUE
    Files <- MCFiles
    Contents <- MCContents
    SigOf <- MCSigOf
    Words = 64
    XorBits <- MCXor
    Body <- MCBody
    Ids <- MCIds
    Salt = 63
    EventsPerPass = 3
    ChannelCap = 1
    WriteCap = 1
    BatchCap = 2
    MaxSent = 6
SPECIFICATION FairSpec
INVARIANTS
    TypeOK
    VerdictIsHonest
PROPERTIES
    SourceSpec
    BenchEnds
