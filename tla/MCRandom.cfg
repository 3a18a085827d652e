SPECIFICATION FairSpec
CONSTANTS
    M <- MCM
    Mult31 <- MCMult31
    Mult64 <- MCMult64
    InitialWords <- MCInitialWords
    Buffers <- MCBuffers
    Seeds <- MCSeeds
    Bytes <- MCBytes
    Sizes <- MCSizes
    Threads = {t1, t2}
    Default = Default
    b1 = b1
    b2 = b2
    NULL = NULL
    NoGen = NoGen
    NoCall = NoCall
    MaxCalls = 2
INVARIANTS
    TypeOK
    MutualExclusion
    MemorySafe
PROPERTIES
    ImplementsRandomSpec
    EveryCallReturns
