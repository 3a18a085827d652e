SPECIFICATION Spec
CONSTANTS
    M <- MCM
    Mult31 <- MCMult31
    Mult64 <- MCMult64
    InitialWords <- MCInitialWords
    Buffers <- WrapBuffers
    Seeds <- MCSeeds
    Bytes <- WrapBytes
    Sizes <- WrapSizes
    Threads = {t1}
    Default = Default
    b1 = b1
    b2 = b2
    NULL = NULL
    NoGen = NoGen
    NoCall = NoCall
    MaxCalls = 9
INVARIANTS
    LagPreserved
    SomeOddWord
PROPERTY ImplementsRandomSpec
