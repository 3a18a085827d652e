SPECIFICATION Spec48
CONSTANTS
    B = 8
    Multiplier <- MCMultiplier
    Addend = 3
    SeedLow = 6
    RandMult = 3885
    Xsubis <- MCXsubis
    Lcongs <- MCLcongs
    Longs <- TestedLongs
    None = None
    MaxCalls48 = 6
INVARIANT SeedDeterminesOutput
