SPECIFICATION SetSpec
CONSTANTS
    Sets = {s1, s2}
    Signals <- MCSignals
    Contents <- MCContents
    IntModulus = 256
    MaxCalls = 4
INVARIANTS
    MembershipExact
    ReservedKeptOut
