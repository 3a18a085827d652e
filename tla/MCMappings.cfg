SPECIFICATION Spec
CONSTANTS
    Threads = {t1, t2}
    Pages <- MCPages
    KernelPage = 4
    PAGE_SIZE = 2
    PTRDIFF_MAX = 13
    Hints = {1}
    Sizes <- MCSizes
    Offsets <- MCOffsets
    Unmapped = Unmapped
    NoCall = NoCall
    MaxCalls = 3
SYMMETRY ThreadSymmetry
INVARIANTS
    OwnershipExact
    DataKept
PROPERTIES
    ErrorsExact
