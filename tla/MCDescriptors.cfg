SPECIFICATION Spec
CONSTANTS
    Threads = {t1, t2}
    Fds <- MCFds
    OldKernel = TRUE
    Free = Free
    NoCall = NoCall
    MaxCalls = 3
SYMMETRY ThreadSymmetry
INVARIANTS
    OwnedIsMine
    NoLeak
    CloexecAsAsked

    
