SPECIFICATION FairSpec
CONSTANTS
    Micro = 2
    NsPerUs = 3
    Seconds = {0, 1, 2, 3}
    Useconds = {0, 1, 2, 3, 5}
    Timespecs <- MCTimespecs
    Epochs = {0, 4, 11}
    MaxSignals = 3
INVARIANTS
    ShortfallBounded
    WholeTimeWaited
    ElapsedMeasured
PROPERTIES
    LoopEnds
