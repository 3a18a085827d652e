SPECIFICATION AllSpec
CONSTANTS
    Lengths <- MCLengths
    Widths <- MCWidths
    Keys <- MCKeys
    Targets <- MCTargets
    NULL = NULL
INVARIANTS
    AccessesValid
    Permutation
    SortedWhenDone
    SearchAfterSort
    ComparisonBound
PROPERTIES
    Terminates
