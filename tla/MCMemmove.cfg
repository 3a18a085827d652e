SPECIFICATION Spec
CONSTANTS
    Size = 6
    Byte = {1, 2, 3}
INVARIANTS
    MovedExactly
