CONSTANTS
    MaxNodes = 4
    Keys <- MCKeys
    NEG <- MCNeg
    Heaps = {h1, h2}
SPECIFICATION Spec
INVARIANT HeapSound
PROPERTY AbstractSpec
SYMMETRY MCHeapSymmetry
CHECK_DEADLOCK FALSE
