CONSTANTS
    MaxNodes = 5
    Keys <- MCKeys
    NEG <- MCNeg
    Heaps = {h1}
SPECIFICATION Spec
INVARIANT HeapSound
CHECK_DEADLOCK FALSE
