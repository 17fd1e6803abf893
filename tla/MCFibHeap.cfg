CONSTANTS
    MaxNodes = 5
    Keys <- MCKeys
    NEG <- MCNeg
    Heaps = {h1}
SPECIFICATION Spec
INVARIANTS TypeOK NoFault SoundBeforeOverrun OrderedBeforeOverrun
CHECK_DEADLOCK FALSE
