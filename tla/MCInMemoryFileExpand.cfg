CONSTANTS
    MaxNodes <- MCMaxNodes
    MaxRels <- MCMaxRels
    SENTINEL = SENTINEL
    DIVERGED = DIVERGED
    TextIds = {t1, t2, t3}
SPECIFICATION Spec
INVARIANT FileExpandAgrees
CHECK_DEADLOCK FALSE
