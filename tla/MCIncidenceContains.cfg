CONSTANTS
    MaxNodes <- MCMaxNodes
    MaxRels <- MCMaxRels
    SENTINEL = SENTINEL
    DIVERGED = DIVERGED
SPECIFICATION Spec
INVARIANT ContainsAgrees
CHECK_DEADLOCK FALSE
