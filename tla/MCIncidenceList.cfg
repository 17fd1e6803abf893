CONSTANTS
    MaxNodes <- MCMaxNodes
    MaxRels <- MCMaxRels
    SENTINEL = SENTINEL
    DIVERGED = DIVERGED
SPECIFICATION Spec
INVARIANTS TypeOK Reciprocity ExpandAgrees
PROPERTY AbstractSpec
CHECK_DEADLOCK FALSE
