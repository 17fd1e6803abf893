CONSTANTS
    PAGE_SIZE <- MCPageSize
    MAX_PAGE_NO <- MCMaxPageNo
    SIZE_MOD <- MCSizeMod
    MaxLen <- MCMaxLen
    MaxCalls <- MCMaxCalls
    ZERO = ZERO
    NONE = NONE
SPECIFICATION Spec
INVARIANT WriteLandsOnItsPages
CHECK_DEADLOCK FALSE
