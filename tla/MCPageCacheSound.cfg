CONSTANTS
    CACHE_N_PAGES <- MCFrames
    EVICT_LRU_K <- MCLruK
    MaxPages <- MCMaxPages
    MaxHeld <- MCMaxHeld
    MaxWrites <- MCMaxWrites
    FileKinds = {node_file}
    NOFRAME = NOFRAME
    NOKEY = NOKEY
SPECIFICATION Spec
INVARIANT CacheSound
CHECK_DEADLOCK FALSE
