CONSTANTS
    CACHE_N_PAGES <- MCFrames
    EVICT_LRU_K = 2
    MaxPages <- MCMaxPages
    MaxHeld <- MCMaxHeld
    MaxWrites <- MCMaxWrites
    FileKinds = {node_file}
    NOFRAME = NOFRAME
    NOKEY = NOKEY
SPECIFICATION Spec
PROPERTY EvictLoadsUnpinnedFrame
CHECK_DEADLOCK FALSE
