SPECIFICATION FairSpec
CONSTANTS
    MAX_PBUF_STORED = 4
    Udp = FALSE
    TCP_WND = 5
    Lens = {1, 2}
    MayFail = TRUE
    MaxBlocks = 6
    MaxConn = 2
INVARIANTS RingShape HeapExact OnlyThisConnection WindowAccounted
PROPERTIES ImplementsQueue EveryBlockLeaves
CHECK_DEADLOCK FALSE
