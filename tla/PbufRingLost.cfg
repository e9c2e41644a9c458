SPECIFICATION Spec
CONSTANTS
    MAX_PBUF_STORED = 3
    Udp = FALSE
    TCP_WND = 4
    Lens = {1, 2}
    MayFail = FALSE
    MaxBlocks = 5
    MaxConn = 2
INVARIANT NoEarlierConnection
CHECK_DEADLOCK FALSE
