SPECIFICATION Spec
CONSTANTS
    MAX_PBUF_STORED = 3
    Udp = TRUE
    TCP_WND = 4
    Lens = {1, 2}
    MayFail = FALSE
    MaxBlocks = 5
    MaxConn = 2
PROPERTY NoByteTwice
CHECK_DEADLOCK FALSE
