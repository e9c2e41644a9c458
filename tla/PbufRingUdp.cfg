SPECIFICATION Spec
CONSTANTS
    MAX_PBUF_STORED = 3
    Udp = TRUE
    TCP_WND = 0
    Lens = {0, 1, 2}
    MayFail = FALSE
    MaxBlocks = 5
    MaxConn = 2
PROPERTIES ReadInOrder ImplementsQueue
CHECK_DEADLOCK FALSE
