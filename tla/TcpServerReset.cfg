SPECIFICATION FairSpec
CONSTANTS
    Pcbs = {p1, p2}
    NULL = NULL
    MAX_CLIENT_ACCEPTED = 2
INVARIANTS PayloadFreed
CHECK_DEADLOCK FALSE
