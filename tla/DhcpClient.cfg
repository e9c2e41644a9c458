SPECIFICATION FairSpec
CONSTANTS
    Addrs = {a1, a2}
    None = None
    Inf = Inf
    Ticks = {1, 2}
    TRIES_MOD = 11
    TICK_MOD = 4
    MayFail = TRUE
INVARIANTS UpIsLeased
PROPERTIES ServesLink Binds Expires
CHECK_DEADLOCK FALSE
