SPECIFICATION Spec
CONSTANTS
    Addrs = {a1, a2}
    None = None
    Inf = Inf
    Ticks = {1, 2}
    TRIES_MOD = 11
    TICK_MOD = 4
    MayFail = TRUE
PROPERTIES ReleasesAClient
CHECK_DEADLOCK FALSE
