SPECIFICATION FairSpec
CONSTANTS
    Subs = {s1, s2}
    Qos1Subs = {s2}
    NoSub = NoSub
    MAXSUBSCRIPTIONS = 2
    ID_MOD = 65536
    RETRIES = 2
    MaxIds = 5
    MaxPings = 2
    MaxQueue = 2
    MaxFlow = 1
INVARIANTS PublishedIsTaken TableAgrees PingIsHeard
PROPERTY CallReturns
