SPECIFICATION Spec
CONSTANTS
    Subs = {s1, s2}
    Qos1Subs = {s2}
    NoSub = NoSub
    MAXSUBSCRIPTIONS = 2
    ID_MOD = 65536
    RETRIES = 1
    MaxIds = 5
    MaxPings = 1
    MaxQueue = 2
    MaxFlow = 1
INVARIANT ConnectedIsSubscribed
