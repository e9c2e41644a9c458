SPECIFICATION Spec
CONSTANTS
    BASE = 8
    MAXBUFFERSIZE = 12
    SUBSCRIPTIONDATALEN = 3
    TOPIC <- MCTopic
    Messages <- MCMessages
    Outgoing <- MCOutgoing
    CONNECT <- MCConnect
    Lower <- MCLower
    MaxPackets = 2
    MaxStalls = 1
INVARIANTS
    Terminated
CHECK_DEADLOCK FALSE
