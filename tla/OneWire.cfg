SPECIFICATION FairSpec
CONSTANTS
    N = 5
    FAMILY = 2
    Devices <- MCDevices
    MaxChanges = 1
INVARIANTS
    Once
    FindsAll
    FindsFamily
PROPERTIES
    Ends
