SPECIFICATION FairSpec
CONSTANTS
    Calls <- MCCalls
    BUFFERSIZE = 100
    TIMEOUT_CHAR = 200
    MaxGaps = 2
INVARIANTS
    TypeOK
    Genuine
    Answers
PROPERTIES
    Recovers
    KeepsPromise
