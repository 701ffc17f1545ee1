SPECIFICATION Spec
CONSTANTS
    SLAVES = 2
    NODE_ID = 3
    MAX_POLL_QUEUE_SIZE = 1
    EVENT_QUEUE = 1
    RING = 1
    TOLERANCE = 1
    BYTE = 3
    UINT8 = 4
    ReadAddresses = {1, 3}
    MaxRequests = 1
    MaxCommands = 1
    MaxLosses = 0
    MaxRestarts = 0
    Measures <- MCOneByte
    Commands <- MCReadCommands
INVARIANTS
    TypeOK
    CacheIsGenuine
    MaskFollowsJump
    AnswerIsAMeasure
    RelayObeys
