SPECIFICATION Spec
CONSTANTS
    SLAVES = 1
    NODE_ID = 3
    MAX_POLL_QUEUE_SIZE = 1
    EVENT_QUEUE = 1
    RING = 2
    TOLERANCE = 1
    BYTE = 2
    UINT8 = 4
    ReadAddresses = {}
    MaxRequests = 1
    MaxCommands = 0
    MaxLosses = 1
    MaxRestarts = 1
    Measures <- MCOneMeter
    Commands = {}
INVARIANTS
    CacheIsGenuine
    
    MaskFollowsJump
