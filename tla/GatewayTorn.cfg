SPECIFICATION Spec
CONSTANTS
    SLAVES = 2
    NODE_ID = 3
    MAX_POLL_QUEUE_SIZE = 1
    EVENT_QUEUE = 1
    RING = 1
    TOLERANCE = 1
    BYTE = 2
    UINT8 = 4
    ReadAddresses = {1}
    MaxRequests = 1
    MaxCommands = 0
    MaxLosses = 0
    MaxRestarts = 0
    Measures <- MCTwoWords
    Commands = {}
INVARIANTS
    ReadIsAMeasure
