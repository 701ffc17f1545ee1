SPECIFICATION FairSpec
CONSTANTS
    SLAVES = 2
    NODE_ID = 3
    MAX_POLL_QUEUE_SIZE = 2
    EVENT_QUEUE = 1
    RING = 1
    TOLERANCE = 1
    BYTE = 2
    UINT8 = 4
    ReadAddresses = {}
    MaxRequests = 1
    MaxCommands = 2
    MaxLosses = 0
    MaxRestarts = 1
    Measures <- MCStill
    Commands <- MCRelayCommands
PROPERTIES
    RelayInOrder
    EverySlavePolled
    CommandArrives
