SPECIFICATION FairSpec
CONSTANTS
    MAX_PARTITIONS = 1
    MAX_PAGES = 2
    MAX_ENTRIES = 3
    MAX_WRITES = 2
    UINT32 = 49
    WORD = 7
    NvsCapacity = 15
    NotFound = NotFound
    IMPULSE_CONVERSION = 100
    InitialEnergies = {0, 2}
    MaxPulses = 5
    MaxRestarts = 3
PROPERTY ImplementsDurableCounter
