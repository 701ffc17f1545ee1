\* The same store with one save, until it changes an energy nobody asked for.
SPECIFICATION ConfigSpec
CONSTANTS
    MAX_PARTITIONS = 1
    MAX_PAGES = 2
    MAX_ENTRIES = 3
    MAX_WRITES = 2
    UINT32 = 49
    WORD = 7
    NvsCapacity = 9
    NotFound = NotFound
    IMPULSE_CONVERSION = 60
    InitialEnergies = {0, 5}
    MaxPulses = 6
    MaxRestarts = 1
    MaxSaves = 1
PROPERTY EnergyKept
