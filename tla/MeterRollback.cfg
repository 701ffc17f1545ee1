SPECIFICATION Spec
CONSTANTS
    MAX_PARTITIONS = 2
    MAX_PAGES = 2
    MAX_ENTRIES = 3
    MAX_WRITES = 2
    UINT32 = 49
    WORD = 7
    NvsCapacity = 20
    NotFound = NotFound
    IMPULSE_CONVERSION = 60
    InitialEnergies = {0, 5}
    MaxPulses = 25
    MaxRestarts = 2
INVARIANT
    RecoversLastSave
