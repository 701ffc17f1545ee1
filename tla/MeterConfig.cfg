\* One partition of two pages of three entries, with room for all of them but
\* one; one energy besides the zero of AUX; two saves and one power loss.
SPECIFICATION ConfigSpec
CONSTANTS
    MAX_PARTITIONS = 1
    MAX_PAGES = 2
    MAX_ENTRIES = 3
    MAX_WRITES = 3
    UINT32 = 49
    WORD = 7
    NvsCapacity = 9
    NotFound = NotFound
    IMPULSE_CONVERSION = 60
    InitialEnergies = {0, 5}
    MaxPulses = 8
    MaxRestarts = 1
    MaxSaves = 2
INVARIANTS
    ConfigTypeOK
    EnergyTakes
    AtMostOneLostOutsideSave
    NoGap
    WearPerSave
