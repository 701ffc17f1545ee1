\* Two partitions of two pages of three entries; a partition has eight slots, so
\* that partition 1 runs out of them while its first page fills up.
SPECIFICATION FairSpec
CONSTANTS
    MAX_PARTITIONS = 2
    MAX_PAGES = 2
    MAX_ENTRIES = 3
    MAX_WRITES = 2
    UINT32 = 49
    WORD = 7
    NvsCapacity = 8
    NotFound = NotFound
    IMPULSE_CONVERSION = 60
    InitialEnergies = {0, 5}
    MaxPulses = 25
    MaxRestarts = 2
INVARIANTS
    TypeOK
    RecoverExact
    AtMostOneLost
    PublishedIsDurable
    StoreOrdered
    WearLevelled
PROPERTY
    PulsePublished
