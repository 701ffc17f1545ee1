\* The seconds of the code; 2000 ticks are 20 s at 100 ticks a second (the
\* default of ESP-IDF) and 2 s at 1000.  Every build with up to one slave.
SPECIFICATION FairSpec
CONSTANTS
    TWDT_TIMEOUT_S = 20
    TWDT_RESET = 5
    TIME_SCAN = 1
    Timeouts = {2, 20}
    MaxSlaves = 1
INVARIANTS
    TypeOK
    BlamesOnlyStuck
    QueueBeforeCommands
    
PROPERTIES
    StuckIsReset
    GatewayComesUp
