SPECIFICATION FairSpec
CONSTANTS
    EVENT_QUEUE = 2
    FIFO = 4
    Kinds = {"package", "reset", "ack", "ack_error", "noise"}
    MaxFrames = 2
    MaxErrors = 1
    BUF_LORA_SIZE = 1
INVARIANTS
    AnswersOnceInOrder
    TypeOK
    NothingLeftBehind
    ResetsAreAsked
PROPERTIES
    PackageAnswered
