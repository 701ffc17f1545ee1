SPECIFICATION FairSpec
CONSTANTS
    EVENT_QUEUE = 2
    FIFO = 3
    Kinds = {"own", "reset", "other", "noise"}
    MaxFrames = 3
    MaxErrors = 1
INVARIANTS
    AnswersOnceInOrder
    TypeOK
    EventsHaveTheirBytes
PROPERTIES
    TaskReturns
    RequestAnswered
