SPECIFICATION BufferFairSpec
CONSTANTS
    c1 = c1
    c2 = c2
    Callers <- MCCallers
    MaxCalls = 2
    Capacity = 1
    PanicPossible = TRUE
    NoCall = NoCall
    Buffered <- MCBuffered
INVARIANTS
    TypeOK
    BoundedFifo
    OneHolder
    OwnersLive
PROPERTIES
    ImplementsSerialConnection
    Answered
    ThreadEnds
    AllFreed
CHECK_DEADLOCK FALSE
