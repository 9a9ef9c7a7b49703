SPECIFICATION FairSpec
CONSTANTS
    Attempt = {a1, a2}
    MaxChunk = 2
    MaxLength = 1
    MaxConnects = 2
    MaxFaults = 2
    MayLag = FALSE
    None = None
CONSTRAINT Small
INVARIANTS
    TypeOK
    EventsInOrder
    CompletedAnswerIsWhole
    SilentCloseMeansLost
PROPERTIES
    ConnectionsEnd
CHECK_DEADLOCK FALSE
