SPECIFICATION Spec
CONSTANTS
    Attempt = {a1, a2}
    Process = {p1, p2}
    ReaperProcess = {p1}
    Caller = {c1}
    MaxChunk = 1
    MaxFaults = 1
    FaultKinds = {"crash", "redis", "postgres"}
    None = None
SYMMETRY Interchangeable
ACTION_CONSTRAINT CallsWithoutReaper
INVARIANTS
    TypeOK
    CompletedIsWhole
    RowsOfOneAttempt
    PublishedEndingsAreTrue
    CancelSettles
PROPERTIES
    RecordPromise
CHECK_DEADLOCK FALSE
