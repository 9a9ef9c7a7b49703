SPECIFICATION Spec
CONSTANTS
    Request = {r1, r2, r3}
    Thread = {t1}
    User = {u1, u2}
    Key = {k1}
    Owner = u1
    Other = u2
    Only = t1
    Repeated = k1
    Mix <- Mixes
    None = None
    MaxChunk = 1
    FaultKinds = {"postgres", "redis", "crash", "expiry"}
    MaxFaults = 1
SYMMETRY Interchangeable
INVARIANTS
    TypeOK
    TurnsAreDense
    RunsOfOneOwner
    ThreadShowsTrueEnding
    LocksAreUsed
    DuplicatesAreOwn
    FinishedStreamIsKept
CHECK_DEADLOCK FALSE
