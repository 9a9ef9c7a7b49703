SPECIFICATION Spec
CONSTANTS
    Thread = {t1}
    Namespace = {n1, n2}
    Channel = {c1, c2}
    Turn = {x1, x2}
    Keep = 1
    ChunkSize = 1
    MaxCheckpoint = 3
    MaxFaults = 1
    None = None
SYMMETRY Interchangeable
CONSTRAINT FewWrites
INVARIANTS
    TypeOK
    RemainingAreReadable
    LeftoversAreFound
PROPERTIES
    NewestAreKept
CHECK_DEADLOCK FALSE
