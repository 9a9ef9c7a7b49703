SPECIFICATION Spec
CONSTANTS
    Attempt = {a1, a2}
    Process = {p1, p2}
    ReaperProcess = {p1}
    Caller = {}
    MaxChunk = 1
    MaxFaults = 0
    FaultKinds = {}
    None = None
SYMMETRY Interchangeable
INVARIANTS
    CompletedMeansExecuted
