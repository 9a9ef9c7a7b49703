SPECIFICATION Spec
CONSTANTS
    Attempt = {a1, a2}
    MaxChunk = 1
    MaxLength = 2
    MaxConnects = 1
    MaxFaults = 1
    MayLag = FALSE
    None = None
INVARIANT RecoveredAnswerIsStreamed
CHECK_DEADLOCK FALSE
