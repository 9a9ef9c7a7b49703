SPECIFICATION FairSpec
CONSTANTS
    Attempt = {a1, a2}
    Process = {p1}
    ReaperProcess = {p1}
    Caller = {}
    MaxChunk = 0
    MaxFaults = 2
    FaultKinds = {"crash", "redis", "postgres"}
    None = None
ACTION_CONSTRAINT FaultsAboutReaper
PROPERTIES
    EveryJobEnds
    MetaIsCorrected
CHECK_DEADLOCK FALSE
