SPECIFICATION Spec
CONSTANTS
    Turn = {t1, t2}
    Keep = 2
    Trigger = 2
    MaxMessages = 6
    MaxFaults = 1
SYMMETRY Interchangeable
INVARIANTS
    TypeOK
    SummaryCoversPrefix
CHECK_DEADLOCK FALSE
