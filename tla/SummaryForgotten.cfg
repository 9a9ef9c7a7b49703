SPECIFICATION Spec
CONSTANTS
    Turn = {t1}
    Keep = 2
    Trigger = 2
    MaxMessages = 7
    MaxFaults = 0
SYMMETRY Interchangeable
INVARIANT NothingIsForgotten
CHECK_DEADLOCK FALSE
