SPECIFICATION Spec
CONSTANTS
    Turn = {t1}
    Keep = 2
    Trigger = 2
    MaxMessages = 7
    MaxFaults = 1
SYMMETRY Interchangeable
INVARIANT RemovedIsForgotten
CHECK_DEADLOCK FALSE
