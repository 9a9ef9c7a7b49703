SPECIFICATION Spec
CONSTANTS
    MaxThreads = 2
    MaxTurns   = 3
    MaxRetries = 1
    MaxMarks   = 2
    MaxSent    = 2
    MaxChanges = 1
    MaxReloads = 2
    MaxFaults  = 2
    MaxEvents  = 4
INVARIANTS
    TypeOK
    ShownAnswersAreKept
    CutMessagesAreForgotten
    BookmarksLeadToTheirAnswers
    WritesConverge
CONSTRAINT FewEvents
ACTION_CONSTRAINT Reduced
CHECK_DEADLOCK FALSE
