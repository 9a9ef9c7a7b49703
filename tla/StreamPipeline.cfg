SPECIFICATION Spec
CONSTANTS
    None = None
    Root = "root"
    Namespace = {"root", "sub"}
    Role <- Roles
    Multiplier = 20
    IncludeEvents = TRUE
    Agent <- Agents
    t1 = t1
    t2 = t2
    m1 = m1
    m2 = m2
    c1 = c1
INVARIANTS TypeOK RowsAreTheirChunks TaskRowsTellEnding InferredTaskWasAlone AnswersAgree CutsLoseNothing ItemsCloseOnce ShownIsStored BothStoreTheSame
CHECK_DEADLOCK FALSE
