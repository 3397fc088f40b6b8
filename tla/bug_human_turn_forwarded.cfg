SPECIFICATION Spec
CONSTANTS
    m1 = m1
    m2 = m2
    c1 = c1
    c2 = c2
    Msgs = {m1}
    Subs = {}
    SubSock <- OwnSock
    NoReply = {}
    Matching <- OwnShortId
    Whole = {}
    None = None
    MaxTurns = 2
    Endings <- Answers
    QueueOutcomes <- QueuedOnly
    HooksInOrder = FALSE
    HooksMayLose = FALSE
    TtlCoversQueue = TRUE
    MayStop = FALSE
    MayCrash = FALSE
INVARIANTS
    HumanTurnsStayPrivate
CHECK_DEADLOCK FALSE
