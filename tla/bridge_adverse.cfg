SPECIFICATION Spec
CONSTANTS
    m1 = m1
    m2 = m2
    c1 = c1
    c2 = c2
    Msgs = {m1, m2}
    Subs = {}
    SubSock <- OwnSock
    NoReply = {}
    Matching <- SameShortId
    Whole = {}
    None = None
    MaxTurns = 2
    Endings <- Answers
    QueueOutcomes <- QueuedOrLate
    HooksInOrder = FALSE
    HooksMayLose = TRUE
    TtlCoversQueue = FALSE
    MayStop = FALSE
    MayCrash = FALSE
SYMMETRY Symmetric
INVARIANTS
    AtMostOneAnswer
CHECK_DEADLOCK FALSE
