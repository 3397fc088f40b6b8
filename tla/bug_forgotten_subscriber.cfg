SPECIFICATION FairSpec
CONSTANTS
    m1 = m1
    m2 = m2
    c1 = c1
    c2 = c2
    Msgs = {m1}
    Subs = {c1}
    SubSock <- OwnSock
    NoReply = {}
    Matching <- OwnShortId
    Whole = {}
    None = None
    MaxTurns = 1
    Endings <- Answers
    QueueOutcomes <- MayRefuse
    HooksInOrder = TRUE
    HooksMayLose = FALSE
    TtlCoversQueue = TRUE
    MayStop = FALSE
    MayCrash = FALSE
PROPERTIES
    EverySubscriberTold
CHECK_DEADLOCK FALSE
