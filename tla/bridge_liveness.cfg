SPECIFICATION FairSpec
CONSTANTS
    m1 = m1
    m2 = m2
    c1 = c1
    c2 = c2
    Msgs = {m1}
    Subs = {c1, c2}
    SubSock <- SharedSock
    NoReply = {}
    Matching <- OwnShortId
    Whole = {m1}
    None = None
    MaxTurns = 2
    Endings <- Answers
    QueueOutcomes <- NeverFails
    HooksInOrder = TRUE
    HooksMayLose = FALSE
    TtlCoversQueue = TRUE
    MayStop = FALSE
    MayCrash = FALSE
INVARIANTS
    NoForgottenSubscriber
    OneNoticePerSubscription
PROPERTIES
    EveryRequestSettled
    EverySubscriberTold
CHECK_DEADLOCK FALSE
