SPECIFICATION Spec
CONSTANTS
    m1 = m1
    m2 = m2
    c1 = c1
    c2 = c2
    Msgs = {m1, m2}
    Subs = {c1}
    SubSock <- OwnSock
    NoReply = {}
    Matching <- OwnShortId
    Whole = {}
    None = None
    MaxTurns = 2
    Endings <- OftenAnswers
    QueueOutcomes <- NeverLate
    HooksInOrder = TRUE
    HooksMayLose = FALSE
    TtlCoversQueue = TRUE
    MayStop = TRUE
    MayCrash = TRUE
SYMMETRY Symmetric
INVARIANTS
    TypeOK
    AtMostOneOutcome
    ActiveIsPending
    AnswerFromOwnTurn
    StatusTracksTurn
PROPERTIES
    ImplementsLedger
CHECK_DEADLOCK FALSE
