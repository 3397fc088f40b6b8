SPECIFICATION CommandsSpec
CONSTANTS
    oldInstall = oldInstall
    newInstall = newInstall
    oldPython = oldPython
    newPython = newPython
    foreign = foreign
    Installs = {oldInstall, newInstall}
    Events = {"Start", "Stop"}
    Interpreters = {oldPython, newPython}
    RunBy <- MCRunBy
    Others = {foreign}
    Nobody = Nobody
    MaxEdits = 2
    TailBytes = 4
    LineSizes = {2, 3}
    UsageSizes = {1, 2}
    Unknown = Unknown
    MaxLines = 3
    shortAnswer = shortAnswer
    longAnswer = longAnswer
    otherAnswer = otherAnswer
    Requests = {shortAnswer, longAnswer, otherAnswer}
    Chars <- MCChars
    Limit = 2
    ShortId <- MCShortId
    WithoutMatch = WithoutMatch
    first = first
    second = second
    stranger = stranger
    Spawns = {first, second}
    Strangers = {stranger}
    Dir <- MCDir
    TmuxName <- MCTmuxName
    Prompted = {second}
    NoSession = NoSession
    MaxNow = 3
INVARIANTS
    CommandsTypeOK
    VerdictIsTrue
    NothingLeft
    HooksFileWhole
    AdviceHelps
    NotedReplyCanBeRead
    NoStrayKeys
    WaitsForWhatComes
PROPERTIES
    SelfTestEnds
    OthersUntouched
    ShownIsLast
    SpawnReports
CHECK_DEADLOCK FALSE
