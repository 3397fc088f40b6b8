SPECIFICATION Spec
CONSTANTS
    a = a
    b = b
    x = x
    Accounts = 2
    Flaky = {1}
    Bridges = {a, b}
    Pid <- MCPid
    Name <- MCName
    Ref <- MCRef
    Senders = {x}
    Wanted <- MCWanted
    None = None
INVARIANTS
    TypeOK
    RecordShowsStatus
    NothingLeftBehind
    LivePeerReached
CHECK_DEADLOCK FALSE
