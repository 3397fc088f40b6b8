SPECIFICATION Spec
CONSTANTS
    b1 = b1
    b2 = b2
    b3 = b3
    x = x
    w1 = w1
    w2 = w2
    Bridges = {b1, b2, b3}
    Thread <- MCThread
    Pid <- MCPid
    Clients = {x}
    Covers <- NotInB1
    Snappers = {w1}
    First = w1
    Failing = {b1}
    None = None
INVARIANTS
    TypeOK
    LiveBridgeFound
    EndedNotChosen
CHECK_DEADLOCK FALSE
