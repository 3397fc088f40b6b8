SPECIFICATION Spec
CONSTANTS
    b1 = b1
    b2 = b2
    b3 = b3
    x = x
    w1 = w1
    w2 = w2
    Bridges = {b1}
    Thread <- MCThread
    Pid <- MCPid
    Clients = {x}
    Covers <- InB1
    Snappers = {w1, w2}
    First = w1
    Failing = {}
    None = None
INVARIANTS
    LiveBridgeFound
CHECK_DEADLOCK FALSE
