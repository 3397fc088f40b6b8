SPECIFICATION FairSpec
CONSTANTS
    start = start
    frame = frame
    end = end
    Hooks = {start, frame, end}
    Starts = {start}
    Ends = {end}
    None = None
    Attempts = 1
    MayStop = TRUE
    MayCrash = TRUE
    MayRecycle = TRUE
    HooksMayOutlive = TRUE
INVARIANTS
    TypeOK
    OneServes
    ServerCanBeFound
PROPERTIES
    DeadBridgeReplaced
    BridgesEndWithCodex
CHECK_DEADLOCK FALSE
