SPECIFICATION FairSpec
CONSTANTS
    r1 = r1
    r2 = r2
    Reqs = {r1, r2}
    MaxStarts = 2
INVARIANTS
    TypeOK
    RelayedAtMostOnce
    ReportsAreTrue
PROPERTIES
    DroppedIsAnswered
    ImplementsSends
CHECK_DEADLOCK FALSE
