CONSTANTS
    Clients = {c1}
    DualClients = {c1}
    Snappers = {s1}
    Pics = {p1}
    Blank = blank
    RingSize = 1
    DropSame = 1
    NWorkers = 1
    ExitOnIdle = TRUE
    MaxRequested = 2
SPECIFICATION FairSpec
CHECK_DEADLOCK FALSE
INVARIANTS
    NoClientLeftBehind
PROPERTIES
    SnapshotFollowsACount
    SnapshotIsAnswered
    StopEnds
    IdleServerExits
