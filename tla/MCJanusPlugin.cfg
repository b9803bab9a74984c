CONSTANTS
    s1 = s1
    s2 = s2
    Sessions = {s1, s2}
    Callbacks = {t1}
    RingSize = 1
    ClientRing = 1
    Visitors <- MCVisitors
    NoOne = NoOne
SPECIFICATION FairSpec
CHECK_DEADLOCK FALSE
INVARIANTS
    FlagsMatchClients
    WalksAreSafe
PROPERTIES
    WatcherGetsKey
    AudioIsReleased
    DestroysEnd
