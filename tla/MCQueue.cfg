CONSTANTS
    Capacity = 2
    Putters = {p1, p2}
    Getters = {g1, g2}
    Values = {v1, v2}
    NoItem = none
SPECIFICATION FairSpec
INVARIANTS
    NoSleepingGetter
PROPERTIES
    WaiterIsWoken
    ImplementsFifo
