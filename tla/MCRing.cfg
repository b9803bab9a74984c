CONSTANTS
    Capacity = 3
    Producers = {p1}
    Consumers = {c1, c2}
    Values = {v1, v2}
    Torn = torn
    Blank = blank
SPECIFICATION FairSpec
INVARIANTS
    NoSlotShared
    ReleaseNeverFails
    ReadsAreStable
PROPERTIES
    ImplementsFifo
    SlotComesBack
