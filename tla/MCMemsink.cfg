CONSTANTS
    Clients = {c1, c2}
    JanusClients = {j1}
    Nobody = nobody
SPECIFICATION FairSpec
INVARIANTS
    TornOnlyAfterCrash
PROPERTIES
    KeyRequestIsServed
    NobodyIsIgnored
