CONSTANTS
    NWorkers = 2
    MaxClock = 2
SPECIFICATION FairSpec
INVARIANTS
    ScanFindsWorker
    JobHandover
    FailedIsNotTimely
PROPERTIES
    WaitReturns
    DestroyTerminates
