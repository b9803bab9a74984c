CONSTANTS
    BufCounts = {2}
    Geometries <- MCGeometries
    IoMethods = {"MMAP"}
    DmaRequired = TRUE
    Modes <- MCModes
SPECIFICATION FairSpec
CHECK_DEADLOCK FALSE
INVARIANTS
    DevicesHoldNothing
    DrmAssertsHold
    FlipIsSafe
PROPERTIES
    VideoComesBack
    DisplayTurnsOff
