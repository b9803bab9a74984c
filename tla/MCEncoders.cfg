CONSTANTS
    BufCounts = {1, 2}
    Geometries <- MCGeometries
    IoMethods = {"MMAP", "USERPTR"}
    DmaRequired = FALSE
    EncType = "M2M"
    NWorkers = 1
    Blank <- MCBlank
SPECIFICATION EncodersFairSpec
INVARIANTS
    EncodedIsOfThisFrame
    NoBufferLeftBehind
    EncoderHoldsNothing
PROPERTIES
    KeyIsServed
