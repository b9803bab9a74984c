CONSTANTS
    BufCounts = {1, 2}
    Geometries <- MCGeometries
    IoMethods = {"MMAP", "USERPTR"}
    DmaRequired = FALSE
    EncType = "M2M"
    NWorkers = 2
    Blank <- MCBlank
SPECIFICATION EncodersSpec
INVARIANTS
    M2msFit
