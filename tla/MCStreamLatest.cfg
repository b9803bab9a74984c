CONSTANTS
    Setups <- MCJpegOnly
SPECIFICATION Spec
PROPERTIES
    LatestIsFreshest
