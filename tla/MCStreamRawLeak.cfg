CONSTANTS
    Setups <- MCRawOnly
SPECIFICATION Spec
INVARIANTS
    NoLeakedRef
