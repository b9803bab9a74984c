CONSTANTS
    Setups <- MCSetups
SPECIFICATION FairSpec
INVARIANTS
    NoUseAfterRequeue
    OnlyKnownLeaks
    CloseIsSafe
PROPERTIES
    CloseTerminates
    PlannedIsReleased
