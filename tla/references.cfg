SPECIFICATION FairSpec
CONSTANTS
    MaxRevision = 2
    MaxOperations = 3
    MaxRequests = 1
    MaxWork = 1
    MaxTroubles = 1
    None = None
    Events = {"stop"}
INVARIANTS
    EnvironmentKept
PROPERTIES
    GateIsHeld
    TurnsSeeTheConfiguration
    AppliedOrFailed
CHECK_DEADLOCK FALSE
