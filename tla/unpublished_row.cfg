SPECIFICATION Spec
CONSTANTS
    MaxRevision = 2
    MaxOperations = 3
    MaxRequests = 1
    MaxWork = 1
    MaxTroubles = 0
    None = None
    Events = {"stop"}
INVARIANT RowIsProjection
CHECK_DEADLOCK FALSE
