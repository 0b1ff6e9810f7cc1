SPECIFICATION Spec
CONSTANTS
    MaxRevision = 2
    MaxOperations = 3
    MaxRequests = 1
    MaxWork = 1
    MaxTroubles = 1
    None = None
    Events = {}
INVARIANT SupersededIsConverged
CHECK_DEADLOCK FALSE
