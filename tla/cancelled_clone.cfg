SPECIFICATION Spec
CONSTANTS
    Users = {u1}
    None = None
    Gone = Gone
    Kinds = {"cancel"}
    Faults = {}
    MaxCalls = 1
    MaxTroubles = 0
PROPERTIES
    CancelLasts
CHECK_DEADLOCK FALSE
