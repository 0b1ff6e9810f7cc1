SPECIFICATION Spec
CONSTANTS
    Users = {u1}
    None = None
    Gone = Gone
    Kinds = {"update"}
    Faults = {}
    MaxCalls = 1
    MaxTroubles = 0
PROPERTIES
    ReadyLasts
CHECK_DEADLOCK FALSE
