SPECIFICATION Spec
CONSTANTS
    Users = {u1}
    None = None
    Gone = Gone
    Kinds = {"delete"}
    Faults = {}
    MaxCalls = 1
    MaxTroubles = 0
INVARIANTS
    DeletionShown
CHECK_DEADLOCK FALSE
