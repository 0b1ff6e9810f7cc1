SPECIFICATION Spec
CONSTANTS
    Users = {u1}
    None = None
    Gone = Gone
    Kinds = {"delete", "push"}
    Faults = {}
    MaxCalls = 2
    MaxTroubles = 0
INVARIANTS
    DeletedIsGone
CHECK_DEADLOCK FALSE
