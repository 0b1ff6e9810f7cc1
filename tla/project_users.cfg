SPECIFICATION Spec
CONSTANTS
    Users = {u1, u2}
    None = None
    Gone = Gone
    Kinds = {"update", "cancel", "delete", "push", "note"}
    Faults = {"docker", "save", "server"}
    MaxCalls = 2
    MaxTroubles = 2
INVARIANTS
    LifeTypeOK
    ReadyIsWhole
PROPERTIES
    DeletionFinal
CHECK_DEADLOCK FALSE
