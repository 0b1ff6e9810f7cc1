SPECIFICATION FairSpec
CONSTANTS
    Users = {u1}
    None = None
    Gone = Gone
    Kinds = {"update", "cancel", "delete", "push", "note"}
    Faults = {"docker", "save", "server"}
    MaxCalls = 3
    MaxTroubles = 2
INVARIANTS
    ReadyIsWhole
PROPERTIES
    DeletionFinal
    DeletionFinishes
    CloneSettles
CHECK_DEADLOCK FALSE
