SPECIFICATION Spec
CONSTANTS
    root = root
    child = child
    grandchild = grandchild
    None = None
    Agents = {root, child, grandchild}
    Existing = {root}
    Users = {user}
    Parent <- Chain
    SampleLimit = 2
    MaxApplies = 0
    MaxTroubles = 0
    Events = {"early"}
INVARIANT NoOrphan
CHECK_DEADLOCK FALSE
