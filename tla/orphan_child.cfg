SPECIFICATION Spec
CONSTANTS
    root = root
    child = child
    grandchild = grandchild
    None = None
    Agents = {root, child, grandchild}
    Existing = {root, child}
    Users = {user}
    Parent <- Chain
    SampleLimit = 2
    MaxApplies = 0
    MaxTroubles = 1
    Events = {"reclaim"}
INVARIANT NoOrphan
CHECK_DEADLOCK FALSE
