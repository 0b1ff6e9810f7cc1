SPECIFICATION Spec
CONSTANTS
    root = root
    child = child
    grandchild = grandchild
    None = None
    Agents = {root, child, grandchild}
    Existing = {root, child}
    Users = {user}
    Parent <- Chain
    SampleLimit = 2
    MaxApplies = 0
    MaxTroubles = 0
    Events = {}
INVARIANT VolumesFound
CHECK_DEADLOCK FALSE
