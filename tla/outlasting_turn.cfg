SPECIFICATION FairSpec
CONSTANTS
    root = root
    child = child
    grandchild = grandchild
    None = None
    Agents = {root, child, grandchild}
    Existing = {root, child}
    Users = {user}
    Parent <- Chain
    SampleLimit = 2
    MaxApplies = 2
    MaxTroubles = 1
    Events = {"outlast"}
PROPERTY CallsSettle
CHECK_DEADLOCK FALSE
