SPECIFICATION FairSpec
CONSTANTS
    root = root
    child = child
    grandchild = grandchild
    None = None
    Agents = {root, child, grandchild}
    Existing = {root, child}
    Users = {user}
    Parent <- Chain
    SampleLimit = 2
    MaxApplies = 1
    MaxTroubles = 1
    Events = {}
INVARIANTS
    TreeTypeOK
    NoOrphan
    NothingLeft
PROPERTIES
    CallsSettle
CHECK_DEADLOCK FALSE
