SPECIFICATION Spec
CONSTANTS
  Texts = {a}
  MaxAttempts = 1
  MaxPosts = 1
  None = none
  Events = {}
CHECK_DEADLOCK FALSE
INVARIANT UnresolvedIsReconciled
