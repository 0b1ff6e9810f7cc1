SPECIFICATION Spec
CONSTANTS
  Texts = {a}
  MaxAttempts = 1
  MaxPosts = 3
  None = none
  Events = {}
CHECK_DEADLOCK FALSE
INVARIANT OneRecovery
