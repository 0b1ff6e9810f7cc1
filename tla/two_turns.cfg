SPECIFICATION Spec
CONSTANTS
  Texts = {a}
  MaxAttempts = 2
  MaxPosts = 2
  None = none
  Events = {"silent"}
CHECK_DEADLOCK FALSE
INVARIANT OneFullPost
