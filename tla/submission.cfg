SPECIFICATION FairSpec
CONSTANTS
  Texts = {a, b}
  MaxAttempts = 2
  MaxPosts = 3
  None = none
  Events = {"push", "crash"}
CHECK_DEADLOCK FALSE
INVARIANTS
  OneFullPost
  RecoveryAfterRefusal
  ReceiptIsReal
PROPERTIES
  IntentResolved
