SPECIFICATION FairSpec
CONSTANTS
  Prs = {1, 2}
  MaxHead = 2
  Deliveries = {}
  Pool = pool
  Owners = {pool}
  MaxJobs = 3
  MaxRuns = 1
  MaxAttempts = 1
  None = none
  PageSize = 1
  MaxChanges = 1
  Events = {"push", "ci", "rerun", "close", "reopen", "watch", "scan", "error", "crash"}
CHECK_DEADLOCK FALSE
PROPERTIES
  EveryWishAnswered
  ClosedIsForgotten
