SPECIFICATION Spec
CONSTANTS
  Prs = {1}
  MaxHead = 2
  Deliveries = {d1, d2, d3}
  Pool = pool
  Owners = {pool}
  MaxJobs = 5
  MaxRuns = 1
  MaxAttempts = 1
  None = none
  PageSize = 1
  MaxChanges = 4
  Events = {"push", "ci", "close", "draft", "hook", "lost", "watch"}
CHECK_DEADLOCK FALSE
INVARIANTS
  AskedIsKept
  NoSecondReview
