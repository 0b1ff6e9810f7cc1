SPECIFICATION FairSpec
CONSTANTS
  Prs = {p1}
  MaxHead = 1
  Deliveries = {}
  Owners = {w1, gone}
  Workers = {w1}
  Gone = gone
  MaxJobs = 1
  MaxRuns = 2
  MaxAttempts = 2
  None = none
  Events = {"discovery", "submit", "stop", "crash"}
INVARIANT RunsBelong
PROPERTIES
  NoSecondAttempt
  EventuallyReleased
  EventuallyArchived
