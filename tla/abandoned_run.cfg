SPECIFICATION Spec
CONSTANTS
  Prs = {p1}
  MaxHead = 1
  Deliveries = {}
  Owners = {w1, gone}
  Workers = {w1}
  Gone = gone
  MaxJobs = 1
  MaxRuns = 1
  MaxAttempts = 1
  None = none
  Events = {"submit"}
PROPERTY RunReleasedArchived
