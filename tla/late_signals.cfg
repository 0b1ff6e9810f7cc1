SPECIFICATION Spec
CONSTANTS
  Prs = {p1}
  MaxHead = 2
  Deliveries = {d1}
  Owners = {w1, gone}
  Workers = {w1}
  Gone = gone
  MaxJobs = 2
  MaxRuns = 1
  MaxAttempts = 1
  None = none
  Events = {"push", "late", "discovery", "watch", "submit"}
PROPERTY SecondJobIsRevived
