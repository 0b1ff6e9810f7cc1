SPECIFICATION Spec
CONSTANTS
  Prs = {p1, p2}
  MaxHead = 1
  Deliveries = {}
  Owners = {w1, w2, gone}
  Workers = {w1, w2}
  Gone = gone
  MaxJobs = 2
  MaxRuns = 1
  MaxAttempts = 1
  None = none
  Events = {}
SYMMETRY WorkerSymmetry
INVARIANT OneReviewer
PROPERTIES
  ClaimWaitsForLeases
  SlowWorkerIsHarmless
