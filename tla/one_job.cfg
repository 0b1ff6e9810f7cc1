SPECIFICATION Spec
CONSTANTS
  Prs = {p1}
  MaxHead = 1
  Deliveries = {d1}
  Owners = {w1, gone}
  Workers = {w1}
  Gone = gone
  MaxJobs = 1
  MaxRuns = 2
  MaxAttempts = 1
  None = none
  Events = {"watch", "skip", "submit", "clean", "fault", "crash"}
INVARIANTS
  LoopTypeOK
  ArchivedBeforeReceipt
PROPERTIES
  ReceiptIsFinal
