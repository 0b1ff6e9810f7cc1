SPECIFICATION FairSpec
CONSTANTS
  Deliveries = {d1, d2}
  MaxSockets = 2
  MaxSequence = 2
  ReplayLimit = 2
  None = none
  Events = {"fail"}
CHECK_DEADLOCK FALSE
PROPERTIES
  FailedIsRedelivered
