SPECIFICATION FairSpec
CONSTANTS
  Deliveries = {d1, d2}
  MaxSockets = 2
  MaxSequence = 2
  ReplayLimit = 1
  None = none
  Events = {"flap", "settings", "restart", "boot", "repost", "fail"}
CHECK_DEADLOCK FALSE
INVARIANTS
  AckedWasHandled
  SequencesDistinct
  NothingOutOfReach
PROPERTIES
  EveryDeliveryAnswered
