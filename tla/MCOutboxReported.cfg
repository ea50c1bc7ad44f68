SPECIFICATION ReconSpec
CONSTANTS
  Events = {e1}
  Poison = {}
  NoEvent = none
  Dispatchers = {d1}
  BatchSize = 1
  MaxAttempts = 1
  Operators = {p1}
  Offered = {"REQUEUE_EVENT", "ACKNOWLEDGED", "FALSE_POSITIVE", "ADJUSTED"}
  MaxRequeues = 2
INVARIANTS
  GivenUpIsReported
CHECK_DEADLOCK FALSE
