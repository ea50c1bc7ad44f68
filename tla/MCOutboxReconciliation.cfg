SPECIFICATION ReconFairSpec
CONSTANTS
  Events = {e1, bad}
  Poison = {bad}
  NoEvent = none
  Dispatchers = {d1, d2}
  BatchSize = 1
  MaxAttempts = 2
  Operators = {p1, p2}
  Offered = {"REQUEUE_EVENT", "ACKNOWLEDGED"}
  MaxRequeues = 1
INVARIANTS
  EventsAreSafe
PROPERTIES
  QueueDrains
CHECK_DEADLOCK FALSE
