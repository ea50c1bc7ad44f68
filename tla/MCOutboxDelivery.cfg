SPECIFICATION DeliveryFairSpec
CONSTANTS
  Events = {e1}
  Poison = {}
  NoEvent = none
  Dispatchers = {d1}
  BatchSize = 1
  MaxAttempts = 2
  Handlers = {h1, h2}
  NoSubscription = nosub
  MaxDeliveries = 2
INVARIANTS
  PushedOnce
  AckedIsApplied
PROPERTIES
  ReadStaysRead
  PublishedIsProjected
CHECK_DEADLOCK FALSE
