SPECIFICATION ClientSpec
CONSTANTS
  Keys = {k1, k2}
  Bodies = {b1}
  Requests = {r1, r2}
  Nobody = nobody
  MaxLives = 1
INVARIANTS
  RejectedHasNoEffect
CHECK_DEADLOCK FALSE
