SPECIFICATION ClientSpec
CONSTANTS
  Keys = {k1, k2}
  Bodies = {b1, b2}
  Requests = {r1, r2, r3}
  Nobody = nobody
  MaxLives = 1
SYMMETRY Symmetry
INVARIANTS
  ConfirmationsAreNew
  NoKeyConflicts
CHECK_DEADLOCK FALSE
