SPECIFICATION Spec
CONSTANTS
  Names = {n1, n2}
  Requests = {r1, r2, r3, r4}
  Nobody = nobody
  Faults = {"stop", "blur", "overlap"}
SYMMETRY Symmetry
INVARIANTS
  ReservationsProtect
  NoNameIsLost
CHECK_DEADLOCK FALSE
