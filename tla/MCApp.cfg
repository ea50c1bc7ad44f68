SPECIFICATION Spec
CONSTANTS
  Users = {u1, u2}
  Nobody = nobody
  Builds <- SmallBuilds
  MaxBack <- SmallBack
  MaxSends <- SmallSends
  MaxUpsets <- SmallBack
SYMMETRY Symmetry
INVARIANTS
  TypeOK
  NoDemoScreens
PROPERTIES
  LateAnswersMoveNobody
  SuccessIsEarned
  RefusalsAreTrue
CHECK_DEADLOCK FALSE
