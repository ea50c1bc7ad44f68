SPECIFICATION Spec
CONSTANTS
  Users = {u1, u2}
  Nobody = nobody
  Builds <- ResendBuilds
  MaxBack <- SmallBack
  MaxSends <- SmallSends
  MaxUpsets <- SmallBack
SYMMETRY Symmetry
PROPERTY DenialsAreTrue
CHECK_DEADLOCK FALSE
