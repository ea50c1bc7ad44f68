SPECIFICATION FairSpec
CONSTANTS
  u1 = u1
  u2 = u2
  Nobody = nobody
  Users = {u1, u2}
  FirstStored <- SmallStored
  MaxTokens <- Two
  MaxGeneration <- SmallGeneration
  MaxRestarts <- SmallRestarts
  LastPage = 2
  LoadNumbers <- SmallLoads
  MaxOpen <- SmallOpen
  Roles <- SmallRoles
  Hooks <- SmallHooks
  MaxDepth = 4
INVARIANTS
  TypeOK
  NoGaps
  OwnScreens
  DeviceAgrees
  NothingLost
PROPERTIES
  OnlyOwn401Closes
  LoadsEnd
  StartEnds
CHECK_DEADLOCK FALSE
