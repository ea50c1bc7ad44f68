SPECIFICATION Spec
CONSTANTS
  alice = alice
  bob = bob
  Clients = {alice, bob}
  SystemFunding = system
  OpIds = {o1, o2, o3}
  NoOp = none
  Amounts <- MCAmounts
  InitialBalance <- MCInitialBalance
  MaxTransfer = 2
  MaxDaily = 3
  MinRecharge = 1
  MaxRecharge = 2
  MaxAdjustment = 2
  LastDay = 1
SYMMETRY Symmetry
INVARIANTS
  BooksBalance
  LedgerChain
  NoOverdraft
  DailyUsage
  ReversedOnce
  OutboxMatchesLedger
PROPERTIES
  LedgerAppendOnly
  InactiveOnlyReversed
  MovesMoney
