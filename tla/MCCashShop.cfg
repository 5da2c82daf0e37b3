SPECIFICATION Spec
CONSTANTS
  centro = centro
  norte = norte
  r1 = r1
  r2 = r2
  r3 = r3
  ana = ana
  beto = beto
  c1 = c1
  c2 = c2
  t1 = t1
  t2 = t2
  w1 = w1
  w2 = w2
  Nobody = Nobody
  Registers <- AllRegisters
  Workers <- TwoWorkers
  Amounts <- OneUnit
  Branches <- TwoBranches
  BranchOf <- TwoShops
  Defaults <- FirstOfEach
  Users <- AnaAndBeto
  Admins <- OnlyAna
  Sessions <- TwoSessions
  Transfers <- TwoTransfers
  MaxCash = 1
  Workload <- ShopWork
SYMMETRY RowSymmetry
CONSTRAINT
  InScope
INVARIANTS
  CashTypeOK
  OneSessionPerRegister
  OpenSessionsHaveActiveRegister
  TransferRowsMatchStatus
PROPERTIES
  ServedOneAtATime
  ClosingCountsEverything
  DispatchNeverOverdraws
