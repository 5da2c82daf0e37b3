SPECIFICATION Spec
CONSTANTS
  centro = centro
  norte = norte
  w1 = w1
  w2 = w2
  nobody = nobody
  Branches <- MCBranches
  Products <- MCProducts
  Workers <- MCWorkers
  Nobody <- nobody
  OpeningStock <- MCOpening
  Quantities <- MCQuantities
  MaxStock = 2
SYMMETRY WorkerSymmetry
INVARIANTS
  TypeOK
  NoNegativeStock
  LedgerMatchesStock
  AggregateMatchesBranches
  StagedIsCurrent
  OrderedRequestsNeverDeadlock
PROPERTY
  Serializable
