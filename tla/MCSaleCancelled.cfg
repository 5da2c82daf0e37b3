SPECIFICATION SaleSpec
CONSTANTS
  centro = centro
  w1 = w1
  w2 = w2
  nobody = nobody
  s1 = s1
  s2 = s2
  t1 = t1
  notoken = notoken
  Branches <- MCBranches
  Products <- MCProducts
  Workers <- MCWorkers
  Nobody <- nobody
  OpeningStock <- OneOfEach
  Quantities <- MCQuantities
  MaxStock = 2
  Sales <- OneSale
  Tokens <- MCTokens
  NoToken <- notoken
  Payments <- CashOnly
  MaxRev = 2
SYMMETRY WorkerSymmetry
PROPERTY
  CancelledSaleIsImmutable
