SPECIFICATION SaleSpec
CONSTANTS
  centro = centro
  w1 = w1
  w2 = w2
  nobody = nobody
  s1 = s1
  s2 = s2
  t1 = t1
  notoken = notoken
  Branches <- MCBranches
  Products <- MCProducts
  Workers <- MCWorkers
  Nobody <- nobody
  OpeningStock <- TwoAndOne
  Quantities <- MCQuantities
  MaxStock = 3
  Sales <- TwoSales
  Tokens <- MCTokens
  NoToken <- notoken
  Payments <- CashOrCard
  MaxRev = 2
SYMMETRY WorkerSymmetry
CONSTRAINT
  InScope
INVARIANTS
  SaleTypeOK
  StockFollowsSale
  TreasuryFollowsSale
  NoDoublePosting
  UnitsConserved
  OneSalePerToken
PROPERTY
  AnnulledStaysAnnulled
