SPECIFICATION FairSpec
CONSTANTS
  q1 = q1
  q2 = q2
  c1 = c1
  c2 = c2
  ana = ana
  w1 = w1
  w2 = w2
  Nothing = Nothing
  Quotes <- TwoQuotes
  Owner <- OneOwner
  Charges <- TwoCharges
  Workers <- TwoWorkers
  MaxStock = 2
  MaxRows = 2
  MaxFaults = 1
CONSTRAINT InScope
INVARIANTS
  OrdersTypeOK
  OneSalePerQuote
  PaymentMatchesSale
  SaleIsRecorded
PROPERTIES
  PaymentsAreSettled
CHECK_DEADLOCK FALSE
