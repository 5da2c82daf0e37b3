SPECIFICATION Spec
CONSTANTS
  q1 = q1
  q2 = q2
  c1 = c1
  c2 = c2
  ana = ana
  w1 = w1
  w2 = w2
  Nothing = Nothing
  Quotes <- OneQuote
  Owner <- OneOwner
  Charges <- OneCharge
  Workers <- TwoWorkers
  MaxStock = 2
  MaxRows = 1
  MaxFaults = 0
INVARIANTS
  ManualConversionWins
CHECK_DEADLOCK FALSE
