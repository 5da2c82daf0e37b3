SPECIFICATION FairSpec
CONSTANTS
  c1 = c1
  c2 = c2
  w1 = w1
  w2 = w2
  Nothing = Nothing
  MaxSubs = 3
  Charges <- TwoCharges
  Workers <- TwoWorkers
  MaxVersion = 3
  MaxFaults = 1
CONSTRAINT InScope
INVARIANTS
  BillingTypeOK
  OneOfEach
  PeriodsArePaid
PROPERTIES
  PaidAccessKept
  PaymentsAreAnswered
CHECK_DEADLOCK FALSE
