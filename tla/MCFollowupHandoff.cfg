SPECIFICATION Spec
CONSTANTS
  s1 = s1
  s2 = s2
  cron = cron
  cart = cart
  other = other
  dear = dear
  cheap = cheap
  Nobody = Nobody
  NoItems = NoItems
  ListPrice = dear
  FirstDelay = 0
  SecondDelay = 1
  MaxReminders = 1
  StaleAfter = 1
  Lease = 1
  Backoff = 1
  MaxSends = 2
  MaxClock = 1
  MaxMessages = 1
  MaxRequests = 1
  MaxFaults = 1
  Schedulers <- OneThread
  Crons <- NoCron
  Carts <- OneCart
  Prices <- OnePrice
  Workload <- PanelOnly
PROPERTY NoReminderDuringHandoff
