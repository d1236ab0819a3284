\* Two drains over one sale's events: overlap, timeouts, an overflow and a crash.
CONSTANTS
  s1 = s1
  Sales = {s1}
  Drains = {d1, d2}
  Refused <- NoneRefused
  Limit = 1
  IntBits = 3
  MaxFailures = 2
  MaxCrashes = 1
SPECIFICATION FairSpec
PROPERTIES ImplementsDelivery EveryRowDelivered ReversalIsTold
