\* Claims that fail, each with a counterexample: see the README.
CONSTANTS
  s1 = s1
  Sales = {s1}
  Drains = {d1}
  Refused <- OneRefused
  Limit = 2
  IntBits = 3
  MaxFailures = 0
  MaxCrashes = 0
SPECIFICATION FairSpec
PROPERTIES AcceptableRowsDelivered PaidIsFulfilled
