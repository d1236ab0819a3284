\* A claim that fails, with a counterexample: see the README.
CONSTANTS
  c1 = c1
  None = None
  Charges = {c1}
  Deliveries = {d1}
  Refused <- NoneRefused
  MaxFailures = 1
  MaxCrashes = 0
SPECIFICATION Spec
INVARIANTS StaleMeansMissing
