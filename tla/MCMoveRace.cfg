\* One single-use order; expected to violate PairShareCreator.
CONSTANTS
  l1 = l1
  l2 = l2
  a1 = a1
  a2 = a2
  a3 = a3
  None = None
  Links = {l1}
  SingleUse = {l1}
  Attempts = {a1, a2}
  LinkOf <- OneOrder
  Creators = {c1, c2}
  MaxRequests = 1
  ReserveOn = {TRUE}
  NotifyOk = {TRUE}
SPECIFICATION KeptSpec
INVARIANTS PairShareCreator
\* A deleted link ends the instance.
CHECK_DEADLOCK FALSE
