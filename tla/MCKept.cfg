\* Console requests and the provider on one order, single-use or reusable; nothing is archived.
CONSTANTS
  l1 = l1
  l2 = l2
  a1 = a1
  a2 = a2
  a3 = a3
  None = None
  Links = {l1, l2}
  SingleUse = {l1}
  Attempts = {a1, a2, a3}
  LinkOf <- TwoOrders
  Creators = {c1, c2}
  MaxRequests = 1
  ReserveOn = {TRUE}
  NotifyOk = {TRUE}
SPECIFICATION KeptSpec
SYMMETRY OrderSymmetry
CONSTRAINT OneLinkExists
INVARIANTS LinkTellsPayment OneSalePerOrder ReusableStaysOpen
PROPERTIES MoneySticks
\* A deleted link ends the instance.
CHECK_DEADLOCK FALSE
