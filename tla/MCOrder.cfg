\* One single-use order with two attempts: provider, reconciler, console and archive.
CONSTANTS
  l1 = l1
  l2 = l2
  a1 = a1
  a2 = a2
  a3 = a3
  None = None
  Links = {l1}
  SingleUse = {l1}
  Attempts = {a1, a2}
  LinkOf <- OneOrder
  Creators = {c1}
  MaxRequests = 0
  ReserveOn = {TRUE, FALSE}
  NotifyOk = {TRUE}
SPECIFICATION Spec
SYMMETRY AttemptSymmetry
\* A deleted link ends the instance.
CHECK_DEADLOCK FALSE
INVARIANTS EvidenceMerge PaidClosesLink ApprovedIsPosted ReversalSettles
PROPERTIES NoStaleNotice
