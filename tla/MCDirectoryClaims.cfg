\* Claims that fail, each with a counterexample: see the README.
SPECIFICATION ApartSpec
CONSTANTS
  Currencies = {usd, eur, gbp}
  Links = {l1}
  Requests = {r1, r2}
  FirstBase = usd
  MarketplaceOrders = TRUE
  NoRow = NoRow
  Payments = {p1, p2}
  p1 = p1
  p2 = p2
  CustomerIds = {c1}
  Categories = {g1}
  Forms = {f1, f2}
  Day <- Days
  Mine = {p1}
  Theirs = {p2}
  Nobody = Nobody
  Users = {u1, u2, u3}
  Founder = u1
  Keys = {k1}
  NoKey = NoKey
  MaxPending = 2
  MaxChanges = 4
SYMMETRY DirectorySymmetry
CHECK_DEADLOCK FALSE
INVARIANTS TypeComesWithProfile OnePersonOneThing BaseAllowed LastPurchaseIsNewest
INVARIANTS OwnerHoldsAll SeatFollowsRole OwnerIsActive OperatorHasNoProfile
