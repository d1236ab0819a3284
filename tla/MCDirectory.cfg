\* Three currencies, a link and two requests on the pricing side; two
\* payments, a customer and two open forms; three people, a custom role and
\* two requests of theirs under way at once.
SPECIFICATION ApartSpec
CONSTANTS
  Currencies = {usd, eur, gbp}
  Links = {l1}
  Requests = {r1, r2}
  FirstBase = usd
  MarketplaceOrders = TRUE
  NoRow = NoRow
  Payments = {p1, p2}
  p1 = p1
  p2 = p2
  CustomerIds = {c1}
  Categories = {g1}
  Forms = {f1, f2}
  Day <- Days
  Mine = {p1}
  Theirs = {p2}
  Nobody = Nobody
  Users = {u1, u2, u3}
  Founder = u1
  Keys = {k1}
  NoKey = NoKey
  MaxPending = 2
  MaxChanges = 4
SYMMETRY DirectorySymmetry
CHECK_DEADLOCK FALSE
INVARIANTS EveryLinkIsReported ProfileMatchesSeat
PROPERTIES LinkMeetsSettings ErasedStaysErased OwnerKept OwnSeatOutlivesOffice

