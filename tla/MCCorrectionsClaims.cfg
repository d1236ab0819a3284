\* Claims that fail, each with a counterexample: see the README.
CONSTANTS
  a1 = a1
  a2 = a2
  g1 = g1
  n1 = n1
  n2 = n2
  nTest = nTest
  s1 = s1
  s2 = s2
  sTest = sTest
  sg = sg
  l1 = l1
  p1 = p1
  t1 = t1
  e1 = e1
  p2 = p2
  t2 = t2
  e2 = e2
  l3 = l3
  p3 = p3
  t3 = t3
  e3 = e3
  None = None
  Keep = Keep
  Unknown = Unknown
  Accounts = {a1, a2}
  Agents = {g1}
  Names = {n1, n2, nTest}
  Pcts = {0, 60}
  Existing <- TargetCreators
  Patches <- SomeBodies
  MaxPending = 2
  MaxEdits = 4
  SourceAccounts = {s1, s2, sTest}
  Excluded = {sTest}
  CanonicalName <- Canonical
  HasAlias = {}
  SameLogin <- Logins
  SourceAgents = {sg}
  SameAgent <- AgentLogins
  Rows = {l1, p1, t1, e1, p2, t2, e2, l3, p3, t3, e3}
  Table <- Tables
  Parent <- Parents
  Owner <- OwnersMixed
  Seller <- Sellers
  Labelled = {p1}
  PaidOut = {}
  Runs = {r1, r2}
  KeyOf <- Keys
  Null = Null
  RateCard = RateCard
  FeeRuns = {f1, f2}
  Fees = {0, 1, 2}
  MaxReposts = 1
SPECIFICATION ApartSpec
SYMMETRY CorrectionSymmetry
CHECK_DEADLOCK FALSE
INVARIANTS NamesDistinct RoomForEveryAgent EntryCarriesFee EntryFollowsPayment EveryRowAccountedFor
PROPERTIES NotificationWordingKept
