\* Two sales on two days, two creators, an agent and two payout runs at once;
\* two release requests and one settings request under way.
SPECIFICATION ApartSpec
CONSTANTS
  s1 = s1
  s2 = s2
  None = None
  Sales = {s1, s2}
  Accounts = {c1, c2}
  WithSalary = {c1}
  Agents = {g1}
  Requests = {q1, q2}
  RunTypes = {"account"}
  DayOf <- TwoDays
  LastDay = 2
  Ranges <- TwoRanges
  MaxPayouts = 2
  MaxArchived = 1
  MaxMoves = 1
  Charges = {s1, s2}
  NotRunning = NotRunning
  Gross <- SmallGross
  Rates = {0, 50}
  Releasers = {r1, r2}
  Requested = {1, 9}
  MaxEdits = 1
  MaxBegins = 5
SYMMETRY Same
INVARIANTS PaidOnceToItsOwner SalaryOncePerPeriod NeverOverdrawn
PROPERTIES OldestEntryFirst
