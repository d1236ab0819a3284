\* Five watched keys, a retry, an unread event; two impersonations; an
\* editor with two partners, or with two permission lists and a custom role, and
\* one write by another client.
SPECIFICATION ApartSpec
CONSTANTS
  Watched <- WatchedKeys
  Pages <- SomePages
  Ops <- SomeOps
  Observes <- SomeObserves
  RunsOn <- SomeRunsOn
  Changes <- SomeChanges
  Lists <- SomeLists
  OutOfReach <- Unreached
  Retries = 1
  MaxUnread = 1
  None = None
  Grants = {1, 2}
  Nothing = Nothing
  Waiting = Waiting
  Partners = {p1, p2}
  PermissionLists = {"all", "few"}
  CustomRoles <- OwnRole
  ListOf <- OwnList
  DefaultList <- Defaults
  MaxOthers = 1
  Empty = Empty
SYMMETRY EditorSymmetry
CHECK_DEADLOCK FALSE
INVARIANTS ShownIsCaughtUp RowsMatchHeader RosterAsChosen SeatAsChosen
