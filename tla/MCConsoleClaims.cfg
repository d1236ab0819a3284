\* Claims that fail, each with a counterexample: see the README.
SPECIFICATION ApartSpec
CONSTANTS
  Watched <- WatchedKeys
  Pages <- SomePages
  Ops <- SomeOps
  Observes <- SomeObserves
  RunsOn <- SomeRunsOn
  Changes <- SomeChanges
  Lists <- SomeLists
  OutOfReach <- Unreached
  Retries = 1
  MaxUnread = 1
  None = None
  Grants = {1, 2}
  Nothing = Nothing
  Waiting = Waiting
  Partners = {p1, p2}
  PermissionLists = {"all", "few"}
  CustomRoles <- OwnRole
  ListOf <- OwnList
  DefaultList <- Defaults
  MaxOthers = 1
  Empty = Empty
SYMMETRY EditorSymmetry
CHECK_DEADLOCK FALSE
INVARIANTS ShownFollowsCommits RowsAreTheirs ReactivatedCanBeAssigned
INVARIANTS RosterAsChosenAlone GrantsAsChosen StatusAsChosen SeatAsChosenAfterAll
PROPERTIES RosterLeftAlone
