\* One browser tab with its two refreshers; three refresh tokens.
CONSTANTS
  Tabs = {b1}
  Tokens <- ThreeTokens
  Inactivity = 2
  Absolute = 2
  SignInTokens <- TwoSignIns
  MaxReloads = 1
SPECIFICATION FairSpec
INVARIANTS OneLivePerFamily ReuseEndsFamily
PROPERTIES RefreshAnswered EndedSessionLeavesConsole
CHECK_DEADLOCK FALSE
