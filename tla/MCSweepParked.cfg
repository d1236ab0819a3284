\* Two links, one whose amount disagrees; a batch of one, one restart.
SPECIFICATION FairSpec
CONSTANTS
  Links = {l1, l2}
  Batch = 1
  Disagree = {l1}
  MaxStops = 1
  None = None

PROPERTIES OthersAreFound
