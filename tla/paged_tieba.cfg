SPECIFICATION FairSpec
CONSTANTS
  None = None
  Admins = {a1}
  Crawls = {c1}
  Targets = {}
  MaxNow = 0
  Style = "unit"
  PageSize = 4
  Unit = 2
  Limits = {2}
  FirstPosts = 4
  MaxPosts = 5
  MaxFaults = 0
  MaxResets = 0
PROPERTY EveryPostStored
CHECK_DEADLOCK FALSE
