SPECIFICATION FairSpec
CONSTANTS
  None = None
  Admins = {a1}
  Crawls = {c1, c2}
  Targets = {"healthy", "cooldown"}
  MaxNow = 1
  Style = "fixed"
  PageSize = 2
  Unit = 2
  Limits = {3}
  FirstPosts = 4
  MaxPosts = 5
  MaxFaults = 1
  MaxResets = 1
INVARIANT RiskStands
INVARIANT PagesCover
INVARIANT CycleCovers
PROPERTY EveryPostStored
CHECK_DEADLOCK FALSE
