SPECIFICATION FairSpec
CONSTANTS
  Schedules = {s1}
  Procs = {p1, p2}
  None = None
  ClaimLease = 1
  RunLease = 3
  Interval = 2
  MaxTime = 6
INVARIANT OneRunPerSchedule
PROPERTY SlotHistory
PROPERTY KeepsTriggering
PROPERTY RiskPauses
PROPERTY DueProgress
PROPERTY ImplementsLifecycle
CHECK_DEADLOCK FALSE
