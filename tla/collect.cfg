SPECIFICATION Spec
CONSTANTS
  r1 = r1
  r2 = r2
  connector = connector
  task = task
  Runs <- TwoRuns
  Budgets <- TwoBudgets
  Scope <- TwoScopes
  MaxRuns <- RunsPerDay
  MaxItems <- ItemsPerDay
  MaxActive <- TwoAtOnce
  Limit = 2
  AdminOps <- AllOps
  MaxDay = 1
  MaxFeed = 2
  MaxResets = 1
INVARIANT BooksBalance
INVARIANT WithinBudget
INVARIANT SettlesUndisturbed
INVARIANT CheckpointCovers
PROPERTY TerminalFinal
PROPERTY CheckpointForward
CHECK_DEADLOCK FALSE
