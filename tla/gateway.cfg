SPECIFICATION FairSpec
CONSTANTS
  None = None
  c1 = c1
  c2 = c2
  global = global
  provider = provider
  Calls <- TwoCalls
  Budgets <- TwoBudgets
  priced = priced
  unpriced = unpriced
  Models <- TwoModels
  Route <- Routes
  Scope <- Scopes
  Price <- Prices
  Retries <- RetryUnpriced
  Costs <- EstimateOrTwice
  Rules <- ProviderRules
  FirstRule <- FirstRules
  MaxDay = 1
  MaxDead = 1
INVARIANT BooksMatchAudit
INVARIANT UnknownOnce
PROPERTY OnlyAnswersOverrun
PROPERTY InvocationEnds
CHECK_DEADLOCK FALSE
