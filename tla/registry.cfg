SPECIFICATION Spec
CONSTANTS
  None = None
  m1 = m1
  m2 = m2
  m3 = m3
  p1 = p1
  p2 = p2
  p3 = p3
  bound = bound
  free = free
  Providers = {p1, p2, p3}
  Models = {m1, m2, m3}
  ProviderOf <- TwoProviders
  Made = {m1, m2}
  FirstVersion <- MadeVersions
  Names = {n1, n2}
  Urls = {u1, u2}
  Versions <- AllVersions
  Bound <- BoundVersions
  Credentials = {k1}
  Signals = {s1, s2}
  Textless = {}
  Batches = {b1, b2}
  Tests = {t1}
  BatchSize = 1
  MaxAttempts = 2
  MaxCommands = 2
INVARIANT VersionIsOneSpace
INVARIANT OutcomesTrue
INVARIANT ValidationFresh
SYMMETRY Symmetry
CHECK_DEADLOCK FALSE
