\* Two apps of one uid and two launches; and the table under another client's
\* calls, with system packages whose names begin with each other.
SPECIFICATION FairSpec
CONSTANTS
  a = a
  b = b
  s = s
  sx = sx
  t = t
  app = app
  sys = sys
  Packages = {a, b, s, sx, t}
  Uids = {app, sys}
  SystemUids = {sys}
  UidOf <- UidOfAll
  Prefixes <- PrefixesOfAll
  NO_FILTER = NO_FILTER
  Residue = Residue
  Null = Null
  maxLaunchCount = 1
  Setups <- MCSetups
INVARIANTS
  TypeOK
  LaunchedIsInjected
  InjectionsWithinBudget
  TableIsExact
PROPERTIES
  NobodyWaitsForever
CHECK_DEADLOCK FALSE
