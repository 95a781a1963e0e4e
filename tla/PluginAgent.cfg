\* Launching an app with its plugins, and plugins that throw on a running app.
SPECIFICATION FairSpec
CONSTANTS
  d1 = d1
  d2 = d2
  k1 = k1
  c1 = c1
  c2 = c2
  Dexes = {d1, d2}
  Classes = {k1}
  Covers <- PrefixCovers
  Configs = {c1, c2}
  Null = Null
  Unparsed = Unparsed
  Setups <- MCSetups
INVARIANTS
  TypeOK
  CallsInOrder
  NeverStaleConfig
  CachedPluginsCanBeUnloaded
PROPERTIES
  EarlyPluginsServed
CHECK_DEADLOCK FALSE
