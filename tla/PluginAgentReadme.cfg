SPECIFICATION Spec
CONSTANTS
  d1 = d1
  d2 = d2
  k1 = k1
  Dexes = {d1}
  Classes = {k1}
  Covers <- OneDexCovers
  c1 = c1
  c2 = c2
  Configs = {c1}
  Null = Null
  Unparsed = Unparsed
  Setups <- ReadmeSetups
INVARIANTS
  BeforeApplicationCreatePrecedesOnCreate
CHECK_DEADLOCK FALSE
