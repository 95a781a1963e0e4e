\* A byte of a text's length has 2 values, a content's length 48.
CONSTANTS
  Base = 2
  Cap = 48
  Setups <- MCSetups
  Samples <- MCSamples
SPECIFICATION Spec
INVARIANTS TypeOK CallsReachTheirMethod ArgumentsArrive ResultsArrive BroadcastsUnderstood
CHECK_DEADLOCK FALSE
