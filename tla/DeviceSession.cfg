\* The three cached clients: two callers of the first, three connections of the
\* second, two of the third with their loops.
CONSTANTS
  u1 = u1
  u2 = u2
  Callers = {u1, u2}
  Monitor = Monitor
  Loops = {l1, l2}
  MaxSockets = 3
  Files = {1, 2}
  Setups <- MCSetups
  LockMayTimeOut = TRUE
SPECIFICATION FairSpec
INVARIANTS TypeOK DeadClientIsDropped MonitorSurvives ConnectedIsWatched
PROPERTIES OnlyLostAreClosed NeverReplaced LossIsNoticed
CHECK_DEADLOCK FALSE
