\* Two plugins with three messages, three loggers, a queue of one, two errors.
CONSTANTS
  t1 = t1
  t2 = t2
  Threads = {t1, t2}
  Main = Main
  Api = Api
  MaxMessages = 3
  MaxLoggers = 3
  MaxRequests = 2
  Capacity = 1
  MaxErrors = 2
SPECIFICATION FairSpec
INVARIANTS LostOnlyWhileSwitching
PROPERTIES QueuedIsSent
CHECK_DEADLOCK FALSE
