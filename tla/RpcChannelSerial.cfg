\* No wait times out.  Identifiers wrap after two: duplicates are common.
CONSTANTS
  Threads = {t1, t2}
  NoThread = NoThread
  MaxCalls = 3
  Wrap = 2
  Kinds = {"reply", "void", "local"}
  Customs = {TRUE, FALSE}
  ErrorReplies = {TRUE, FALSE}
  MaxSize = 1
  Lookalikes = FALSE
  LockMayTimeOut = FALSE
  SockMayTimeOut = FALSE
SPECIFICATION Spec
INVARIANTS TypeOK OwnReply OwnTimeoutOutlivesOnlyAbruptCalls
PROPERTY ImplementsService
CHECK_DEADLOCK FALSE
