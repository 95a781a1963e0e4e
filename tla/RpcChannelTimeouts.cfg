\* Sockets may time out in the middle of a reply, and so may the wait for the lock.
CONSTANTS
  Threads = {t1, t2}
  NoThread = NoThread
  MaxCalls = 2
  Wrap = 2
  Kinds = {"reply"}
  Customs = {FALSE}
  ErrorReplies = {FALSE}
  MaxSize = 2
  Lookalikes = TRUE
  LockMayTimeOut = TRUE
  SockMayTimeOut = TRUE
SPECIFICATION FairSpec
INVARIANTS StraysAreLeftOver SoleCallerGetsOwnReply
PROPERTY EveryCallEnds
CHECK_DEADLOCK FALSE
