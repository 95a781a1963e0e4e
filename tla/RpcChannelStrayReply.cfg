\* Two threads whose receives may time out: a reply reaches the wrong caller.
CONSTANTS
  Threads = {t1, t2}
  NoThread = NoThread
  MaxCalls = 2
  Wrap = 4
  Kinds = {"reply"}
  Customs = {FALSE}
  ErrorReplies = {FALSE}
  MaxSize = 2
  Lookalikes = FALSE
  LockMayTimeOut = FALSE
  SockMayTimeOut = TRUE
SPECIFICATION Spec
INVARIANTS OwnReply
CHECK_DEADLOCK FALSE
