SPECIFICATION Spec
CONSTANTS
  Threads = {t1, t2}
  MaxLines = 3
  MaxDay = 2
  MaxFailures = 0
  MAX_BUFFER_SIZE = 2
  maxFileSize = 2
  SizeOf <- SizesFromBanner
  OldSizes = {0, 2}
  JoinMayTimeOut = FALSE
INVARIANTS
  CloseWaitsForTheBuffer
CHECK_DEADLOCK FALSE
