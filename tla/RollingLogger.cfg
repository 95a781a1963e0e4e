SPECIFICATION FairSpec
CONSTANTS
  Threads = {t1, t2}
  MaxLines = 3
  MaxDay = 2
  MaxFailures = 1
  MAX_BUFFER_SIZE = 2
  maxFileSize = 2
  SizeOf <- SizesFromBanner
  OldSizes = {0, 2}
  JoinMayTimeOut = TRUE
INVARIANTS
  TypeOK
  FilesReadInOrder
  LostOnlyInTrouble
  FilesWithinLimit
PROPERTIES
  AcceptedIsWritten
CHECK_DEADLOCK FALSE
