SPECIFICATION FairSpec
CONSTANTS
  Count = 4
  Guard = 3
  Attempts = 1
  ThrottleLimit = 2
  MaxPages = 4
INVARIANTS TypeOK RowsInOrder
PROPERTIES NothingSilentlyDropped ReportEnds
CHECK_DEADLOCK FALSE
