CONSTANTS
  SlotsPerPage = 2
  MaxPages = 3
  PoolSize = 2
  Values = {0, 1}
  Zero = 0
SPECIFICATION ScanSpec
CHECK_DEADLOCK FALSE
INVARIANTS
    FreeListIsExact
    CountsMatchBitmaps
    ScanMissesNoStableRecord
PROPERTIES
    ScanGoesForward
    ImplementsRecordStore
