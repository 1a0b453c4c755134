CONSTANTS
  btree_order = 3
  Keys <- MCKeys
  MaxPages = 10
  MaxStrays = 3
  Loads <- MCLoads
SPECIFICATION Spec
INVARIANTS
    ScanReturnsEntries
    TreeIsWellFormed
    SearchFindsEntries
    BoundsEncloseRange
