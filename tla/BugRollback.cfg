CONSTANTS
  Threads = {t1, t2}
  Capacity = 2
  Values = {0, 1}
  Loaded <- MCLoaded
  Ops = {"insert", "update", "delete"}
  MaxTxns = 1
  t1 = t1
  t2 = t2
  MaxWrites <- BugMaxWrites
SPECIFICATION Spec
INVARIANT AbortRestoresRecords
CHECK_DEADLOCK FALSE
