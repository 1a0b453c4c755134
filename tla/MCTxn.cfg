CONSTANTS
  Threads = {t1, t2}
  Capacity = 2
  Values = {0, 1}
  Loaded <- MCLoaded
  Ops = {"insert", "update", "delete"}
  MaxTxns = 2
  t1 = t1
  t2 = t2
  MaxWrites <- MCMaxWrites
SPECIFICATION Spec
INVARIANTS
  StatementsRunInLiveTransaction
  NothingToUndoOnceOver
  AbortRestoresTable
  
CHECK_DEADLOCK FALSE
