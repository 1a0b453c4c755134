CONSTANTS
  Threads = {t1, t2, t3}
  MAX_READERS = 3
SPECIFICATION FairSpec
INVARIANTS
    MutualExclusion
    FieldsMatchHolders
PROPERTIES
    WriterGetsIn
    NoLostWakeup
