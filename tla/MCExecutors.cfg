SPECIFICATION Spec
CONSTANTS
    ColsOf <- MCColsOf
    SlotsOf <- MCSlotsOf
    Vals = {1, 3}
    CondsOf <- MCCondsOf
    Indexable <- MCIndexable
    MaxConds = 1
    Queries <- MCQueries
INVARIANTS
    EntriesPointAtTheirRows
    IndexHasEveryRow
    SelectIsRight
CHECK_DEADLOCK FALSE
