SPECIFICATION Spec
CONSTANTS
    Tables = {t1, t2}
    Cols = {c1}
    Rows = {r1}
    Junk = junk
    Fds = {f1, f2}
    MaxFrames = 4
INVARIANTS
    CatalogIsBacked
    FilesMatchCatalog
    MissingFilesWereDropped
    OwnRowsWithFreshDescriptor
CHECK_DEADLOCK FALSE
SYMMETRY Symmetry
