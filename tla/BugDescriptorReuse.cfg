SPECIFICATION Spec
CONSTANTS
    Tables = {t1}
    Cols = {c1}
    Rows = {r1, r2}
    Junk = junk
    Fds = {f1, f2}
    MaxFrames = 3
INVARIANT
    TableShowsOnlyItsRows
CHECK_DEADLOCK FALSE
