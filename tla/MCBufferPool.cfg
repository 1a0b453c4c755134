CONSTANTS
    PoolSize = 2
    Fds = {3}
    MaxPages = 5
    HalfRange = 3
    Clients = {c1, c2}
    Data = {0, 1}
    Zero = 0
    Misuse = {}
SPECIFICATION Spec
SYMMETRY ClientSymmetry
CHECK_DEADLOCK FALSE
INVARIANTS
    PlacementInv
    PageTableMatchesFrames
    PinsProtectFrames
    UnpinnedIsReusable
    CleanPagesOnDisk
PROPERTIES
    ImplementsPageStore
