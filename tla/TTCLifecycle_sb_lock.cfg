\* An edit of c1 whose superblock write fails returns holding the write lock.
CONSTANTS
    Caches <- MCCaches
    Head = Head
    None = None
    InitNext <- MCInitNext
    Modes = {"wb", "wt"}
    Policies = {"lru", "fifo"}
    RebootCallers <- NoThreads
    Editors = {e1}
    ETarget <- MCETarget
    Deleters <- NoThreads
    DTarget <- NoTarget
    SbCanFail = TRUE
    c1 = c1
    c2 = c2
    r1 = r1
    r2 = r2
    e1 = e1
    d1 = d1
SPECIFICATION Spec
INVARIANTS
    EditReleasesLock
CHECK_DEADLOCK FALSE
