\* A reboot notification racing the delete of c2: the walk of
\* eio_reboot_handling frees the deleted dmc and then reads it.
CONSTANTS
    Caches <- MCCaches
    Head = Head
    None = None
    InitNext <- MCInitNext
    Modes = {"wb", "wt"}
    Policies = {"lru", "fifo"}
    RebootCallers = {r1}
    Editors <- NoThreads
    ETarget <- NoTarget
    Deleters = {d1}
    DTarget <- MCDTarget
    SbCanFail = FALSE
    c1 = c1
    c2 = c2
    r1 = r1
    r2 = r2
    e1 = e1
    d1 = d1
SPECIFICATION Spec
INVARIANTS
    NoDanglingDmc
CHECK_DEADLOCK FALSE
