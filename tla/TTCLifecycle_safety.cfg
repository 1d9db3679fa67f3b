\* Two concurrent reboot notifications, an edit of c1 and a delete of c2;
\* either cache may fail.  eio_sb_store succeeds (its failure is the subject
\* of lifecycle_sb_lock).
CONSTANTS
    Caches <- MCCaches
    Head = Head
    None = None
    InitNext <- MCInitNext
    Modes = {"wb", "wt"}
    Policies = {"lru", "fifo"}
    RebootCallers = {r1, r2}
    Editors = {e1}
    ETarget <- MCETarget
    Deleters = {d1}
    DTarget <- MCDTarget
    SbCanFail = FALSE
    c1 = c1
    c2 = c2
    r1 = r1
    r2 = r2
    e1 = e1
    d1 = d1
SPECIFICATION Spec
INVARIANTS
    TypeOK
    ModifyExcludesShutdown
    RebootReturnsQuiesced
\* Every thread makes one call: when all have returned the system is idle.
CHECK_DEADLOCK FALSE
