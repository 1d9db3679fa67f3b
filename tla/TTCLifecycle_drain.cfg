\* An edit from write-back while cleaning never progresses: the clean loop of
\* eio_finish_nrdirty retries forever.
CONSTANTS
    Caches <- MCCaches
    Head = Head
    None = None
    InitNext <- MCInitNext
    Modes = {"wb", "wt"}
    Policies = {"lru", "fifo"}
    RebootCallers <- NoThreads
    Editors = {e1}
    ETarget <- MCETarget
    Deleters <- NoThreads
    DTarget <- NoTarget
    SbCanFail = FALSE
    c1 = c1
    c2 = c2
    r1 = r1
    r2 = r2
    e1 = e1
    d1 = d1
SPECIFICATION FairSpecNoProgress
PROPERTIES
    EditReturns
CHECK_DEADLOCK FALSE
