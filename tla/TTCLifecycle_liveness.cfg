\* Under fairness, with the cleaner making progress, one reboot notification,
\* and an edit of c1 both return.  Every thread makes one call,
\* so the system stops once both have returned.  (A delete is left out: with it
\* the walk reaches the use-after-free of lifecycle_dangling.)
CONSTANTS
    Caches <- MCCaches
    Head = Head
    None = None
    InitNext <- MCInitNext
    Modes = {"wb", "wt"}
    Policies = {"lru"}
    RebootCallers = {r1}
    Editors = {e1}
    ETarget <- MCETarget
    Deleters <- NoThreads
    DTarget <- NoTarget
    SbCanFail = FALSE
    c1 = c1
    c2 = c2
    r1 = r1
    r2 = r2
    e1 = e1
    d1 = d1
SPECIFICATION FairSpec
PROPERTIES
    RebootCompletes
    EditReturns
CHECK_DEADLOCK FALSE
