\* Registry, routing, lifecycle and split safety: two write-back caches, each
\* created up to twice, a bio across the p1/p2 boundary and a discard across
\* the start of p1.
CONSTANTS
    Caches <- TwoCaches
    NoCache = NoCache
    Devs <- MCDevs
    NoDev = NoDev
    WholeDisk = disk
    DevStart <- MCDevStart
    DevEnd <- MCDevEnd
    Bios <- CrossAndDiscard
    BioStart <- MCBioStart
    BioEnd <- MCBioEnd
    BioOp <- MCBioOp
    Modes = {"wb"}
    MaxCreates = 2
    disk = disk
    p1 = p1
    p2 = p2
    bIn = bIn
    bCross = bCross
    bDiscard = bDiscard
    bSpan = bSpan
    c1 = c1
    c2 = c2
    c3 = c3
SPECIFICATION Spec
SYMMETRY CacheSymmetry
INVARIANTS
    TypeOK
    InterceptIffBound
    WholeDiskExclusive
    InFlightAccounted
    SplitEndsOnce
    SplitErrorKept
PROPERTIES
    RoutingMatchesReference
\* The workload is finite (two bios, two creates per cache): once every bio
\* has ended and every cache has been deleted for the last time the driver
\* really is idle.
CHECK_DEADLOCK FALSE
