\* Progress under the fairness of FairSpec: one write-back cache,
\* created once, a bio across the p1/p2 boundary and a discard.
CONSTANTS
    Caches <- OneCache
    NoCache = NoCache
    Devs <- MCDevs
    NoDev = NoDev
    WholeDisk = disk
    DevStart <- MCDevStart
    DevEnd <- MCDevEnd
    Bios <- CrossAndDiscard
    BioStart <- MCBioStart
    BioEnd <- MCBioEnd
    BioOp <- MCBioOp
    Modes = {"wb"}
    MaxCreates = 1
    disk = disk
    p1 = p1
    p2 = p2
    bIn = bIn
    bCross = bCross
    bDiscard = bDiscard
    bSpan = bSpan
    c1 = c1
    c2 = c2
    c3 = c3
SPECIFICATION FairSpec
PROPERTIES
    BiosComplete
    ControlReturns
\* A finite workload: the driver is idle once every bio has ended and every
\* create and delete has returned.
CHECK_DEADLOCK FALSE
