\* Three caches created concurrently, no bios: two creates of the same
\* partition race past eio_do_preliminary_checks.
CONSTANTS
    Caches <- ThreeCaches
    NoCache = NoCache
    Devs <- MCDevs
    NoDev = NoDev
    WholeDisk = disk
    DevStart <- MCDevStart
    DevEnd <- MCDevEnd
    Bios <- NoBios
    BioStart <- MCBioStart
    BioEnd <- MCBioEnd
    BioOp <- MCBioOp
    Modes = {"wb"}
    MaxCreates = 1
    disk = disk
    p1 = p1
    p2 = p2
    bIn = bIn
    bCross = bCross
    bDiscard = bDiscard
    bSpan = bSpan
    c1 = c1
    c2 = c2
    c3 = c3
SPECIFICATION Spec
INVARIANTS
    NoDuplicateBinding
CHECK_DEADLOCK FALSE
