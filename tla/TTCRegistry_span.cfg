\* One cache and one bio that covers the whole of partition p1 from sector 0
\* to sector 3: the overlap test of eio_make_request_fn does not see it.
CONSTANTS
    Caches <- OneCache
    NoCache = NoCache
    Devs <- MCDevs
    NoDev = NoDev
    WholeDisk = disk
    DevStart <- MCDevStart
    DevEnd <- MCDevEnd
    Bios <- SpanBios
    BioStart <- MCBioStart
    BioEnd <- MCBioEnd
    BioOp <- MCBioOp
    Modes = {"wb"}
    MaxCreates = 1
    disk = disk
    p1 = p1
    p2 = p2
    bIn = bIn
    bCross = bCross
    bDiscard = bDiscard
    bSpan = bSpan
    c1 = c1
    c2 = c2
    c3 = c3
SPECIFICATION Spec
PROPERTIES
    RoutingMatchesReference
CHECK_DEADLOCK FALSE
