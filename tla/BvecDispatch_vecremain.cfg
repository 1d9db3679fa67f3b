\* Bvecs of up to four sectors: a head that ends one sector into a four-sector
\* bvec leaves three sectors of it, more than the aligned bio after it takes.
CONSTANTS
    LBS = 2
    NrVecs = 3
    MaxVecs = 3
    MaxLen = 4
    Starts <- AnyStart
    PageSectors = 8
    Blk2K = 4
    BlkSizes <- MCBlkSizes
    MaxBvecs = 1
    MdMaxNrPages = 1
SPECIFICATION BuffersSpec
INVARIANTS
    CursorTracksRemaining
\* The region is finite: once it is submitted (or -ENOMEM returned) the
\* function has returned.
CHECK_DEADLOCK FALSE
