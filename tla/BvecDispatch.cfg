\* Regions of one to three bvecs of one to three sectors on a device with
\* two-sector logical blocks, starting on a block or inside one: unaligned
\* heads and tails, a head that ends inside a bvec, aligned middles that end
\* inside a bvec.  The bio takes more pages than a region has bvecs, so the
\* page-limited branch of lines 966-977 is not taken here.
\* The page helpers: arrays of up to four entries, 2K/4K/8K blocks, every
\* first failing alloc_page, a failing kzalloc, MD_MAX_NR_PAGES = 2 below
\* the largest request, and both builds of EIO_ASSERT.
CONSTANTS
    LBS = 2
    NrVecs = 3
    MaxVecs = 3
    MaxLen = 3
    Starts <- AnyStart
    PageSectors = 8
    Blk2K = 4
    BlkSizes <- MCBlkSizes
    MaxBvecs = 4
    MdMaxNrPages = 2
SPECIFICATION BuffersSpec
INVARIANTS
    TypeOK
    CursorTracksRemaining
    WbBvecsBalanced
    WbPagesBalanced
    AllocPagesAccounted
PROPERTIES
    Terminates
\* The region is finite: once it is submitted (or -ENOMEM returned) the
\* function has returned.
CHECK_DEADLOCK FALSE
