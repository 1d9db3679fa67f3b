------------------------------- MODULE WbPages -------------------------------
(***************************************************************************)
(* The page helpers of src/Driver/enhanceio/eio_ttc.c that build the       *)
(* buffers of write-back and metadata I/O: eio_alloc_wb_bvecs and          *)
(* eio_free_wb_bvecs (an array of bio_vecs, where for 2K blocks two        *)
(* neighbouring bvecs share one page), eio_alloc_wb_pages and              *)
(* eio_free_wb_pages (an array of pages), and eio_alloc_pages.  Each is a  *)
(* sequential allocate-or-unwind loop, modelled as a pure operator that    *)
(* returns what the loop leaves behind.                                    *)
(*                                                                         *)
(* A page is named by the number of the alloc_page call that returned it   *)
(* (1, 2, ...; NoPage is NULL); ref[p] is its reference count: 1 after     *)
(* alloc_page, one less for every put_page.  The only allocation outcome   *)
(* that matters to a loop is the first call that fails, so the input       *)
(* `fail` is the number of that call (0: none fails).  Lengths and offsets *)
(* are in sectors: to_bytes and PAGE_SIZE convert exactly.                 *)
(***************************************************************************)
EXTENDS Integers, FiniteSets

CONSTANTS
    PageSectors,    \* PAGE_SIZE in sectors
    Blk2K,          \* BLKSIZE_2K in sectors
    BlkSizes,       \* {BLKSIZE_2K, BLKSIZE_4K, BLKSIZE_8K}: dmc->block_size
    MaxBvecs,       \* largest `max` the helpers are called with
    MdMaxNrPages    \* MD_MAX_NR_PAGES

ASSUME Blk2K \in BlkSizes /\ 2 * Blk2K = PageSectors /\ MaxBvecs \in Nat

VARIABLES
    wfn,    \* the helper last called by the caller, or "none"
    wargs,  \* the arguments the caller keeps for the matching free
    wres    \* what that call left: array, references, return value

wvars == <<wfn, wargs, wres>>

NoPage == 0
Pages == 1..MaxBvecs
EmptyBvec == [page |-> NoPage, off |-> 0, len |-> 0]

(* What a loop leaves: the array, the reference counts, the number of     *)
(* pages allocated so far, the local `page` of eio_alloc_wb_bvecs.        *)
Start(max) == [bv |-> [i \in 0..(max - 1) |-> EmptyBvec],
               ref |-> [p \in Pages |-> 0], n |-> 0, page |-> NoPage,
               ret |-> "ok"]

(* alloc_page, call number s.n + 1: NULL when it is the failing call.     *)
AllocFails(s, fail) == s.n + 1 = fail
NewPage(s) == [s EXCEPT !.n = @ + 1, !.ref[s.n + 1] = 1]

-----------------------------------------------------------------------------
(* eio_free_wb_bvecs                                                       *)

(* Mutant: every bvec puts its page, the shared one of a 2K pair too.     *)
PutsPageEveryIndex(b, i, blk) == b.page # NoPage

(* Whether turn i puts the page of bvec b: for 2K blocks only the even     *)
(* bvec of a pair owns the page.                                           *)
PutsPage(b, i, blk) == b.page # NoPage /\ (blk # Blk2K \/ i % 2 = 0)

(* Whether turn i clears bv_page: after a put, and on every odd 2K bvec.  *)
ClearsPage(b, i, blk) == PutsPage(b, i, blk) \/ (blk = Blk2K /\ i % 2 = 1)

RECURSIVE FreeWbBvecsFrom(_, _, _, _)
FreeWbBvecsFrom(s, i, allocated, blk) ==
    IF i >= allocated THEN s
    ELSE LET b == s.bv[i]
             s1 == IF PutsPage(b, i, blk)
                      THEN [s EXCEPT !.ref[b.page] = @ - 1] ELSE s
             s2 == IF ClearsPage(b, i, blk)
                      THEN [s1 EXCEPT !.bv[i].page = NoPage] ELSE s1
         IN FreeWbBvecsFrom(s2, i + 1, allocated, blk)

FreeWbBvecs(s, allocated, blk) == FreeWbBvecsFrom(s, 0, allocated, blk)

-----------------------------------------------------------------------------
(* eio_alloc_wb_bvecs                                                      *)

(* bv_offset of the odd bvec of a 2K pair: the second half of the page.   *)
OddOffset(blk) == PageSectors - blk

(* The err label: unwind the i bvecs filled so far.                       *)
AllocWbBvecsErr(s, i, max, blk) ==
    LET s1 == IF i # max /\ i > 0 THEN FreeWbBvecs(s, i, blk) ELSE s
    IN [s1 EXCEPT !.ret = IF i # max THEN "enomem" ELSE "ok"]

RECURSIVE AllocWbBvecsFrom(_, _, _, _, _)
AllocWbBvecsFrom(s, i, max, blk, fail) ==
    IF i >= max THEN s
    ELSE IF blk = Blk2K /\ i % 2 = 1
       THEN AllocWbBvecsFrom(
              [s EXCEPT !.bv[i] = [page |-> s.page, off |-> OddOffset(blk),
                                   len |-> blk],
                        !.page = NoPage], i + 1, max, blk, fail)
    ELSE IF AllocFails(s, fail)
       THEN AllocWbBvecsErr(s, i, max, blk)
    ELSE LET p == s.n + 1
             s1 == NewPage(s)
         IN AllocWbBvecsFrom(
              [s1 EXCEPT !.bv[i] = [page |-> p, off |-> 0,
                                    len |-> IF blk = Blk2K THEN blk ELSE PageSectors],
                         !.page = IF blk = Blk2K THEN p ELSE NoPage],
              i + 1, max, blk, fail)

AllocWbBvecs(max, blk, fail) == AllocWbBvecsFrom(Start(max), 0, max, blk, fail)

-----------------------------------------------------------------------------
(* eio_alloc_wb_pages and eio_free_wb_pages: the array is s.bv, of which  *)
(* only .page is used.                                                     *)

(* The do-while of eio_free_wb_pages: put pages[allocated-1] .. pages[0]. *)
RECURSIVE PutPagesDown(_, _)
PutPagesDown(s, k) ==
    IF k = 0 THEN s
    ELSE PutPagesDown([s EXCEPT !.ref[s.bv[k - 1].page] = @ - 1], k - 1)

(* Mutant: a `while (--allocated)` loop, which never puts pages[0].       *)
FreeWbPagesShort(s, allocated) ==
    IF allocated <= 0 THEN s
    ELSE [PutPagesDown(s, allocated - 1) EXCEPT !.bv[0].page = NoPage]

(* `*pages = NULL` clears the first entry only.                            *)
FreeWbPages(s, allocated) ==
    IF allocated <= 0 THEN s
    ELSE [PutPagesDown(s, allocated) EXCEPT !.bv[0].page = NoPage]

RECURSIVE AllocWbPagesFrom(_, _, _, _)
AllocWbPagesFrom(s, i, max, fail) ==
    IF i >= max \/ AllocFails(s, fail)
       THEN LET s1 == IF i # max /\ i > 0 THEN FreeWbPages(s, i) ELSE s
            IN [s1 EXCEPT !.ret = IF i # max THEN "enomem" ELSE "ok"]
       ELSE AllocWbPagesFrom([NewPage(s) EXCEPT !.bv[i].page = s.n + 1],
                             i + 1, max, fail)

AllocWbPages(max, fail) == AllocWbPagesFrom(Start(max), 0, max, fail)

-----------------------------------------------------------------------------
(* eio_alloc_pages: kzalloc of the array (kzFails), then a page per entry, *)
(* stopping at the first failure.  EIO_ASSERT(pcount == nr_pages) panics   *)
(* or not depending on how the module is built (panics).                   *)

NrPages(maxPages) == IF maxPages < MdMaxNrPages THEN maxPages ELSE MdMaxNrPages

(* Mutant: a failed alloc_page leaves a hole and the loop goes on.        *)
RECURSIVE AllocPagesNoBreak(_, _, _, _)
AllocPagesNoBreak(s, i, nr, fail) ==
    IF i >= nr THEN s
    ELSE IF AllocFails(s, fail)
       THEN AllocPagesNoBreak([s EXCEPT !.n = @ + 1], i + 1, nr, fail)
    ELSE AllocPagesNoBreak([NewPage(s) EXCEPT !.bv[i] =
                             [page |-> s.n + 1, off |-> 0, len |-> PageSectors]],
                           i + 1, nr, fail)

(* The allocation loop; pcount counts the entries it filled.              *)
RECURSIVE AllocPagesFrom(_, _, _, _)
AllocPagesFrom(s, i, nr, fail) ==
    IF i >= nr \/ AllocFails(s, fail) THEN s
    ELSE AllocPagesFrom([NewPage(s) EXCEPT !.bv[i] =
                           [page |-> s.n + 1, off |-> 0, len |-> PageSectors]],
                        i + 1, nr, fail)

(* The result: "null", "panic" or "array", with *page_count in .n.  A    *)
(* failed kzalloc returns before any page is allocated; with no page the  *)
(* array is kfree'd.                                                       *)
AllocPages(maxPages, kzFails, fail, panics) ==
    LET nr == NrPages(maxPages)
        s == AllocPagesFrom(Start(nr), 0, nr, fail)
        pcount == Cardinality({i \in DOMAIN s.bv : s.bv[i].page # NoPage})
    IN CASE kzFails -> [Start(nr) EXCEPT !.ret = "null"]
         [] pcount = 0 -> [s EXCEPT !.ret = "null"]
         [] pcount # nr /\ panics -> [s EXCEPT !.ret = "panic"]
         [] OTHER -> [s EXCEPT !.ret = "array", !.n = pcount]

-----------------------------------------------------------------------------
(* A caller of the helpers (in the cache engine, outside this file): it    *)
(* calls one allocator with any arguments and allocation outcome, and      *)
(* after a success may free what it got with the matching helper.         *)

WInit ==
    /\ wfn = "none"
    /\ wargs = [max |-> 0, blk |-> Blk2K]
    /\ wres = Start(0)

CallAllocWbBvecs(max, blk, fail) ==
    /\ wfn = "none"
    /\ wfn' = "alloc_wb_bvecs"
    /\ wargs' = [max |-> max, blk |-> blk]
    /\ wres' = AllocWbBvecs(max, blk, fail)

CallFreeWbBvecs ==
    /\ wfn = "alloc_wb_bvecs" /\ wres.ret = "ok"
    /\ wfn' = "free_wb_bvecs"
    /\ wres' = FreeWbBvecs(wres, wargs.max, wargs.blk)
    /\ UNCHANGED wargs

CallAllocWbPages(max, fail) ==
    /\ wfn = "none"
    /\ wfn' = "alloc_wb_pages"
    /\ wargs' = [max |-> max, blk |-> Blk2K]
    /\ wres' = AllocWbPages(max, fail)

CallFreeWbPages ==
    /\ wfn = "alloc_wb_pages" /\ wres.ret = "ok"
    /\ wfn' = "free_wb_pages"
    /\ wres' = FreeWbPages(wres, wargs.max)
    /\ UNCHANGED wargs

CallAllocPages(maxPages, kzFails, fail, panics) ==
    /\ wfn = "none"
    /\ wfn' = "alloc_pages"
    /\ wargs' = [max |-> NrPages(maxPages), blk |-> Blk2K]
    /\ wres' = AllocPages(maxPages, kzFails, fail, panics)

WNext ==
    \/ \E max \in 0..MaxBvecs, blk \in BlkSizes, fail \in 0..MaxBvecs :
          CallAllocWbBvecs(max, blk, fail)
    \/ CallFreeWbBvecs
    \/ \E max \in 0..MaxBvecs, fail \in 0..MaxBvecs : CallAllocWbPages(max, fail)
    \/ CallFreeWbPages
    \/ \E maxPages \in 0..MaxBvecs, kz \in BOOLEAN, fail \in 0..MaxBvecs,
          panics \in BOOLEAN : CallAllocPages(maxPages, kz, fail, panics)

-----------------------------------------------------------------------------
(* Properties                                                              *)

(* A buffer is released when no page keeps a reference and no entry        *)
(* points at a page; a bvec is live when it points at a page the buffer    *)
(* holds exactly once.                                                     *)
Released(s) == \A p \in Pages : s.ref[p] = 0
Cleared(s) == \A i \in DOMAIN s.bv : s.bv[i].page = NoPage
Live(s, i) == s.bv[i].page # NoPage /\ s.ref[s.bv[i].page] = 1

(* eio_alloc_wb_bvecs either fills every bvec with a page held once, or    *)
(* fails and its unwinding (eio_free_wb_bvecs of the i bvecs filled) drops *)
(* every reference and clears every bvec; eio_free_wb_bvecs of a full      *)
(* array does the same.  With the 2K page shared by a pair of bvecs, no    *)
(* page is leaked and none is put twice.                                   *)
WbBvecsBalanced ==
    /\ wfn = "alloc_wb_bvecs" =>
          IF wres.ret = "enomem" THEN Released(wres) /\ Cleared(wres)
                                 ELSE \A i \in DOMAIN wres.bv : Live(wres, i)
    /\ wfn = "free_wb_bvecs" => Released(wres) /\ Cleared(wres)

(* eio_alloc_wb_pages either holds every page once or, after a failed      *)
(* alloc_page, has put every page it got (eio_free_wb_pages); the free of  *)
(* a full array puts every page.                                           *)
WbPagesBalanced ==
    /\ wfn = "alloc_wb_pages" =>
          IF wres.ret = "enomem" THEN Released(wres)
                                 ELSE \A i \in DOMAIN wres.bv : Live(wres, i)
    /\ wfn = "free_wb_pages" => Released(wres)

(* eio_alloc_pages returns NULL holding no page, or an array whose first   *)
(* *page_count entries (at least one) hold a page each and whose other     *)
(* entries are empty: a caller that uses page_count entries reads no hole. *)
AllocPagesAccounted ==
    wfn = "alloc_pages" =>
        /\ wres.ret = "null" => Released(wres)
        /\ wres.ret = "array" =>
              /\ 1 <= wres.n /\ wres.n <= wargs.max
              /\ \A i \in 0..(wargs.max - 1) : (i < wres.n) <=> Live(wres, i)

=============================================================================
