---------------------------- MODULE BvecDispatch ----------------------------
(***************************************************************************)
(* How eio_dispatch_io splits one region (where->sector, where->count) and *)
(* the bio_vec array that holds its data into the bios it submits: an      *)
(* unaligned head or tail becomes a read-modify-write of one logical block *)
(* (do_unaligned_io); the aligned middle becomes bios of at most           *)
(* EIO_BIO_GET_NR_VECS pages (the inner loop of eio_dispatch_io).  The     *)
(* code keeps a cursor into the bvec array: `bvec`, and `vec_remain`, the  *)
(* bytes of the current bvec not yet consumed (0: none consumed).          *)
(*                                                                         *)
(* Lengths are counted in sectors: the data of a region is sector-granular *)
(* and to_bytes / eio_to_sector convert exactly.  The one place the code   *)
(* hands a byte count where a sector count is expected (line 977) keeps    *)
(* the factor of 512.  The loop is sequential: one thread, no concurrency. *)
(***************************************************************************)
EXTENDS Integers, Sequences

CONSTANTS
    LBS,        \* sectors per logical block of the device (LOG_BLK_SSIZE)
    NrVecs,     \* EIO_BIO_GET_NR_VECS(bdev): pages per bio
    MaxVecs,    \* largest bvec array of a region
    MaxLen,     \* longest bvec, in sectors
    Starts      \* start sectors of the region (modulo LBS is what matters)

ASSUME LBS \in Nat \ {0} /\ NrVecs \in Nat \ {0} /\ Starts \subseteq Nat

VARIABLES
    vecs,       \* bv_len of each bvec of the region (fixed)
    start,      \* where->sector (fixed)
    pc,         \* "align", "add", "done", "enomem" or "overrun"
    remaining,  \* sectors of the region not yet put in a bio
    remBvecs,   \* remaining_bvecs
    bv,         \* index of bvec
    vecRemain,  \* vec_remain
    remAligned, \* remaining_aligned of the bio being built
    numBvecs,   \* num_bvecs: pages the bio being built can hold
    bioVecs,    \* pages added to it so far
    cur,        \* the bio being built: [start, len]
    bios        \* the bios submitted: [start, len, kind]

vars == <<vecs, start, pc, remaining, remBvecs, bv, vecRemain, remAligned,
          numBvecs, bioVecs, cur, bios>>

-----------------------------------------------------------------------------
(* Reference definitions                                                   *)

(* Sectors held by the first i bvecs.                                      *)
RECURSIVE Prefix(_, _)
Prefix(s, i) == IF i = 0 \/ s = <<>> THEN 0 ELSE s[1] + Prefix(Tail(s), i - 1)

Count == Prefix(vecs, Len(vecs))

Min(a, b) == IF a < b THEN a ELSE b

(* EIO_ALIGN_SECTOR and EIO_SEC_UNALIGNED.                                 *)
AlignDown(s) == s - (s % LBS)
Unaligned(s) == s % LBS # 0

(* to_bytes(n): 512 bytes per sector.                                      *)
ToBytes(n) == n * 512

(* A bio per sector at most; a split that makes more is not progressing.  *)
MaxBios == MaxVecs * MaxLen

(* The sector the region has reached: where->sector + where->count - remaining. *)
Pos == start + Count - remaining

InVecs(i) == i \in 1..Len(vecs)

(* Mutant: only an unaligned position goes through do_unaligned_io.       *)
NeedsUnalignedHeadOnly(s) == remaining > 0 /\ Unaligned(s)

(* Lines 928-932: the guard of the align loop.                             *)
NeedsUnaligned(s) == remaining > 0 /\ (Unaligned(s) \/ remaining < LBS)

-----------------------------------------------------------------------------
(* do_unaligned_io                                                         *)

(* The walk of lines 859-867: while the block's data outlasts the current  *)
(* bvec, step to the next one.  n counts the completed bvecs; idx = 0     *)
(* marks a read past the end of the array.                                 *)
RECURSIVE VecWalk(_, _, _)
VecWalk(i, rem, n) ==
    IF rem <= 0 THEN [idx |-> i, rem |-> rem, n |-> n]
    ELSE IF ~InVecs(i + 1) THEN [idx |-> 0, rem |-> rem, n |-> n]
    ELSE VecWalk(i + 1, rem - vecs[i + 1], n + 1)

(* Lines 878-884: the bvec the block ends in is complete if the block used *)
(* it up, or if this was the last piece of the region.                     *)
UnalignedCompl(w, len) ==
    w.n + (IF w.rem = 0 \/ remaining = len THEN 1 ELSE 0)

(* Mutant: the sign of the walk's overshoot is not flipped.               *)
UnalignedDoneVecRemainSigned(w, len) ==
    IF w.rem < 0 THEN w.rem ELSE 0

(* Lines 858 and 869-877: what is left of the bvec the block ends in.      *)
UnalignedDoneVecRemain(w, len) ==
    IF w.rem < 0 THEN -w.rem ELSE 0

(* One turn of the align loop of eio_dispatch_io: the region's position is *)
(* not block aligned, or less than a block is left.  do_unaligned_io reads *)
(* the whole block around it and takes len sectors of data from the bvecs  *)
(* at the cursor.                                                          *)
UnalignedIo ==
    LET s == Pos
        off == s - AlignDown(s)
        len == Min(LBS - off, remaining)
        r0 == IF vecRemain > 0 THEN len - vecRemain ELSE len - vecs[bv]
        w == VecWalk(bv, r0, 0)
        compl == UnalignedCompl(w, len)
    IN /\ pc = "align"
       /\ NeedsUnaligned(s)
       /\ Len(bios) < MaxBios
       /\ IF ~InVecs(bv) \/ w.idx = 0
             THEN /\ pc' = "overrun"
                  /\ UNCHANGED <<remaining, remBvecs, bv, vecRemain, bios>>
             ELSE /\ vecRemain' = UnalignedDoneVecRemain(w, len)
                  /\ remaining' = remaining - len
                  /\ remBvecs' = remBvecs - compl
                  /\ bv' = bv + compl
                  /\ bios' = Append(bios, [start |-> AlignDown(s), len |-> LBS,
                                           kind |-> "unaligned"])
                  /\ UNCHANGED pc
       /\ UNCHANGED <<vecs, start, remAligned, numBvecs, bioVecs, cur>>

(* kzalloc of the un_bio, bio_alloc or alloc_page fails: -ENOMEM.          *)
UnalignedNoMem ==
    /\ pc = "align"
    /\ NeedsUnaligned(Pos)
    /\ pc' = "enomem"
    /\ UNCHANGED <<vecs, start, remaining, remBvecs, bv, vecRemain, remAligned,
                   numBvecs, bioVecs, cur, bios>>

-----------------------------------------------------------------------------
(* The aligned bios of eio_dispatch_io                                     *)

(* Lines 966-982: a bio of at most NrVecs pages, whose length assumes the  *)
(* worst case of one sector per bvec -- but passes to_bytes(num_bvecs).   *)
RemainingAligned ==
    IF remBvecs > NrVecs THEN AlignDown(ToBytes(NrVecs)) ELSE AlignDown(remaining)

(* Leaving the align loop: the region is done (break), or a bio is         *)
(* allocated at the position reached.                                      *)
AlignedBioStart ==
    /\ pc = "align"
    /\ ~NeedsUnaligned(Pos)
    /\ IF remaining = 0
          THEN /\ pc' = "done"
               /\ UNCHANGED <<remAligned, numBvecs, bioVecs, cur>>
          ELSE /\ Len(bios) < MaxBios
               /\ numBvecs' = Min(remBvecs, NrVecs)
               /\ remAligned' = RemainingAligned
               /\ bioVecs' = 0
               /\ cur' = [start |-> Pos, len |-> 0]
               /\ pc' = "add"
    /\ UNCHANGED <<vecs, start, remaining, remBvecs, bv, vecRemain, bios>>

(* Mutant: a bvec used up exactly is kept as the current one.              *)
KeepVecLe(rem, len) == rem > 0 /\ len <= vecs[bv] - vecRemain

(* Line 1013: the bvec is not finished and the region goes on.             *)
KeepVec(rem, len) == rem > 0 /\ len < vecs[bv] - vecRemain

(* One turn of the inner loop: bio_add_page of the rest of the current     *)
(* bvec (or of what the bio still takes), then either stay in the bvec     *)
(* with vec_remain = bv_len - len or move to the next one.                 *)
AddPage ==
    /\ pc = "add"
    /\ remAligned > 0 /\ bioVecs < numBvecs
    /\ IF ~InVecs(bv)
          THEN /\ pc' = "overrun"
               /\ UNCHANGED <<remaining, remBvecs, bv, vecRemain, remAligned,
                              bioVecs, cur>>
          ELSE LET len == IF vecRemain > 0 THEN Min(vecRemain, remAligned)
                                           ELSE Min(vecs[bv], remAligned)
               IN /\ remAligned' = remAligned - len
                  /\ remaining' = remaining - len
                  /\ bioVecs' = bioVecs + 1
                  /\ cur' = [cur EXCEPT !.len = @ + len]
                  /\ IF KeepVec(remaining - len, len)
                        THEN /\ vecRemain' = vecs[bv] - len
                             /\ UNCHANGED <<bv, remBvecs>>
                        ELSE /\ bv' = bv + 1
                             /\ vecRemain' = 0
                             /\ remBvecs' = remBvecs - 1
                  /\ UNCHANGED pc
    /\ UNCHANGED <<vecs, start, numBvecs, bios>>

(* The loop ends (the bio is full or bio_add_page refuses a page); the bio *)
(* is submitted, and the outer do-while goes on while sectors remain.      *)
SubmitBio ==
    /\ pc = "add"
    /\ remAligned <= 0 \/ bioVecs >= numBvecs
    /\ bios' = Append(bios, [start |-> cur.start, len |-> cur.len, kind |-> "aligned"])
    /\ pc' = IF remaining > 0 THEN "align" ELSE "done"
    /\ UNCHANGED <<vecs, start, remaining, remBvecs, bv, vecRemain, remAligned,
                   numBvecs, bioVecs, cur>>

-----------------------------------------------------------------------------

Regions == UNION {[1..n -> 1..MaxLen] : n \in 1..MaxVecs}

Init ==
    /\ vecs \in Regions
    /\ start \in Starts
    /\ pc = "align"
    /\ remaining = Count
    /\ remBvecs = Len(vecs)
    /\ bv = 1
    /\ vecRemain = 0
    /\ remAligned = 0
    /\ numBvecs = 0
    /\ bioVecs = 0
    /\ cur = [start |-> 0, len |-> 0]
    /\ bios = <<>>

Next == UnalignedIo \/ UnalignedNoMem \/ AlignedBioStart \/ AddPage \/ SubmitBio

Spec == Init /\ [][Next]_vars

(* The dispatching thread keeps running; allocation failures are not      *)
(* forced.                                                                 *)
Fairness == WF_vars(UnalignedIo \/ AlignedBioStart \/ AddPage \/ SubmitBio)

FairSpec == Spec /\ Fairness

-----------------------------------------------------------------------------
(* Properties                                                               *)

TypeOK ==
    /\ pc \in {"align", "add", "done", "enomem", "overrun"}
    /\ remaining \in 0..MaxVecs * MaxLen
    /\ remBvecs \in Int
    /\ bv \in 1..MaxVecs + 1
    /\ vecRemain \in 0..MaxLen
    /\ bioVecs \in 0..NrVecs
    /\ bios \in Seq([start : Nat, len : Nat, kind : {"aligned", "unaligned"}])

(* The bvec cursor always stands at the data of the sector the region has  *)
(* reached: the sectors of the bvecs before `bvec`, plus the consumed part *)
(* of `bvec` (bv_len - vec_remain), equal the sectors already put in bios. *)
(* Every bio_add_page and every un_bio takes its data from this cursor.    *)
CursorTracksRemaining ==
    pc \in {"align", "add", "done"} =>
        /\ bv \in 1..Len(vecs) + 1
        /\ vecRemain > 0 => InVecs(bv) /\ vecRemain < vecs[bv]
        /\ Prefix(vecs, bv - 1) + (IF vecRemain > 0 THEN vecs[bv] - vecRemain ELSE 0)
               = Count - remaining

(* eio_dispatch_io returns: the do-while loop ends with the region         *)
(* submitted, or with -ENOMEM.                                             *)
Terminates == <>(pc \in {"done", "enomem"})

=============================================================================
