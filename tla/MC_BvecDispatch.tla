-------------------------- MODULE MC_BvecDispatch --------------------------
(***************************************************************************)
(* The buffer algorithms of the I/O path, checked together: the split of a *)
(* region and its bvec array into bios (BvecDispatch), on a device with    *)
(* 1 KiB logical blocks (two sectors) and regions of up to three bvecs     *)
(* starting on a block or one sector into it; and the page helpers that    *)
(* build such arrays (WbPages), over every call with up to four entries,   *)
(* every block size and every first failing allocation.                    *)
(***************************************************************************)
EXTENDS BvecDispatch, WbPages

AnyStart == {0, 1}
AlignedStart == {0}

(* BLKSIZE_2K, BLKSIZE_4K and BLKSIZE_8K in sectors, with 4 KiB pages.     *)
MCBlkSizes == {4, 8, 16}

(* The two run side by side: a step is a step of the dispatch loop or a   *)
(* call of the caller of the page helpers.                                 *)
BuffersInit == Init /\ WInit

BuffersNext == (Next /\ UNCHANGED wvars) \/ (WNext /\ UNCHANGED vars)

BuffersSpec == BuffersInit /\ [][BuffersNext]_<<vars, wvars>> /\ Fairness
=============================================================================
