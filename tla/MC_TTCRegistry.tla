--------------------------- MODULE MC_TTCRegistry ---------------------------
(***************************************************************************)
(* A disk of sectors 0..5 with partitions p1 = 1..2 and p2 = 3..4 (sectors *)
(* 0 and 5 belong to no partition, like a partition table and a gap), and  *)
(* bios that exercise every routing case: one inside p1, one across the    *)
(* p1/p2 boundary, a discard across the start of p1, and (in the run on    *)
(* the overlap test) one that spans the whole of p1.                       *)
(***************************************************************************)
EXTENDS TTCRegistry, TLC

CONSTANTS disk, p1, p2, bIn, bCross, bDiscard, bSpan, c1, c2, c3

MCDevs == {disk, p1, p2}
MCDevStart == (disk :> 0) @@ (p1 :> 1) @@ (p2 :> 3)
MCDevEnd == (disk :> 5) @@ (p1 :> 2) @@ (p2 :> 4)

MCBioStart == (bIn :> 1) @@ (bCross :> 2) @@ (bDiscard :> 0) @@ (bSpan :> 0)
MCBioEnd == (bIn :> 2) @@ (bCross :> 3) @@ (bDiscard :> 1) @@ (bSpan :> 3)
MCBioOp == (bIn :> "rw") @@ (bCross :> "rw") @@ (bDiscard :> "discard")
              @@ (bSpan :> "rw")

(* The routine workload: every bio a filesystem on p1 or p2, or a tool on  *)
(* the whole disk, issues except one spanning a whole partition.           *)
RoutineBios == {bIn, bCross, bDiscard}
CrossAndDiscard == {bCross, bDiscard}
NoBios == {}
SpanBios == {bSpan}
OneCache == {c1}
TwoCaches == {c1, c2}
ThreeCaches == {c1, c2, c3}

(* Caches are interchangeable names: safety runs are checked up to a      *)
(* permutation of them.                                                    *)
CacheSymmetry == Permutations(TwoCaches)
=============================================================================
