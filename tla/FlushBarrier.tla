---------------------------- MODULE FlushBarrier ----------------------------
(***************************************************************************)
(* The empty barrier flushes of eio_ttc.c: eio_process_zero_size_bio sends *)
(* one to the cache device and one, carrying the original zero-size bio,   *)
(* to the source disk; eio_ttc_activate sends one to the source disk.      *)
(* Each is eio_issue_empty_barrier_flush: bio_alloc, bio_get, submit (to   *)
(* the disk through hdd_make_request), bio_put.  The device ends the bio   *)
(* in eio_bio_end_empty_barrier, which ends the original bio, if any, and  *)
(* puts the barrier; it runs concurrently with the issuer, or inside       *)
(* hdd_make_request when the disk has no queue.                            *)
(***************************************************************************)
EXTENDS Integers, FiniteSets, Sequences

(* The barrier bios: the cache-device and disk flushes of a zero-size bio, *)
(* and the activation flush.                                               *)
Barriers == {"ssd", "hdd", "act"}
NoBio == "none"

(* The callers of eio_issue_empty_barrier_flush and the barriers each      *)
(* issues, in order.                                                       *)
Issuers == {"zero", "activate"}

VARIABLES
    fidx,       \* [Issuers -> Nat]: the next barrier of the issuer's order
    fheld,      \* [Issuers -> Barriers \cup {NoBio}]: submitted, not yet put
    bref,       \* [Barriers -> Int]: the bio's reference count
    bstate,     \* [Barriers -> ...]: "unalloc", "dev" (the device holds it), "ended"
    origEnds,   \* times EIO_BIO_ENDIO ran on the original zero-size bio
    origErr,    \* the error it was ended with
    hddQueue    \* bdev_get_queue of the source disk is not NULL

fvars == <<fidx, fheld, bref, bstate, origEnds, origErr, hddQueue>>

-----------------------------------------------------------------------------

(* eio_process_zero_size_bio: the cache device first, with no original bio; *)
(* then the disk, through origmfn, with the original bio.  eio_ttc_activate *)
(* issues one disk barrier with no original bio.                           *)
Order == [zero |-> <<"ssd", "hdd">>, activate |-> <<"act">>]
(* Mutant: the cache-device barrier is also given the original bio.        *)
PrivateBoth(b) == b \in {"ssd", "hdd"}

Private(b) == b = "hdd"
OnDisk(b) == b \in {"hdd", "act"}

(* hdd_make_request: with no queue on the disk the bio is ended with -EIO  *)
(* at once; otherwise origmfn is called, and if it returns non-zero        *)
(* generic_make_request submits the bio.                                   *)
EndedAtSubmit(b) == OnDisk(b) /\ ~hddQueue

(* Mutant: no bio_get before the submit.                                   *)
GetRefMissing(r) == r

(* bio_get / bio_put.                                                      *)
GetRef(r) == r + 1
PutRef(r) == r - 1

(* eio_bio_end_empty_barrier: end the original bio, if bi_private holds it, *)
(* with the barrier's error, and put the barrier.                          *)
EndEffects(b, e) ==
    /\ origEnds' = IF Private(b) THEN origEnds + 1 ELSE origEnds
    /\ origErr' = IF Private(b) THEN e ELSE origErr

(* eio_issue_empty_barrier_flush up to its submit: bio_alloc (one          *)
(* reference; with GFP_KERNEL it waits on the mempool and does not fail),  *)
(* bio_get, then submit_bio for the cache device or hdd_make_request for   *)
(* the disk.  hdd_make_request with no queue ends the bio with -EIO before *)
(* it returns; otherwise origmfn submits it, or returns non-zero and       *)
(* generic_make_request does.                                              *)
IssueBarrier(i) ==
    /\ fheld[i] = NoBio
    /\ fidx[i] <= Len(Order[i])
    /\ LET b == Order[i][fidx[i]]
           r == GetRef(1)
       IN /\ fheld' = [fheld EXCEPT ![i] = b]
          /\ IF EndedAtSubmit(b)
                THEN /\ bstate' = [bstate EXCEPT ![b] = "ended"]
                     /\ bref' = [bref EXCEPT ![b] = PutRef(r)]
                     /\ EndEffects(b, "eio")
                ELSE /\ bstate' = [bstate EXCEPT ![b] = "dev"]
                     /\ bref' = [bref EXCEPT ![b] = r]
                     /\ UNCHANGED <<origEnds, origErr>>
    /\ UNCHANGED <<fidx, hddQueue>>

(* The bio_put after the submit; the issuer returns, and                    *)
(* eio_process_zero_size_bio goes on to its next barrier.                  *)
PutIssued(i) ==
    /\ fheld[i] # NoBio
    /\ bref' = [bref EXCEPT ![fheld[i]] = PutRef(@)]
    /\ fheld' = [fheld EXCEPT ![i] = NoBio]
    /\ fidx' = [fidx EXCEPT ![i] = @ + 1]
    /\ UNCHANGED <<bstate, origEnds, origErr, hddQueue>>

(* The device ends barrier b with error e: eio_bio_end_empty_barrier.      *)
EndBarrier(b, e) ==
    /\ bstate[b] = "dev"
    /\ bstate' = [bstate EXCEPT ![b] = "ended"]
    /\ bref' = [bref EXCEPT ![b] = PutRef(@)]
    /\ EndEffects(b, e)
    /\ UNCHANGED <<fidx, fheld, hddQueue>>

FInit ==
    /\ fidx = [i \in Issuers |-> 1]
    /\ fheld = [i \in Issuers |-> NoBio]
    /\ bref = [b \in Barriers |-> 0]
    /\ bstate = [b \in Barriers |-> "unalloc"]
    /\ origEnds = 0
    /\ origErr = "ok"
    /\ hddQueue \in BOOLEAN

FNext ==
    \/ \E i \in Issuers : IssueBarrier(i) \/ PutIssued(i)
    \/ \E b \in Barriers, e \in {"ok", "eio"} : EndBarrier(b, e)

(* The devices end every submitted bio and the issuers' threads run.       *)
FFairness ==
    /\ \A i \in Issuers : WF_fvars(IssueBarrier(i)) /\ WF_fvars(PutIssued(i))
    /\ \A b \in Barriers : WF_fvars(\E e \in {"ok", "eio"} : EndBarrier(b, e))

FSpec == FInit /\ [][FNext]_fvars /\ FFairness

-----------------------------------------------------------------------------
(* Properties                                                               *)

(* The parties that will still bio_put a barrier: the device until         *)
(* eio_bio_end_empty_barrier runs, and the issuer until its own bio_put.   *)
Holders(b) ==
    Cardinality({i \in Issuers : fheld[i] = b}) + (IF bstate[b] = "dev" THEN 1 ELSE 0)

(* The completion of a barrier can run before the issuer's bio_put after   *)
(* the submit, or after it: the reference count of every barrier equals    *)
(* the number of parties that will still put it, so neither put frees the  *)
(* bio under the other (eio_issue_empty_barrier_flush's bio_get) and none  *)
(* is left over (no leak).                                                 *)
BarrierRefsMatchHolders ==
    \A b \in Barriers : bref[b] = Holders(b)

(* The original zero-size bio is ended, and then stays ended exactly once   *)
(* (origEnds only grows): by the disk barrier's completion, or by          *)
(* hdd_make_request when the disk has no queue; the cache-device barrier   *)
(* never ends it.                                                          *)
OrigEndedOnce ==
    <>[](origEnds = 1)

=============================================================================
