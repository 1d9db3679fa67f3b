----------------------------- MODULE IoContext -----------------------------
(***************************************************************************)
(* The reference-counted completion of eio_do_io (eio_ttc.c): one call of  *)
(* eio_sync_io or eio_async_io, the transfers eio_dispatch_io issues for   *)
(* it (aligned bios ended by eio_endio, and the read-modify-write of an    *)
(* unaligned head or tail by do_unaligned_io / end_unaligned_io /          *)
(* end_unaligned_free), and eio_dec_count, run by every completion and by  *)
(* the caller dropping its initial reference.  Completions run in any      *)
(* order, concurrently with the caller.                                    *)
(***************************************************************************)
EXTENDS Naturals, FiniteSets

CONSTANTS
    MaxBios,     \* largest number of transfers eio_dispatch_io makes
    Errors       \* results a device ends a bio with: "ok", "eio", ...

ASSUME MaxBios \in Nat \ {0} /\ {"ok", "eio"} \subseteq Errors

(* Results a transfer can end with: device results, and -ENOMEM from the   *)
(* allocations of the unaligned path.                                      *)
IoErrors == Errors \cup {"enomem"}

TStates == {"none", "io", "rmw_read", "rmw_write", "done"}
CallerStates == {"dispatch", "drop", "wait", "retry", "returned", "failed"}

VARIABLES
    mode,        \* "sync" (io_req->notify == NULL) or "async"
    op,          \* "read" or "write"
    mtype,       \* req->mtype: "bvecs" (EIO_BVECS) or "pages" (EIO_PAGES)
    nbios,       \* transfers the region splits into
    count,       \* io->count
    ioError,     \* io->error
    issued,      \* transfers submitted so far
    tstate,      \* state of each transfer
    caller,      \* where the caller of eio_do_io is
    fired,       \* times complete(io->event) or the callback was run
    freed,       \* the async context went back to _io_pool
    ret,         \* value eio_do_io returned
    errSeen      \* history: results of the transfers that ended

vars == <<mode, op, mtype, nbios, count, ioError, issued, tstate, caller, fired,
          freed, ret, errSeen>>

-----------------------------------------------------------------------------

(* Mutant: every completion overwrites io->error, success included.        *)
RecordErrorOverwrite(e) == e

(* eio_dec_count, lines 625-626: a non-zero error is stored in io->error.  *)
RecordError(e) == IF e # "ok" THEN e ELSE ioError

(* eio_dec_count: record the error and drop one reference; the last one    *)
(* completes the waiter of a sync I/O, or frees an async context and runs  *)
(* its callback.                                                           *)
DecCount(e) ==
    /\ ioError' = RecordError(e)
    /\ count' = count - 1
    /\ IF count = 1
          THEN /\ fired' = fired + 1
               /\ freed' = (mode = "async")
          ELSE UNCHANGED <<fired, freed>>

(* History only: a transfer ended with result e.                           *)
Observe(e) ==
    /\ errSeen' = errSeen \cup {e}

(* Only the head and the tail of a region can be unaligned.                *)
MayBeUnaligned(i) == i = 1 \/ i = nbios

(* eio_dispatch_io_pages issues the next bio of whole pages:              *)
(* atomic_inc(&io->count) then submit; it never fails.                    *)
DispatchPagesIssue ==
    /\ caller = "dispatch"
    /\ mtype = "pages"
    /\ issued < nbios
    /\ count' = count + 1
    /\ issued' = issued + 1
    /\ tstate' = [tstate EXCEPT ![issued + 1] = "io"]
    /\ UNCHANGED <<mode, op, mtype, nbios, ioError, caller, fired, freed, ret,
                   errSeen>>

(* Mutant: an unaligned transfer takes a second reference, as if both the  *)
(* dispatch loop and do_unaligned_io ran atomic_inc.                       *)
DispatchIssueDoubleInc(unaligned) ==
    /\ caller = "dispatch"
    /\ mtype = "bvecs"
    /\ issued < nbios
    /\ unaligned => MayBeUnaligned(issued + 1)
    /\ count' = count + (IF unaligned THEN 2 ELSE 1)
    /\ issued' = issued + 1
    /\ tstate' = [tstate EXCEPT ![issued + 1] = IF unaligned THEN "rmw_read" ELSE "io"]
    /\ UNCHANGED <<mode, op, mtype, nbios, ioError, caller, fired, freed, ret,
                   errSeen>>

(* eio_dispatch_io issues transfer issued+1: atomic_inc(&io->count) then   *)
(* submit_bio; an unaligned one first reads the whole logical block.       *)
DispatchIssue(unaligned) ==
    /\ caller = "dispatch"
    /\ mtype = "bvecs"
    /\ issued < nbios
    /\ unaligned => MayBeUnaligned(issued + 1)
    /\ count' = count + 1
    /\ issued' = issued + 1
    /\ tstate' = [tstate EXCEPT ![issued + 1] = IF unaligned THEN "rmw_read" ELSE "io"]
    /\ UNCHANGED <<mode, op, mtype, nbios, ioError, caller, fired, freed, ret,
                   errSeen>>

(* The kzalloc of the unaligned_bio, or an allocation of do_unaligned_io,  *)
(* fails: eio_dispatch_io returns -ENOMEM with earlier transfers in flight. *)
DispatchNoMem ==
    /\ caller = "dispatch"
    /\ mtype = "bvecs"
    /\ issued < nbios
    /\ MayBeUnaligned(issued + 1)
    /\ caller' = "retry"
    /\ ret' = "enomem"
    /\ UNCHANGED <<mode, op, mtype, nbios, count, ioError, issued, tstate, fired,
                   freed, errSeen>>

DispatchReturn ==
    /\ caller = "dispatch"
    /\ issued = nbios
    /\ caller' = "drop"
    /\ UNCHANGED <<mode, op, mtype, nbios, count, ioError, issued, tstate, fired,
                   freed, ret, errSeen>>

(* eio_endio: an aligned transfer ends and drops its reference.           *)
TransferEnd(i, e) ==
    /\ tstate[i] = "io"
    /\ tstate' = [tstate EXCEPT ![i] = "done"]
    /\ DecCount(e) /\ Observe(e)
    /\ UNCHANGED <<mode, op, mtype, nbios, issued, caller, ret>>

(* end_unaligned_free: the write-back of an unaligned block ends; its page, *)
(* unaligned_bio and bio are released and the transfer drops its reference.*)
UnalignedWriteEnd(i, e) ==
    /\ tstate[i] = "rmw_write"
    /\ tstate' = [tstate EXCEPT ![i] = "done"]
    /\ DecCount(e) /\ Observe(e)
    /\ UNCHANGED <<mode, op, mtype, nbios, issued, caller, ret>>

(* end_unaligned_io: the read of the block of an unaligned transfer ends.  *)
(* On error, or for a read (after copying out), the transfer ends; for a   *)
(* write the caller's bytes are copied in and the block is written back:  *)
(* bio_alloc(GFP_NOIO) waits on its mempool and one page always fits an    *)
(* empty one-vec bio, so the -ENOMEM branches at 786-797 are not taken.    *)
UnalignedReadEnd(i, e) ==
    /\ tstate[i] = "rmw_read"
    /\ IF e = "ok" /\ op = "write"
          THEN /\ tstate' = [tstate EXCEPT ![i] = "rmw_write"]
               /\ UNCHANGED <<count, ioError, fired, freed, errSeen>>
          ELSE /\ tstate' = [tstate EXCEPT ![i] = "done"]
               /\ DecCount(e) /\ Observe(e)
    /\ UNCHANGED <<mode, op, mtype, nbios, issued, caller, ret>>

(* The caller drops the reference it took with atomic_set(&io->count, 1). *)
DropRef ==
    /\ caller = "drop"
    /\ DecCount("ok")
    /\ caller' = IF mode = "sync" THEN "wait" ELSE "returned"
    /\ ret' = "ok"
    /\ UNCHANGED <<mode, op, mtype, nbios, issued, tstate, errSeen>>

(* Mutant: the sync caller returns without wait_for_completion.            *)
WaitForCompletionSkipped ==
    /\ caller = "wait"
    /\ caller' = "returned"
    /\ ret' = ioError
    /\ UNCHANGED <<mode, op, mtype, nbios, count, ioError, issued, tstate, fired,
                   freed, errSeen>>

(* eio_sync_io: wait_for_completion, then return io.error if set.          *)
WaitForCompletion ==
    /\ caller = "wait"
    /\ fired > 0
    /\ caller' = "returned"
    /\ ret' = ioError
    /\ UNCHANGED <<mode, op, mtype, nbios, count, ioError, issued, tstate, fired,
                   freed, errSeen>>

(* Mutant: the poll waits for the count to reach zero.                    *)
RetryWaitForZero ==
    /\ caller = "retry"
    /\ count = 0
    /\ caller' = "failed"
    /\ freed' = (mode = "async")
    /\ UNCHANGED <<mode, op, mtype, nbios, count, ioError, issued, tstate, fired,
                   ret, errSeen>>

(* After a failed submission: poll until only the caller's reference is    *)
(* left, then (async) give the context back to the pool and return.       *)
RetryWait ==
    /\ caller = "retry"
    /\ count = 1
    /\ caller' = "failed"
    /\ freed' = (mode = "async")
    /\ UNCHANGED <<mode, op, mtype, nbios, count, ioError, issued, tstate, fired,
                   ret, errSeen>>

-----------------------------------------------------------------------------

Init ==
    /\ mode \in {"sync", "async"}
    /\ op \in {"read", "write"}
    /\ mtype \in {"bvecs", "pages"}
    /\ nbios \in 1..MaxBios
    /\ count = 1
    /\ ioError = "ok"
    /\ issued = 0
    /\ tstate = [i \in 1..MaxBios |-> "none"]
    /\ caller = "dispatch"
    /\ fired = 0
    /\ freed = FALSE
    /\ ret = "ok"
    /\ errSeen = {}

Next ==
    \/ DispatchPagesIssue
    \/ \E unaligned \in BOOLEAN : DispatchIssue(unaligned)
    \/ DispatchNoMem
    \/ DispatchReturn
    \/ \E i \in 1..MaxBios, e \in Errors :
          TransferEnd(i, e) \/ UnalignedReadEnd(i, e) \/ UnalignedWriteEnd(i, e)
    \/ DropRef
    \/ WaitForCompletion
    \/ RetryWait

(* The devices end every submitted bio and the caller's thread runs; an    *)
(* allocation failure is not forced.                                       *)
Fairness ==
    /\ WF_vars(DispatchPagesIssue)
    /\ WF_vars(\E unaligned \in BOOLEAN : DispatchIssue(unaligned))
    /\ WF_vars(DispatchReturn)
    /\ \A i \in 1..MaxBios :
          WF_vars(\E e \in Errors : TransferEnd(i, e) \/ UnalignedReadEnd(i, e)
                                     \/ UnalignedWriteEnd(i, e))
    /\ WF_vars(DropRef)
    /\ WF_vars(WaitForCompletion)
    /\ WF_vars(RetryWait)

Spec == Init /\ [][Next]_vars
FairSpec == Spec /\ Fairness

-----------------------------------------------------------------------------
(* Refinement: the engine implements IoCompletion.                          *)

Abs == INSTANCE IoCompletion WITH
    Errors <- IoErrors,
    issued <- issued,
    pending <- {i \in 1..issued : tstate[i] # "done"},
    seen <- errSeen,
    closed <- caller \in {"wait", "returned"},
    signalled <- fired > 0,
    result <- IF fired > 0 THEN ioError ELSE "ok",
    abandoned <- caller = "failed"

(* eio_do_io implements the promise of the dispatch engine: one completion, *)
(* signalled exactly when the last transfer and the caller's reference are *)
(* gone, carrying an error if any transfer failed; a failed submission is  *)
(* given up only after every issued transfer has ended.                    *)
AbsSpec == Abs!Spec

(* Properties                                                               *)

TypeOK ==
    /\ mode \in {"sync", "async"}
    /\ op \in {"read", "write"}
    /\ mtype \in {"bvecs", "pages"}
    /\ nbios \in 1..MaxBios
    /\ count \in 0..MaxBios + 1
    /\ ioError \in IoErrors
    /\ issued \in 0..MaxBios
    /\ tstate \in [1..MaxBios -> TStates]
    /\ caller \in CallerStates
    /\ fired \in Nat
    /\ freed \in BOOLEAN
    /\ ret \in IoErrors
    /\ errSeen \subseteq IoErrors

(* The eio_context outlives every transfer that points to it: the async    *)
(* context is given back to the pool, and the stack context of a sync call *)
(* disappears when eio_sync_io returns, only after every issued transfer   *)
(* has ended (no eio_dec_count on freed memory).                           *)
ContextOutlivesTransfers ==
    (freed \/ (mode = "sync" /\ caller \in {"returned", "failed"}))
        => \A i \in 1..issued : tstate[i] = "done"

(* Every call of eio_do_io returns, and one that did not fail its          *)
(* submission has its completion signalled.                                *)
CallerFinishes ==
    <>(caller = "failed" \/ (caller = "returned" /\ fired = 1))

=============================================================================
