----------------------------- MODULE TTCRegistry -----------------------------
(***************************************************************************)
(* The registry, routing decision and activation/deactivation of cache     *)
(* bindings in src/Driver/enhanceio/eio_ttc.c, for the bindings of ONE     *)
(* source disk: one bucket eio_ttc_list[index] with its rw_semaphore       *)
(* eio_ttc_lock[index], the disk queue's make_request_fn, and the bios     *)
(* that enter eio_make_request_fn concurrently with the control path.      *)
(*                                                                         *)
(* Every critical section under the read lock (the routing scan and the    *)
(* eio_map call made inside it) or under the write lock (activate, the     *)
(* unlink step of deactivate) is one atomic step; the only place the write *)
(* lock is held across a wait (eio_finish_nrdirty draining nr_ios) is      *)
(* modelled by the owner variable ttcWriter.                               *)
(***************************************************************************)
EXTENDS Integers, Sequences, FiniteSets, SequencesExt

CONSTANTS
    Caches,       \* cache instances (struct cache_c)
    NoCache,      \* no owner of the write lock / no binding
    Devs,         \* the disk and its partitions (struct block_device)
    NoDev,        \* device of a cache that is not created
    WholeDisk,    \* the element of Devs with bdev == bdev->bd_contains
    DevStart,     \* [Devs -> Nat]: bd_part->start_sect
    DevEnd,       \* [Devs -> Nat]: start_sect + nr_sects - 1
    Bios,         \* bios submitted by applications to the disk
    BioStart,     \* [Bios -> Nat]: first sector (absolute, after partition remap)
    BioEnd,       \* [Bios -> Nat]: last sector
    BioOp,        \* [Bios -> {"rw", "discard"}]
    Modes,        \* modes a cache is created with, a subset of {"wb", "wt", "ro"}
    MaxCreates    \* bound on create attempts per cache

ASSUME WholeDisk \in Devs /\ NoDev \notin Devs /\ NoCache \notin Caches
ASSUME \A b \in Bios : BioStart[b] <= BioEnd[b]

Parent == -1
(* A request is a submitted bio <<b, Parent>> or the one-sector child      *)
(* <<b, s>> that eio_overlap_split_bio makes for sector s of bio b.        *)
Children(b) == {<<b, s>> : s \in BioStart[b]..BioEnd[b]}
Req == {<<b, Parent>> : b \in Bios} \cup UNION {Children(b) : b \in Bios}
IsChild(r) == r[2] # Parent
ParentOf(r) == <<r[1], Parent>>
Start(r) == IF IsChild(r) THEN r[2] ELSE BioStart[r[1]]
End(r) == IF IsChild(r) THEN r[2] ELSE BioEnd[r[1]]

Mfn == {"orig", "eio"}      \* the disk's own make_request_fn, or eio_make_request_fn
Errs == {"ok", "eio", "enomem", "eopnotsupp"}
CStates == {"free", "checked", "active", "nrdirty_lock", "nrdirty_drain",
            "nrdirty_clean", "unlink", "drain"}
PcStates == {"idle", "new", "lookup", "forward", "split", "wait",
             "cache", "disk", "done"}

VARIABLES
    ttcList,        \* eio_ttc_list[index]: the linked bindings, in list order
    makeRequestFn,  \* rq->make_request_fn of the disk queue
    ttcWriter,      \* holder of eio_ttc_lock[index] for writing, or NoCache
    cstate,         \* control thread of each cache: where its create/delete is
    cdev,           \* dmc->disk_dev->bdev
    devInfo,        \* dmc->dev_info: "whole" or "partition"
    origMfn,        \* dmc->origmfn
    cmode,          \* dmc->mode
    cfailed,        \* CACHE_FAILED_IS_SET(dmc)
    nrIos,          \* dmc->nr_ios: bios mapped by eio_map and not yet ended
    creates,        \* create attempts made per cache (bounded by MaxCreates)
    cret,           \* last value returned to the control caller
    pc,             \* where each request is
    target,         \* the cache a request was mapped to by eio_map
    lookupMfn,      \* local origmfn of eio_make_request_fn after the scan
    holdCount,      \* bc->bc_holdcount of each split bio
    bcError,        \* bc->bc_error of each split bio
    endio,          \* number of times bio_endio was called on a request
    bioError        \* error a request was ended with

ctlVars == <<cstate, cdev, devInfo, origMfn, cmode, cfailed, creates, cret>>
ioVars == <<pc, target, lookupMfn, holdCount, bcError, endio, bioError>>
vars == <<ttcList, makeRequestFn, ttcWriter, nrIos, ctlVars, ioVars>>

-----------------------------------------------------------------------------
(* Helpers: the tests eio_ttc.c applies to a binding                        *)

Linked == ToSet(ttcList)

(* A request that fits in the partition of binding c (lines 401-404).     *)
Fits(r, c) == Start(r) >= DevStart[cdev[c]] /\ End(r) <= DevEnd[cdev[c]]

(* Mutant: the overlap test checks only the first sector of the request.  *)
StraddlesStartOnly(r, c) ==
    Start(r) >= DevStart[cdev[c]] /\ Start(r) <= DevEnd[cdev[c]]

(* The overlap test of lines 411-416: the first or the last sector of the  *)
(* request lies in the partition of c.                                     *)
Straddles(r, c) ==
    \/ Start(r) >= DevStart[cdev[c]] /\ Start(r) <= DevEnd[cdev[c]]
    \/ End(r) >= DevStart[cdev[c]] /\ End(r) <= DevEnd[cdev[c]]

(* The scan of eio_make_request_fn stops at the first binding that claims  *)
(* the whole disk, contains the request, or overlaps it (lines 387-424).   *)
StopsScan(r, c) == devInfo[c] = "whole" \/ Fits(r, c) \/ Straddles(r, c)

(* Mutant: the wholedisk clause of the conflict test is missing.          *)
ConflictsWithoutWholeDisk(d, c1) ==
    devInfo[c1] = "whole" \/ cdev[c1] = d

(* A binding c1 forbids binding device d (lines 207-208 and 612-613).      *)
ConflictsWith(d, c1) ==
    d = WholeDisk \/ devInfo[c1] = "whole" \/ cdev[c1] = d

-----------------------------------------------------------------------------
(* bio_endio on request r with error e.  A child's bi_end_io is            *)
(* eio_split_endio: it records its error in the container and the last     *)
(* child to drop bc_holdcount ends the parent with bc_error.               *)

(* Mutant: every child overwrites bc_error, success included.             *)
SplitErrorOverwrite(b, e) == e

SplitError(b, e) == IF e # "ok" THEN e ELSE bcError[b]

BioEndio(r, e) ==
    LET b == r[1]
        p == ParentOf(r)
        last == IsChild(r) /\ holdCount[b] = 1
    IN /\ pc' = [pc EXCEPT ![r] = "done", ![p] = IF last THEN "done" ELSE @]
       /\ endio' = [endio EXCEPT ![r] = @ + 1, ![p] = IF last THEN @ + 1 ELSE @]
       /\ bioError' = [bioError EXCEPT ![r] = e,
                                       ![p] = IF last THEN SplitError(b, e) ELSE @]
       /\ holdCount' = IF IsChild(r) THEN [holdCount EXCEPT ![b] = @ - 1]
                                    ELSE holdCount
       /\ bcError' = IF IsChild(r) THEN [bcError EXCEPT ![b] = SplitError(b, e)]
                                  ELSE bcError

-----------------------------------------------------------------------------
(* Control path: create (eio_do_preliminary_checks, eio_ttc_activate) and  *)
(* delete (eio_ttc_deactivate with eio_finish_nrdirty).                    *)

PreliminaryChecks(c, d, m) ==
    /\ cstate[c] = "free"
    /\ creates[c] < MaxCreates
    /\ ttcWriter = NoCache
    /\ creates' = [creates EXCEPT ![c] = @ + 1]
    /\ IF \E c1 \in Linked : ConflictsWith(d, c1)
          THEN /\ cret' = [cret EXCEPT ![c] = "einval"]
               /\ UNCHANGED <<cstate, cdev, cmode>>
          ELSE /\ cstate' = [cstate EXCEPT ![c] = "checked"]
               /\ cdev' = [cdev EXCEPT ![c] = d]
               /\ cmode' = [cmode EXCEPT ![c] = m]
               /\ cret' = [cret EXCEPT ![c] = "none"]
    /\ UNCHANGED <<ttcList, makeRequestFn, ttcWriter, nrIos, devInfo, origMfn,
                   cfailed, ioVars>>

(* The scan of eio_ttc_activate looks at the first binding of the disk     *)
(* only: it either fails on it or takes its origmfn and breaks.            *)
ActivateConflict(c) ==
    ttcList # <<>> /\ ConflictsWith(cdev[c], Head(ttcList))

TtcActivate(c) ==
    /\ cstate[c] = "checked"
    /\ ttcWriter = NoCache
    /\ IF ActivateConflict(c)
          THEN /\ cstate' = [cstate EXCEPT ![c] = "free"]
               /\ cret' = [cret EXCEPT ![c] = "einval"]
               /\ UNCHANGED <<ttcList, makeRequestFn, devInfo, origMfn>>
          ELSE LET sibling == ttcList # <<>>
               IN /\ origMfn' = [origMfn EXCEPT ![c] =
                        IF sibling THEN origMfn[Head(ttcList)] ELSE makeRequestFn]
                  /\ makeRequestFn' = IF sibling THEN makeRequestFn ELSE "eio"
                  /\ devInfo' = [devInfo EXCEPT ![c] =
                        IF ~sibling /\ cdev[c] = WholeDisk THEN "whole"
                                                           ELSE "partition"]
                  /\ ttcList' = Append(ttcList, c)
                  /\ cstate' = [cstate EXCEPT ![c] = "active"]
                  /\ cret' = [cret EXCEPT ![c] = "ok"]
    /\ UNCHANGED <<ttcWriter, nrIos, cdev, cmode, cfailed, creates, ioVars>>

TtcDeactivate(c, force) ==
    /\ cstate[c] = "active"
    /\ cstate' = [cstate EXCEPT ![c] =
          IF ~force /\ cmode[c] = "wb" /\ ~cfailed[c] THEN "nrdirty_lock"
                                                      ELSE "unlink"]
    /\ UNCHANGED <<ttcList, makeRequestFn, ttcWriter, nrIos, cdev, devInfo,
                   origMfn, cmode, cfailed, creates, cret, ioVars>>

(* eio_finish_nrdirty takes the write lock and waits, holding it, for the  *)
(* in-flight bios of the cache to drain.                                   *)
FinishNrdirtyLock(c) ==
    /\ cstate[c] = "nrdirty_lock"
    /\ ttcWriter = NoCache
    /\ ttcWriter' = c
    /\ cstate' = [cstate EXCEPT ![c] = "nrdirty_drain"]
    /\ UNCHANGED <<ttcList, makeRequestFn, nrIos, cdev, devInfo, origMfn,
                   cmode, cfailed, creates, cret, ioVars>>

FinishNrdirtyDrain(c) ==
    /\ cstate[c] = "nrdirty_drain"
    /\ nrIos[c] = 0
    /\ ttcWriter' = NoCache
    /\ cstate' = [cstate EXCEPT ![c] = "nrdirty_clean"]
    /\ UNCHANGED <<ttcList, makeRequestFn, nrIos, cdev, devInfo, origMfn,
                   cmode, cfailed, creates, cret, ioVars>>

(* Mutant: the clean loop does not look at the failed flag.               *)
FinishNrdirtyCleanIgnoringFailure(c) ==
    /\ cstate[c] = "nrdirty_clean"
    /\ ~cfailed[c]
    /\ cstate' = [cstate EXCEPT ![c] = "unlink"]
    /\ UNCHANGED <<ttcList, makeRequestFn, ttcWriter, nrIos, cdev, devInfo,
                   origMfn, cmode, cfailed, creates, cret, ioVars>>

(* The clean loop ends when the cleaner has written back every dirty block *)
(* or the cache has failed; on failure eio_ttc_deactivate returns -ENODEV  *)
(* and the cache stays bound.                                              *)
FinishNrdirtyClean(c) ==
    /\ cstate[c] = "nrdirty_clean"
    /\ IF cfailed[c]
          THEN /\ cstate' = [cstate EXCEPT ![c] = "active"]
               /\ cret' = [cret EXCEPT ![c] = "enodev"]
          ELSE /\ cstate' = [cstate EXCEPT ![c] = "unlink"]
               /\ UNCHANGED cret
    /\ UNCHANGED <<ttcList, makeRequestFn, ttcWriter, nrIos, cdev, devInfo,
                   origMfn, cmode, cfailed, creates, ioVars>>

(* Mutant: the queue's make_request_fn is restored whatever siblings remain. *)
TtcUnlinkIgnoringSiblings(c) ==
    /\ cstate[c] = "unlink"
    /\ ttcWriter = NoCache
    /\ makeRequestFn' = origMfn[c]
    /\ ttcList' = Remove(ttcList, c)
    /\ cstate' = [cstate EXCEPT ![c] = "drain"]
    /\ UNCHANGED <<ttcWriter, nrIos, cdev, devInfo, origMfn, cmode, cfailed,
                   creates, cret, ioVars>>

(* Under the write lock: restore the queue's make_request_fn unless some   *)
(* other partition of the disk is still cached, and unlink the binding.    *)
TtcUnlink(c) ==
    /\ cstate[c] = "unlink"
    /\ ttcWriter = NoCache
    /\ LET foundPartitions == devInfo[c] # "whole" /\ Linked \ {c} # {}
       IN makeRequestFn' = IF ~foundPartitions THEN origMfn[c] ELSE makeRequestFn
    /\ ttcList' = Remove(ttcList, c)
    /\ cstate' = [cstate EXCEPT ![c] = "drain"]
    /\ UNCHANGED <<ttcWriter, nrIos, cdev, devInfo, origMfn, cmode, cfailed,
                   creates, cret, ioVars>>

(* Mutant: the cache is freed without waiting for nr_ios to drain.        *)
TtcDrainNoWait(c) ==
    /\ cstate[c] = "drain"
    /\ cstate' = [cstate EXCEPT ![c] = "free"]
    /\ cdev' = [cdev EXCEPT ![c] = NoDev]
    /\ cfailed' = [cfailed EXCEPT ![c] = FALSE]
    /\ cret' = [cret EXCEPT ![c] = "ok"]
    /\ UNCHANGED <<ttcList, makeRequestFn, ttcWriter, nrIos, devInfo, origMfn,
                   cmode, creates, ioVars>>

(* After the unlock, poll until nr_ios is zero; the caller then frees dmc. *)
TtcDrain(c) ==
    /\ cstate[c] = "drain"
    /\ nrIos[c] = 0
    /\ cstate' = [cstate EXCEPT ![c] = "free"]
    /\ cdev' = [cdev EXCEPT ![c] = NoDev]
    /\ cfailed' = [cfailed EXCEPT ![c] = FALSE]
    /\ cret' = [cret EXCEPT ![c] = "ok"]
    /\ UNCHANGED <<ttcList, makeRequestFn, ttcWriter, nrIos, devInfo, origMfn,
                   cmode, creates, ioVars>>

(* The cache device fails (environment: an I/O error of the SSD).          *)
CacheFail(c) ==
    /\ cstate[c] \notin {"free", "checked"}
    /\ ~cfailed[c]
    /\ cfailed' = [cfailed EXCEPT ![c] = TRUE]
    /\ UNCHANGED <<ttcList, makeRequestFn, ttcWriter, nrIos, cstate, cdev,
                   devInfo, origMfn, cmode, creates, cret, ioVars>>


-----------------------------------------------------------------------------
(* I/O path.                                                               *)

(* The block layer calls the queue's make_request_fn with a new bio        *)
(* (environment: generic_make_request).                                    *)
Submit(b) ==
    LET r == <<b, Parent>>
    IN /\ pc[r] = "new"
       /\ pc' = [pc EXCEPT ![r] = IF makeRequestFn = "eio" THEN "lookup" ELSE "disk"]
       /\ UNCHANGED <<ttcList, makeRequestFn, ttcWriter, nrIos, ctlVars, target,
                      lookupMfn, holdCount, bcError, endio, bioError>>

(* eio_overlap_split_bio hands its children to eio_make_request_fn one     *)
(* after the other: child s starts once child s-1 has been dispatched.     *)
ChildTurn(r) ==
    IF IsChild(r) /\ r[2] > BioStart[r[1]]
       THEN pc[<<r[1], r[2] - 1>>] \notin {"lookup", "forward"}
       ELSE TRUE

(* The scan of eio_make_request_fn under down_read, and what it does before *)
(* up_read: eio_map for a cached request (which counts it in nr_ios), the  *)
(* -EOPNOTSUPP end of an overlapping discard, or nothing.                  *)
MakeRequestLookup(r) ==
    /\ pc[r] = "lookup"
    /\ ttcWriter = NoCache
    /\ ChildTurn(r)
    /\ LET i == SelectInSeq(ttcList, LAMBDA c : StopsScan(r, c))
           dmc == ttcList[i]
       IN CASE i > 0 /\ (devInfo[dmc] = "whole" \/ Fits(r, dmc)) ->
                 /\ pc' = [pc EXCEPT ![r] = "cache"]
                 /\ target' = [target EXCEPT ![r] = dmc]
                 /\ nrIos' = [nrIos EXCEPT ![dmc] = @ + 1]
                 /\ UNCHANGED <<lookupMfn, holdCount, bcError, endio, bioError>>
            [] i > 0 /\ BioOp[r[1]] = "discard" ->
                 /\ BioEndio(r, "eopnotsupp")
                 /\ UNCHANGED <<target, lookupMfn, nrIos>>
            [] i > 0 ->
                 /\ pc' = [pc EXCEPT ![r] = "split"]
                 /\ UNCHANGED <<target, lookupMfn, nrIos, holdCount, bcError,
                                endio, bioError>>
            [] OTHER ->
                 /\ pc' = [pc EXCEPT ![r] = "forward"]
                 /\ lookupMfn' = [lookupMfn EXCEPT ![r] =
                       IF ttcList = <<>> THEN "none" ELSE origMfn[Head(ttcList)]]
                 /\ UNCHANGED <<target, nrIos, holdCount, bcError, endio, bioError>>
    /\ UNCHANGED <<ttcList, makeRequestFn, ttcWriter, ctlVars>>

(* Mutant: a NULL origmfn restarts the lookup instead of reading q->mfn.  *)
MakeRequestForwardNoFallback(r) ==
    /\ pc[r] = "forward"
    /\ LET m == IF lookupMfn[r] = "none" THEN "eio" ELSE lookupMfn[r]
       IN pc' = [pc EXCEPT ![r] = IF m = "eio" THEN "lookup" ELSE "disk"]
    /\ UNCHANGED <<ttcList, makeRequestFn, ttcWriter, nrIos, ctlVars, target,
                   lookupMfn, holdCount, bcError, endio, bioError>>

(* After up_read: with no origmfn from a binding, read q->make_request_fn; *)
(* if that is eio_make_request_fn again, restart the lookup; otherwise     *)
(* hdd_make_request sends the bio to the disk.                             *)
MakeRequestForward(r) ==
    /\ pc[r] = "forward"
    /\ LET m == IF lookupMfn[r] = "none" THEN makeRequestFn ELSE lookupMfn[r]
       IN pc' = [pc EXCEPT ![r] = IF m = "eio" THEN "lookup" ELSE "disk"]
    /\ UNCHANGED <<ttcList, makeRequestFn, ttcWriter, nrIos, ctlVars, target,
                   lookupMfn, holdCount, bcError, endio, bioError>>

(* Mutant: bc_holdcount starts one short of the number of children.       *)
OverlapSplitBioShortHold(b) ==
    LET p == <<b, Parent>>
    IN /\ pc[p] = "split"
       /\ holdCount' = [holdCount EXCEPT ![b] = Cardinality(Children(b)) - 1]
       /\ bcError' = [bcError EXCEPT ![b] = "ok"]
       /\ pc' = [r \in Req |-> IF r \in Children(b) THEN "lookup"
                               ELSE IF r = p THEN "wait" ELSE pc[r]]
       /\ UNCHANGED <<ttcList, makeRequestFn, ttcWriter, nrIos, ctlVars, target,
                      lookupMfn, endio, bioError>>

(* Mutant: the container holds one reference more than there are children. *)
OverlapSplitBioOverHold(b) ==
    LET p == <<b, Parent>>
    IN /\ pc[p] = "split"
       /\ holdCount' = [holdCount EXCEPT ![b] = Cardinality(Children(b)) + 1]
       /\ bcError' = [bcError EXCEPT ![b] = "ok"]
       /\ pc' = [r \in Req |-> IF r \in Children(b) THEN "lookup"
                               ELSE IF r = p THEN "wait" ELSE pc[r]]
       /\ UNCHANGED <<ttcList, makeRequestFn, ttcWriter, nrIos, ctlVars, target,
                      lookupMfn, endio, bioError>>

(* eio_overlap_split_bio: one single-sector child per sector, a container  *)
(* holding all of them, every child re-entering eio_make_request_fn.       *)
OverlapSplitBio(b) ==
    LET p == <<b, Parent>>
    IN /\ pc[p] = "split"
       /\ holdCount' = [holdCount EXCEPT ![b] = Cardinality(Children(b))]
       /\ bcError' = [bcError EXCEPT ![b] = "ok"]
       /\ pc' = [r \in Req |-> IF r \in Children(b) THEN "lookup"
                               ELSE IF r = p THEN "wait" ELSE pc[r]]
       /\ UNCHANGED <<ttcList, makeRequestFn, ttcWriter, nrIos, ctlVars, target,
                      lookupMfn, endio, bioError>>

(* An allocation in eio_overlap_split_bio fails: the bio ends with -ENOMEM *)
(* and no child is submitted.                                              *)
OverlapSplitNoMem(b) ==
    LET p == <<b, Parent>>
    IN /\ pc[p] = "split"
       /\ BioEndio(p, "enomem")
       /\ UNCHANGED <<ttcList, makeRequestFn, ttcWriter, nrIos, ctlVars, target,
                      lookupMfn>>

(* A request mapped to a cache, or sent to the disk, completes with e.     *)
(* The cache engine drops nr_ios when its bio ends.                        *)
Complete(r, e) ==
    /\ pc[r] \in {"cache", "disk"}
    /\ nrIos' = IF pc[r] = "cache" THEN [nrIos EXCEPT ![target[r]] = @ - 1]
                                   ELSE nrIos
    /\ target' = [target EXCEPT ![r] = NoCache]
    /\ BioEndio(r, e)
    /\ UNCHANGED <<ttcList, makeRequestFn, ttcWriter, ctlVars, lookupMfn>>

-----------------------------------------------------------------------------

Init ==
    /\ ttcList = <<>>
    /\ makeRequestFn = "orig"
    /\ ttcWriter = NoCache
    /\ cstate = [c \in Caches |-> "free"]
    /\ cdev = [c \in Caches |-> NoDev]
    /\ devInfo = [c \in Caches |-> "partition"]
    /\ origMfn = [c \in Caches |-> "none"]
    /\ cmode = [c \in Caches |-> CHOOSE m \in Modes : TRUE]
    /\ cfailed = [c \in Caches |-> FALSE]
    /\ nrIos = [c \in Caches |-> 0]
    /\ creates = [c \in Caches |-> 0]
    /\ cret = [c \in Caches |-> "none"]
    /\ pc = [r \in Req |-> IF IsChild(r) THEN "idle" ELSE "new"]
    /\ target = [r \in Req |-> NoCache]
    /\ lookupMfn = [r \in Req |-> "none"]
    /\ holdCount = [b \in Bios |-> 0]
    /\ bcError = [b \in Bios |-> "ok"]
    /\ endio = [r \in Req |-> 0]
    /\ bioError = [r \in Req |-> "ok"]

ControlNext ==
    \E c \in Caches :
        \/ \E d \in Devs, m \in Modes : PreliminaryChecks(c, d, m)
        \/ TtcActivate(c)
        \/ \E force \in BOOLEAN : TtcDeactivate(c, force)
        \/ FinishNrdirtyLock(c)
        \/ FinishNrdirtyDrain(c)
        \/ FinishNrdirtyClean(c)
        \/ TtcUnlink(c)
        \/ TtcDrain(c)
        \/ CacheFail(c)

IoNext ==
    \/ \E b \in Bios : Submit(b) \/ OverlapSplitBio(b) \/ OverlapSplitNoMem(b)
    \/ \E r \in Req : MakeRequestLookup(r) \/ MakeRequestForward(r)
    \/ \E r \in Req, e \in {"ok", "eio"} : Complete(r, e)

Next == ControlNext \/ IoNext

(* Fairness: bios are submitted, routed, dispatched and completed by the   *)
(* block layer and the devices; the routing scan and the write-lock        *)
(* sections wait for a rw_semaphore that is handed over in FIFO order, so  *)
(* they are strongly fair; a control thread that has started a create or a *)
(* delete finishes it.  Starting a create or a delete, and a cache failure, *)
(* are not forced.                                                         *)
Fairness ==
    /\ \A b \in Bios : WF_vars(Submit(b)) /\ WF_vars(OverlapSplitBio(b))
    /\ \A r \in Req : /\ SF_vars(MakeRequestLookup(r))
                      /\ WF_vars(MakeRequestForward(r))
                      /\ WF_vars(\E e \in {"ok", "eio"} : Complete(r, e))
    /\ \A c \in Caches : /\ SF_vars(TtcActivate(c))
                         /\ SF_vars(FinishNrdirtyLock(c))
                         /\ WF_vars(FinishNrdirtyDrain(c))
                         /\ WF_vars(FinishNrdirtyClean(c))
                         /\ SF_vars(TtcUnlink(c))
                         /\ WF_vars(TtcDrain(c))

Spec == Init /\ [][Next]_vars
FairSpec == Spec /\ Fairness

-----------------------------------------------------------------------------
(* Properties                                                               *)

TypeOK ==
    /\ ttcList \in Seq(Caches)
    /\ makeRequestFn \in Mfn
    /\ ttcWriter \in Caches \cup {NoCache}
    /\ cstate \in [Caches -> CStates]
    /\ cdev \in [Caches -> Devs \cup {NoDev}]
    /\ devInfo \in [Caches -> {"whole", "partition"}]
    /\ origMfn \in [Caches -> Mfn \cup {"none"}]
    /\ cmode \in [Caches -> Modes]
    /\ cfailed \in [Caches -> BOOLEAN]
    /\ nrIos \in [Caches -> Nat]
    /\ creates \in [Caches -> 0..MaxCreates]
    /\ cret \in [Caches -> {"none", "ok", "einval", "enodev"}]
    /\ pc \in [Req -> PcStates]
    /\ target \in [Req -> Caches \cup {NoCache}]
    /\ lookupMfn \in [Req -> Mfn \cup {"none"}]
    /\ holdCount \in [Bios -> Nat]
    /\ \A b \in Bios : holdCount[b] <= Cardinality(Children(b))
    /\ bcError \in [Bios -> Errs]
    /\ endio \in [Req -> Nat]
    /\ bioError \in [Req -> Errs]

(* eio_ttc_activate switches rq->make_request_fn only for the first        *)
(* binding of the disk and eio_ttc_deactivate restores it only when the    *)
(* last one goes: the queue is intercepted exactly while a binding is      *)
(* linked, and every linked binding remembers the disk's real function     *)
(* (never eio_make_request_fn itself, which would make the passthrough     *)
(* path recurse).                                                          *)
InterceptIffBound ==
    /\ (makeRequestFn = "eio") <=> (ttcList # <<>>)
    /\ \A c \in Linked : origMfn[c] = "orig"

(* The activate and preliminary checks of eio_ttc.c never let a binding of *)
(* the whole disk coexist with any other binding of the same disk, and the *)
(* whole disk is always bound as EIO_DEV_WHOLE_DISK (a whole disk recorded *)
(* as a partition would be routed as one).                                 *)
WholeDiskExclusive ==
    \A c \in Linked : cdev[c] = WholeDisk => Linked = {c} /\ devInfo[c] = "whole"

(* No two linked bindings cache the same partition.                        *)
NoDuplicateBinding ==
    \A i, j \in 1..Len(ttcList) : i # j => cdev[ttcList[i]] # cdev[ttcList[j]]

(* nr_ios counts exactly the bios eio_map accepted and that have not       *)
(* ended, and a cache is freed by its deleter only when none is left:      *)
(* no bio is ever in flight on a freed cache_c.                            *)
InFlightAccounted ==
    \A c \in Caches :
        /\ nrIos[c] = Cardinality({r \in Req : pc[r] = "cache" /\ target[r] = c})
        /\ cstate[c] \in {"free", "checked"} => nrIos[c] = 0

(* Reference routing of spec section 4.1 over the linked bindings.         *)
Claims(r, c) == devInfo[c] = "whole" \/ Fits(r, c)
Intersects(r, c) == Start(r) <= DevEnd[cdev[c]] /\ DevStart[cdev[c]] <= End(r)

(* Every routing decision of eio_make_request_fn agrees with the reference *)
(* classification: a request claimed by a linked binding is mapped to that *)
(* binding, one that intersects a binding without being claimed is split   *)
(* (or, for a discard, failed), and only a request that touches no cached  *)
(* sector is passed through to the disk.                                   *)
RoutingMatchesReference ==
    [][\A r \in Req :
         (pc[r] = "lookup" /\ pc'[r] # "lookup") =>
            CASE \E c \in Linked : Claims(r, c) ->
                     pc'[r] = "cache" /\ Claims(r, target'[r])
              [] \E c \in Linked : Intersects(r, c) ->
                     pc'[r] \in {"split", "done"}
              [] OTHER -> pc'[r] = "forward"]_vars

(* eio_overlap_split_bio and eio_split_endio end every bio exactly once,   *)
(* and a split bio only after all of its children have ended.             *)
SplitEndsOnce ==
    /\ \A r \in Req : endio[r] <= 1
    /\ \A b \in Bios :
          pc[<<b, Parent>>] = "done" =>
             \A r \in Children(b) : pc[r] \in {"idle", "done"}

(* An error of any child of a split bio is reported on the original bio.  *)
SplitErrorKept ==
    \A b \in Bios :
        (pc[<<b, Parent>>] = "done" /\ \E r \in Children(b) : bioError[r] # "ok")
            => bioError[<<b, Parent>>] # "ok"

(* Every submitted bio is eventually ended: the re-lookup loop of          *)
(* eio_make_request_fn and the drains never hold it forever.               *)
BiosComplete ==
    \A b \in Bios : <>(pc[<<b, Parent>>] = "done")

(* A create or delete that has started eventually returns to its caller.   *)
ControlReturns ==
    \A c \in Caches : cstate[c] \notin {"free", "active"} ~> cstate[c] \in {"free", "active"}

=============================================================================
