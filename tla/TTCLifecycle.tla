---------------------------- MODULE TTCLifecycle ----------------------------
(***************************************************************************)
(* The control paths of eio_ttc.c that change a cache while it stays bound *)
(* (eio_cache_edit with eio_mode_switch / eio_policy_switch and the clean  *)
(* loop of eio_finish_nrdirty) and eio_reboot_handling, which walks the    *)
(* cache list marking every cache read-only, racing a delete.              *)
(*                                                                         *)
(* eio_ttc_list of one bucket is a doubly linked list; the model keeps the *)
(* forward links `nxt`, which is all list_for_each_entry reads.  The write *)
(* lock eio_ttc_lock[index] has the owner `owner`; a read-locked lookup is *)
(* a step that needs no owner.  Flags of dmc->cache_flags are guarded by   *)
(* cache_spin_lock: every flag test-and-set is one step.  The delete path  *)
(* (eio_cache_delete) is not in this file: it is modelled from the spec    *)
(* (section 4.5) and from what eio_reboot_handling expects of it, around   *)
(* the unlink of eio_ttc_deactivate, which is.                             *)
(***************************************************************************)
EXTENDS Naturals, FiniteSets

CONSTANTS
    Caches,         \* struct cache_c instances in the bucket
    Head,           \* the list head eio_ttc_list[index]
    None,           \* no thread / no cache
    InitNext,       \* [Caches \cup {Head} -> Caches \cup {Head}]: the list at start
    Modes,          \* cache modes, a subset of {"wb", "wt", "ro"}
    Policies,       \* replacement policies
    RebootCallers,  \* threads calling eio_reboot_handling
    Editors,        \* threads calling eio_cache_edit
    ETarget,        \* [Editors -> Caches]: the cache each editor names
    Deleters,       \* threads deleting a cache
    DTarget,        \* [Deleters -> Caches]
    SbCanFail       \* whether eio_sb_store may fail

Threads == RebootCallers \cup Editors \cup Deleters

ASSUME /\ RebootCallers \cap Editors = {} /\ Editors \cap Deleters = {}
       /\ RebootCallers \cap Deleters = {}
       /\ SbCanFail \in BOOLEAN

VARIABLES
    nxt,        \* forward link of every node of the bucket list
    cmode,      \* dmc->mode
    cpolicy,    \* dmc->req_policy
    nrDirty,    \* dmc->nr_dirty, 0 or 1 (some dirty block)
    mod,        \* CACHE_FLAGS_MOD_INPROG
    shut,       \* CACHE_FLAGS_SHUTDOWN_INPROG
    deleted,    \* CACHE_FLAGS_DELETED
    failed,     \* CACHE_FAILED_IS_SET or CACHE_DEGRADED_IS_SET
    rdonly,     \* dmc->cache_rdonly
    freed,      \* the dmc has been kfree'd
    owner,      \* holder of the write lock eio_ttc_lock[index]
    notified,   \* eio_reboot_notified: "none" (0), "inprog" or "done"
    bit,        \* EIO_HANDLE_REBOOT bit of eio_control->synch_flags
    rpc,        \* program counter of each reboot caller
    rpos,       \* its list cursor dmc
    rtemp,      \* its tempdmc
    epc,        \* program counter of each editor
    ereq,       \* the mode and policy it asked for ("none" = 0)
    eret,       \* value eio_cache_edit returned
    dpc,        \* program counter of each deleter
    dret        \* value the delete returned

cacheVars == <<cmode, cpolicy, nrDirty, mod, shut, deleted, failed, rdonly, freed>>
rebootVars == <<notified, bit, rpc, rpos, rtemp>>
editVars == <<epc, ereq, eret>>
delVars == <<dpc, dret>>
vars == <<nxt, owner, cacheVars, rebootVars, editVars, delVars>>

-----------------------------------------------------------------------------
(* The list                                                                *)

(* The caches eio_cache_lookup's list_for_each_entry reaches from the     *)
(* head; EditLookup and DeleteLookup find their cache in it.  The reboot  *)
(* walk follows nxt itself, one RebootIter at a time.                     *)
RECURSIVE Walk(_, _)
Walk(p, n) ==
    IF n = 0 \/ nxt[p] = Head THEN {} ELSE {nxt[p]} \cup Walk(nxt[p], n - 1)

Linked == Walk(Head, Cardinality(Caches))

(* Mutant: list_del, which poisons the links of the removed entry.         *)
ListDel(c) ==
    LET p == CHOOSE q \in Caches \cup {Head} : nxt[q] = c /\ q # c
    IN [nxt EXCEPT ![p] = nxt[c], ![c] = None]

(* list_del_init: the predecessor skips c, and c points to itself.        *)
ListDelInit(c) ==
    LET p == CHOOSE q \in Caches \cup {Head} : nxt[q] = c /\ q # c
    IN [nxt EXCEPT ![p] = nxt[c], ![c] = c]

Set(f, c, v) == [f EXCEPT ![c] = v]

-----------------------------------------------------------------------------
(* eio_reboot_handling                                                     *)

RebootEnter(r) ==
    /\ rpc[r] = "idle"
    /\ rpc' = Set(rpc, r, IF notified = "done" THEN "returned" ELSE "bitwait")
    /\ UNCHANGED <<nxt, owner, cacheVars, notified, bit, rpos, rtemp,
                   editVars, delVars>>

(* Mutant: a caller returns as soon as any reboot handling has started.    *)
RebootBitLockEarly(r) ==
    /\ rpc[r] = "bitwait"
    /\ IF notified # "none"
          THEN /\ rpc' = Set(rpc, r, "returned")
               /\ UNCHANGED <<notified, bit>>
          ELSE /\ ~bit
               /\ bit' = TRUE
               /\ notified' = "inprog"
               /\ rpc' = Set(rpc, r, "lock")
    /\ UNCHANGED <<nxt, owner, cacheVars, rpos, rtemp, editVars, delVars>>

(* wait_on_bit_lock_action, then the second test of eio_reboot_notified.   *)
RebootBitLock(r) ==
    /\ rpc[r] = "bitwait"
    /\ ~bit
    /\ IF notified = "done"
          THEN /\ rpc' = Set(rpc, r, "returned")
               /\ UNCHANGED <<notified, bit>>
          ELSE /\ bit' = TRUE
               /\ notified' = "inprog"
               /\ rpc' = Set(rpc, r, "lock")
    /\ UNCHANGED <<nxt, owner, cacheVars, rpos, rtemp, editVars, delVars>>

(* down_write, and list_for_each_entry takes the first entry.              *)
RebootLock(r) ==
    /\ rpc[r] = "lock"
    /\ owner = None
    /\ owner' = r
    /\ rpos' = Set(rpos, r, nxt[Head])
    /\ rpc' = Set(rpc, r, "iter")
    /\ UNCHANGED <<nxt, cacheVars, notified, bit, rtemp, editVars, delVars>>

(* One turn of the loop, under the write lock: kfree(tempdmc), then skip a *)
(* failed cache, or (nr_ios drained) set SHUTDOWN_INPROG.  At the head the *)
(* loop ends: kfree(tempdmc), up_write, DONE, clear the bit.  A dmc that   *)
(* was just freed is read: what the kernel does then is not modelled, the *)
(* thread stops ("undefined").                                             *)
RebootIter(r) ==
    LET c == rpos[r]
        t == rtemp[r]
    IN /\ rpc[r] = "iter"
       /\ freed' = IF t # None THEN Set(freed, t, TRUE) ELSE freed
       /\ rtemp' = Set(rtemp, r, None)
       /\ CASE c = Head ->
                 /\ owner' = None
                 /\ notified' = "done"
                 /\ bit' = FALSE
                 /\ rpc' = Set(rpc, r, "returned")
                 /\ UNCHANGED <<shut, rpos>>
            [] c = t \/ freed[c] ->
                 /\ rpc' = Set(rpc, r, "undefined")
                 /\ UNCHANGED <<owner, notified, bit, shut, rpos>>
            [] failed[c] ->
                 /\ rpos' = Set(rpos, r, nxt[c])
                 /\ UNCHANGED <<owner, notified, bit, shut, rpc>>
            [] OTHER ->
                 /\ shut' = Set(shut, c, TRUE)
                 /\ rpc' = Set(rpc, r, "modwait")
                 /\ UNCHANGED <<owner, notified, bit, rpos>>
       /\ UNCHANGED <<nxt, cmode, cpolicy, nrDirty, mod, deleted, failed, rdonly,
                      editVars, delVars>>

(* Mutant: the wait for an edit or delete keeps the write lock.            *)
RebootModWaitLocked(r) ==
    LET c == rpos[r]
    IN /\ rpc[r] = "modwait"
       /\ ~mod[c]
       /\ IF deleted[c]
             THEN /\ rtemp' = Set(rtemp, r, c)
                  /\ rpos' = Set(rpos, r, nxt[c])
                  /\ rpc' = Set(rpc, r, "iter")
                  /\ UNCHANGED <<owner, rdonly>>
             ELSE /\ rdonly' = Set(rdonly, c, TRUE)
                  /\ owner' = None
                  /\ rpc' = Set(rpc, r, "store")
                  /\ UNCHANGED <<rtemp, rpos>>
       /\ UNCHANGED <<nxt, cmode, cpolicy, nrDirty, mod, shut, deleted, failed,
                      freed, notified, bit, editVars, delVars>>

(* While MOD_INPROG is set: up_write and sleep.  Then a deleted cache      *)
(* becomes tempdmc and the walk moves on; otherwise the async tasks are    *)
(* stopped, the cache marked read-only, and the lock released.             *)
RebootModWait(r) ==
    LET c == rpos[r]
    IN /\ rpc[r] = "modwait"
       /\ CASE mod[c] ->
                 /\ owner' = None
                 /\ rpc' = Set(rpc, r, "sleep")
                 /\ UNCHANGED <<rtemp, rpos, rdonly>>
            [] deleted[c] ->
                 /\ rtemp' = Set(rtemp, r, c)
                 /\ rpos' = Set(rpos, r, nxt[c])
                 /\ rpc' = Set(rpc, r, "iter")
                 /\ UNCHANGED <<owner, rdonly>>
            [] OTHER ->
                 /\ rdonly' = Set(rdonly, c, TRUE)
                 /\ owner' = None
                 /\ rpc' = Set(rpc, r, "store")
                 /\ UNCHANGED <<rtemp, rpos>>
       /\ UNCHANGED <<nxt, cmode, cpolicy, nrDirty, mod, shut, deleted, failed,
                      freed, notified, bit, editVars, delVars>>

(* schedule_timeout, then down_write again.                                *)
RebootSleep(r) ==
    /\ rpc[r] = "sleep"
    /\ owner = None
    /\ owner' = r
    /\ rpc' = Set(rpc, r, "modwait")
    /\ UNCHANGED <<nxt, cacheVars, notified, bit, rpos, rtemp, editVars, delVars>>

(* Unlocked: the cold-boot clean and eio_md_store, then SHUTDOWN_INPROG is *)
(* cleared under the spin lock.                                            *)
RebootStore(r) ==
    /\ rpc[r] = "store"
    /\ shut' = Set(shut, rpos[r], FALSE)
    /\ rpc' = Set(rpc, r, "relock")
    /\ UNCHANGED <<nxt, owner, cmode, cpolicy, nrDirty, mod, deleted, failed,
                   rdonly, freed, notified, bit, rpos, rtemp, editVars, delVars>>

(* down_write, and list_for_each_entry follows the entry's next link.      *)
RebootRelock(r) ==
    /\ rpc[r] = "relock"
    /\ owner = None
    /\ owner' = r
    /\ rpos' = Set(rpos, r, nxt[rpos[r]])
    /\ rpc' = Set(rpc, r, "iter")
    /\ UNCHANGED <<nxt, cacheVars, notified, bit, rtemp, editVars, delVars>>

-----------------------------------------------------------------------------
(* eio_cache_edit                                                          *)

(* eio_cache_lookup, under the read locks: the dmc is used afterwards with *)
(* no lock and no reference held.                                          *)
EditLookup(e, m, p) ==
    /\ epc[e] = "idle"
    /\ owner = None
    /\ ~(m = "none" /\ p = "none")
    /\ ereq' = Set(ereq, e, [m |-> m, p |-> p])
    /\ IF ETarget[e] \in Linked
          THEN /\ epc' = Set(epc, e, "check")
               /\ UNCHANGED eret
          ELSE /\ epc' = Set(epc, e, "done")
               /\ eret' = Set(eret, e, "einval")
    /\ UNCHANGED <<nxt, owner, cacheVars, rebootVars, delVars>>

(* Nothing to change, or a failed or degraded cache: return at once.       *)
EditPrecheck(e) ==
    LET c == ETarget[e]
    IN /\ epc[e] = "check"
       /\ CASE ereq[e].m = cmode[c] /\ ereq[e].p = cpolicy[c] ->
                 /\ epc' = Set(epc, e, "done") /\ eret' = Set(eret, e, "ok")
            [] failed[c] ->
                 /\ epc' = Set(epc, e, "done") /\ eret' = Set(eret, e, "einval")
            [] OTHER ->
                 /\ epc' = Set(epc, e, "flag") /\ UNCHANGED eret
       /\ UNCHANGED <<nxt, owner, cacheVars, rebootVars, ereq, delVars>>

(* Mutant: the spin-locked section does not test SHUTDOWN_INPROG.         *)
EditSetModIgnoringShutdown(e) ==
    LET c == ETarget[e]
    IN /\ epc[e] = "flag"
       /\ IF mod[c]
             THEN /\ epc' = Set(epc, e, "done") /\ eret' = Set(eret, e, "einval")
                  /\ UNCHANGED mod
             ELSE /\ mod' = Set(mod, c, TRUE) /\ epc' = Set(epc, e, "stop")
                  /\ UNCHANGED eret
       /\ UNCHANGED <<nxt, owner, cmode, cpolicy, nrDirty, shut, deleted, failed,
                      rdonly, freed, rebootVars, ereq, delVars>>

(* Under cache_spin_lock: refuse during shutdown or another edit/delete,   *)
(* else set MOD_INPROG.                                                    *)
EditSetMod(e) ==
    LET c == ETarget[e]
    IN /\ epc[e] = "flag"
       /\ IF shut[c] \/ mod[c]
             THEN /\ epc' = Set(epc, e, "done") /\ eret' = Set(eret, e, "einval")
                  /\ UNCHANGED mod
             ELSE /\ mod' = Set(mod, c, TRUE) /\ epc' = Set(epc, e, "stop")
                  /\ UNCHANGED eret
       /\ UNCHANGED <<nxt, owner, cmode, cpolicy, nrDirty, shut, deleted, failed,
                      rdonly, freed, rebootVars, ereq, delVars>>

(* A write-back cache: refuse if failed, else stop the async tasks; leaving *)
(* write-back (or a request with mode 0) first runs eio_finish_nrdirty.    *)
EditStop(e) ==
    LET c == ETarget[e]
    IN /\ epc[e] = "stop"
       /\ IF cmode[c] = "wb" /\ failed[c]
             THEN /\ epc' = Set(epc, e, "out") /\ eret' = Set(eret, e, "einval")
             ELSE /\ epc' = Set(epc, e, IF cmode[c] = "wb" /\ ereq[e].m # "wb"
                                          THEN "fnlock" ELSE "lock")
                  /\ UNCHANGED eret
       /\ UNCHANGED <<nxt, owner, cacheVars, rebootVars, ereq, delVars>>

(* eio_finish_nrdirty: down_write, drain nr_ios, set EIO_CLEAN_KEEP and    *)
(* EIO_CLEAN_START, up_write.                                              *)
(* Mutant: the up_write after the nr_ios drain is missing.                 *)
EditFnLockHolding(e) ==
    /\ epc[e] = "fnlock"
    /\ owner = None
    /\ owner' = e
    /\ epc' = Set(epc, e, "clean")
    /\ UNCHANGED <<nxt, cacheVars, rebootVars, ereq, eret, delVars>>

(* eio_finish_nrdirty: down_write, wait for nr_ios, set EIO_CLEAN_START,   *)
(* up_write.                                                               *)
EditFnLock(e) ==
    /\ epc[e] = "fnlock"
    /\ owner = None
    /\ epc' = Set(epc, e, "clean")
    /\ UNCHANGED <<nxt, owner, cacheVars, rebootVars, ereq, eret, delVars>>

(* One turn of the clean loop of eio_finish_nrdirty: a failed cache ends it *)
(* with -ENODEV; else eio_clean_all, which may or may not clean the dirty  *)
(* blocks, and the loop goes on while blocks are dirty and no shutdown is  *)
(* in progress.  On exit, dirty blocks left by a shutdown give -EINVAL     *)
(* (retry_count, never decremented, is never 0).                           *)
EditClean(e, progress) ==
    LET c == ETarget[e]
        d == IF progress THEN 0 ELSE nrDirty[c]
    IN /\ epc[e] = "clean"
       /\ IF failed[c]
             THEN /\ epc' = Set(epc, e, "out")
                  /\ eret' = Set(eret, e, IF shut[c] /\ nrDirty[c] > 0
                                             THEN "einval" ELSE "enodev")
                  /\ UNCHANGED nrDirty
             ELSE /\ nrDirty' = Set(nrDirty, c, d)
                  /\ CASE d > 0 /\ ~shut[c] -> UNCHANGED <<epc, eret>>
                       [] d > 0 -> /\ epc' = Set(epc, e, "out")
                                   /\ eret' = Set(eret, e, "einval")
                       [] OTHER -> /\ epc' = Set(epc, e, "lock")
                                   /\ UNCHANGED eret
       /\ UNCHANGED <<nxt, owner, cmode, cpolicy, mod, shut, deleted, failed,
                      rdonly, freed, rebootVars, ereq, delVars>>

(* down_write and drain nr_ios: application I/O is blocked from here.      *)
EditLock(e) ==
    /\ epc[e] = "lock"
    /\ owner = None
    /\ owner' = e
    /\ epc' = Set(epc, e, "switch")
    /\ UNCHANGED <<nxt, cacheVars, rebootVars, ereq, eret, delVars>>

(* eio_policy_switch: the new policy, or on a failed initialisation the    *)
(* old policy_ops restored and req_policy unchanged.                       *)
PolicySwitch(c, p, ok) == IF ok THEN Set(cpolicy, c, p) ELSE cpolicy

(* eio_mode_switch: into write-back the wb resources are allocated and a   *)
(* failure restores orig_mode; out of write-back they are freed; RO<->WT  *)
(* just sets the mode.                                                     *)
ModeSwitch(c, m, ok) == IF ok THEN Set(cmode, c, m) ELSE cmode

(* Under the write lock: eio_policy_switch, eio_mode_switch (to write-back *)
(* it allocates the wb resources, and restores the mode if that fails),    *)
(* eio_sb_store, up_write.  Each failure jumps to out; the one of          *)
(* eio_sb_store jumps there without up_write.                              *)
EditSwitch(e, res) ==
    LET c == ETarget[e]
        polChange == ereq[e].p # "none" /\ ereq[e].p # cpolicy[c]
        modeChange == ereq[e].m # "none" /\ ereq[e].m # cmode[c]
    IN /\ epc[e] = "switch"
       /\ res = "policy_fail" => polChange
       /\ res = "mode_fail" => modeChange /\ ereq[e].m = "wb"
       /\ res = "sb_fail" => SbCanFail
       /\ cpolicy' = IF polChange THEN PolicySwitch(c, ereq[e].p, res # "policy_fail")
                                  ELSE cpolicy
       /\ cmode' = IF modeChange /\ res # "policy_fail"
                      THEN ModeSwitch(c, ereq[e].m, res # "mode_fail") ELSE cmode
       /\ owner' = IF res = "sb_fail" THEN e ELSE None
       /\ eret' = Set(eret, e, CASE res = "ok" -> "ok"
                                 [] res = "sb_fail" -> "eio"
                                 [] OTHER -> "enomem")
       /\ epc' = Set(epc, e, "out")
       /\ UNCHANGED <<nxt, nrDirty, mod, shut, deleted, failed, rdonly, freed,
                      rebootVars, ereq, delVars>>

(* out: reset the clean flags, restart the async tasks of a write-back     *)
(* cache, clear MOD_INPROG under the spin lock.                            *)
EditOut(e) ==
    /\ epc[e] = "out"
    /\ mod' = Set(mod, ETarget[e], FALSE)
    /\ epc' = Set(epc, e, "done")
    /\ UNCHANGED <<nxt, owner, cmode, cpolicy, nrDirty, shut, deleted, failed,
                   rdonly, freed, rebootVars, ereq, eret, delVars>>

-----------------------------------------------------------------------------
(* Delete (eio_cache_delete, not in this file; spec section 4.5): refuse   *)
(* while MOD_INPROG or SHUTDOWN_INPROG is set, else set MOD_INPROG and     *)
(* deactivate.  A delete that finds a shutdown in progress marks the cache *)
(* DELETED and leaves the kfree to eio_reboot_handling, which frees a     *)
(* DELETED cache it meets; otherwise the delete frees it.                  *)

DeleteLookup(d) ==
    /\ dpc[d] = "idle"
    /\ owner = None
    /\ IF DTarget[d] \in Linked
          THEN /\ dpc' = Set(dpc, d, "flag") /\ UNCHANGED dret
          ELSE /\ dpc' = Set(dpc, d, "done") /\ dret' = Set(dret, d, "enoent")
    /\ UNCHANGED <<nxt, owner, cacheVars, rebootVars, editVars>>

DeleteSetMod(d) ==
    LET c == DTarget[d]
    IN /\ dpc[d] = "flag"
       /\ IF shut[c] \/ mod[c]
             THEN /\ dpc' = Set(dpc, d, "done") /\ dret' = Set(dret, d, "ebusy")
                  /\ UNCHANGED mod
             ELSE /\ mod' = Set(mod, c, TRUE) /\ dpc' = Set(dpc, d, "unlink")
                  /\ UNCHANGED dret
       /\ UNCHANGED <<nxt, owner, cmode, cpolicy, nrDirty, shut, deleted, failed,
                      rdonly, freed, rebootVars, editVars>>

(* eio_ttc_deactivate(dmc, 1): under the write lock, list_del_init.        *)
DeleteUnlink(d) ==
    /\ dpc[d] = "unlink"
    /\ owner = None
    /\ nxt' = ListDelInit(DTarget[d])
    /\ dpc' = Set(dpc, d, "finish")
    /\ UNCHANGED <<owner, cacheVars, rebootVars, editVars, dret>>

DeleteFinish(d) ==
    LET c == DTarget[d]
    IN /\ dpc[d] = "finish"
       /\ mod' = Set(mod, c, FALSE)
       /\ IF shut[c]
             THEN /\ deleted' = Set(deleted, c, TRUE) /\ UNCHANGED freed
             ELSE /\ freed' = Set(freed, c, TRUE) /\ UNCHANGED deleted
       /\ dpc' = Set(dpc, d, "done")
       /\ dret' = Set(dret, d, "ok")
       /\ UNCHANGED <<nxt, owner, cmode, cpolicy, nrDirty, shut, failed, rdonly,
                      rebootVars, editVars>>

(* The cache device fails or degrades (environment).                       *)
CacheFail(c) ==
    /\ ~failed[c] /\ ~freed[c]
    /\ failed' = Set(failed, c, TRUE)
    /\ UNCHANGED <<nxt, owner, cmode, cpolicy, nrDirty, mod, shut, deleted,
                   rdonly, freed, rebootVars, editVars, delVars>>

-----------------------------------------------------------------------------

ReqModes == Modes \cup {"none"}
ReqPolicies == Policies \cup {"none"}
EditResults == {"ok", "policy_fail", "mode_fail", "sb_fail"}

Init ==
    /\ nxt = InitNext
    /\ cmode \in [Caches -> Modes]
    /\ cpolicy \in [Caches -> Policies]
    /\ nrDirty \in {f \in [Caches -> {0, 1}] : \A c \in Caches : f[c] = 1 => cmode[c] = "wb"}
    /\ mod = [c \in Caches |-> FALSE]
    /\ shut = [c \in Caches |-> FALSE]
    /\ deleted = [c \in Caches |-> FALSE]
    /\ failed = [c \in Caches |-> FALSE]
    /\ rdonly = [c \in Caches |-> FALSE]
    /\ freed = [c \in Caches |-> FALSE]
    /\ owner = None
    /\ notified = "none"
    /\ bit = FALSE
    /\ rpc = [r \in RebootCallers |-> "idle"]
    /\ rpos = [r \in RebootCallers |-> Head]
    /\ rtemp = [r \in RebootCallers |-> None]
    /\ epc = [e \in Editors |-> "idle"]
    /\ ereq = [e \in Editors |-> [m |-> "none", p |-> "none"]]
    /\ eret = [e \in Editors |-> "none"]
    /\ dpc = [d \in Deleters |-> "idle"]
    /\ dret = [d \in Deleters |-> "none"]

RebootNext(r) ==
    \/ RebootEnter(r) \/ RebootBitLock(r) \/ RebootLock(r) \/ RebootIter(r)
    \/ RebootModWait(r) \/ RebootSleep(r) \/ RebootStore(r) \/ RebootRelock(r)

EditNext(e) ==
    \/ \E m \in ReqModes, p \in ReqPolicies : EditLookup(e, m, p)
    \/ EditPrecheck(e) \/ EditSetMod(e) \/ EditStop(e) \/ EditFnLock(e)
    \/ \E progress \in BOOLEAN : EditClean(e, progress)
    \/ EditLock(e)
    \/ \E res \in EditResults : EditSwitch(e, res)
    \/ EditOut(e)

DeleteNext(d) ==
    DeleteLookup(d) \/ DeleteSetMod(d) \/ DeleteUnlink(d) \/ DeleteFinish(d)

Next ==
    \/ \E r \in RebootCallers : RebootNext(r)
    \/ \E e \in Editors : EditNext(e)
    \/ \E d \in Deleters : DeleteNext(d)
    \/ \E c \in Caches : CacheFail(c)

Spec == Init /\ [][Next]_vars

(* Every thread runs; a step that waits for the write lock or the reboot   *)
(* bit, which others take and release, gets strong fairness (rw_semaphore  *)
(* waiters are queued).  Failures of the environment are never forced.     *)
ThreadFairness ==
    /\ \A r \in RebootCallers :
          /\ WF_vars(RebootEnter(r)) /\ SF_vars(RebootBitLock(r))
          /\ SF_vars(RebootLock(r)) /\ WF_vars(RebootIter(r))
          /\ WF_vars(RebootModWait(r)) /\ SF_vars(RebootSleep(r))
          /\ WF_vars(RebootStore(r)) /\ SF_vars(RebootRelock(r))
    /\ \A e \in Editors :
          /\ SF_vars(\E m \in ReqModes, p \in ReqPolicies : EditLookup(e, m, p))
          /\ WF_vars(EditPrecheck(e)) /\ WF_vars(EditSetMod(e))
          /\ WF_vars(EditStop(e)) /\ SF_vars(EditFnLock(e))
          /\ WF_vars(EditClean(e, FALSE))
          /\ SF_vars(EditLock(e))
          /\ WF_vars(\E res \in EditResults : EditSwitch(e, res))
          /\ WF_vars(EditOut(e))
    /\ \A d \in Deleters :
          /\ SF_vars(DeleteLookup(d)) /\ WF_vars(DeleteSetMod(d))
          /\ SF_vars(DeleteUnlink(d)) /\ WF_vars(DeleteFinish(d))

(* A turn of the clean loop that finds no progress is a stutter; whether  *)
(* eio_clean_all ever cleans the dirty blocks is the device assumption of *)
(* spec section 5, added as strong fairness on the cleaning turn.         *)
CleanerProgress == \A e \in Editors : SF_vars(EditClean(e, TRUE))

FairSpec == Spec /\ ThreadFairness /\ CleanerProgress
FairSpecNoProgress == Spec /\ ThreadFairness

-----------------------------------------------------------------------------
(* Properties                                                               *)

RPcs == {"idle", "bitwait", "lock", "iter", "modwait", "sleep", "store",
         "relock", "returned", "undefined"}
EPcs == {"idle", "check", "flag", "stop", "fnlock", "clean", "lock", "switch",
         "out", "done"}
DPcs == {"idle", "flag", "unlink", "finish", "done"}

TypeOK ==
    /\ nxt \in [Caches \cup {Head} -> Caches \cup {Head}]
    /\ cmode \in [Caches -> Modes]
    /\ cpolicy \in [Caches -> Policies]
    /\ nrDirty \in [Caches -> {0, 1}]
    /\ \A f \in {mod, shut, deleted, failed, rdonly, freed} : f \in [Caches -> BOOLEAN]
    /\ owner \in Threads \cup {None}
    /\ notified \in {"none", "inprog", "done"}
    /\ bit \in BOOLEAN
    /\ rpc \in [RebootCallers -> RPcs]
    /\ rpos \in [RebootCallers -> Caches \cup {Head}]
    /\ rtemp \in [RebootCallers -> Caches \cup {None}]
    /\ epc \in [Editors -> EPcs]
    /\ eret \in [Editors -> {"none", "ok", "einval", "enodev", "enomem", "eio"}]
    /\ dpc \in [Deleters -> DPcs]
    /\ dret \in [Deleters -> {"none", "ok", "enoent", "ebusy"}]

(* An edit or a delete owning MOD_INPROG of a cache never runs while       *)
(* eio_reboot_handling is marking that cache read-only and storing its     *)
(* metadata: each side sets its own flag and tests the other's under       *)
(* cache_spin_lock, in opposite orders.                                    *)
ModifyExcludesShutdown ==
    \A r \in RebootCallers : rpc[r] = "store" =>
        /\ \A e \in Editors :
              ETarget[e] = rpos[r] => epc[e] \notin {"stop", "fnlock", "clean", "lock", "switch"}
        /\ \A d \in Deleters :
              DTarget[d] = rpos[r] => dpc[d] \notin {"unlink", "finish"}

(* Spec section 6: handle_reboot() is single-flight; any caller, the       *)
(* second of two concurrent ones included, returns only once every cache   *)
(* still bound and not failed or degraded has been marked read-only.       *)
RebootReturnsQuiesced ==
    \A r \in RebootCallers : rpc[r] = "returned" =>
        \A c \in Linked : ~failed[c] => rdonly[c]

(* No thread reads a dmc that has been freed: the reboot walk's cursor,    *)
(* and the dmc an edit or delete got from its lookup.                      *)
NoDanglingDmc ==
    /\ \A r \in RebootCallers :
          rpc[r] \in {"iter", "modwait", "sleep", "store", "relock"} /\ rpos[r] # Head
              => rpos[r] # rtemp[r] /\ ~freed[rpos[r]]
    /\ \A e \in Editors : epc[e] \notin {"idle", "done"} => ~freed[ETarget[e]]
    /\ \A d \in Deleters : dpc[d] \notin {"idle", "done"} => ~freed[DTarget[d]]

(* eio_cache_edit returns with the write lock released: application I/O   *)
(* to the disk, blocked from down_write on, flows again.                  *)
EditReleasesLock ==
    \A e \in Editors : epc[e] = "done" => owner # e

(* Spec section 7: every edit returns; a drain that cannot finish is        *)
(* reported as IO_DRAIN_FAILED, not retried forever.                       *)
EditReturns ==
    \A e \in Editors : (epc[e] \notin {"idle", "done"}) ~> (epc[e] = "done")

(* Every call of eio_reboot_handling returns.                              *)
RebootCompletes ==
    \A r \in RebootCallers : (rpc[r] # "idle") ~> (rpc[r] = "returned")

=============================================================================
