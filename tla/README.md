# TLA+ models of the EnhanceIO transparent-caching layer

These modules model `src/Driver/enhanceio/eio_ttc.c`. That file is the layer of
EnhanceIO that attaches an SSD cache to a live disk or partition: it
intercepts the disk queue's `make_request_fn`, decides for every bio whether a
cache owns it, and dispatches the cache's own I/O to the devices. Every action
is translated from that file. `PROJECT.json` maps each definition to the lines
it models.

## The system and its parts

| Part | Code | Shared state | Model |
|---|---|---|---|
| Registry | `eio_ttc_list[]`, `eio_ttc_lock[]`, `eio_cache_lookup` | per-disk list of cache bindings, one rw_semaphore per bucket | `TTCRegistry` (`ttcList`, `ttcWriter`) |
| Interception | `eio_ttc_activate` / `eio_ttc_deactivate` | `q->make_request_fn`, `dmc->origmfn`, `dmc->dev_info` | `TTCRegistry` (`makeRequestFn`, `origMfn`, `devInfo`) |
| Routing | `eio_make_request_fn` | reads the list under the read lock; `dmc->nr_ios` | `TTCRegistry` (`MakeRequestLookup`, `MakeRequestForward`, `nrIos`) |
| Lifecycle | `eio_do_preliminary_checks`, activate, deactivate, `eio_finish_nrdirty` | `cstate` of each cache | `TTCRegistry` (control actions) |
| Overlap splitter | `eio_overlap_split_bio`, `eio_split_new_bio`, `eio_split_endio` | `bc_holdcount`, `bc_error` | `TTCRegistry` (`OverlapSplitBio`, `BioEndio`) |
| Dispatch engine | `eio_do_io`, `eio_sync_io`, `eio_async_io`, `eio_dispatch_io(_pages)`, unaligned RMW, `eio_dec_count` | `io->count`, `io->error`, the context's lifetime | `IoContext`, refining `IoCompletion` |
| Bvec split | the cursor loop of `eio_dispatch_io`, `do_unaligned_io` | `bvec`, `vec_remain`, `remaining`, `remaining_bvecs`, the bio being built | `BvecDispatch` |
| Cache edit | `eio_cache_edit`, `eio_mode_switch`, `eio_policy_switch`, the clean loop of `eio_finish_nrdirty` | `MOD_INPROG`/`SHUTDOWN_INPROG` flags under `cache_spin_lock`, the bucket write lock, mode, policy, dirty blocks | `TTCLifecycle` (`Edit*`) |
| Reboot handling | `eio_reboot_handling` | `EIO_HANDLE_REBOOT` bit, `eio_reboot_notified`, the list walk with the lock dropped, `tempdmc` | `TTCLifecycle` (`Reboot*`), racing a delete (`Delete*`) |
| Writeback page helpers | `eio_alloc_wb_bvecs`, `eio_free_wb_bvecs`, `eio_alloc_wb_pages`, `eio_free_wb_pages`, `eio_alloc_pages` | page reference counts, the bvec and page arrays | `WbPages` |
| Empty barriers | `eio_process_zero_size_bio`, `eio_issue_empty_barrier_flush`, `eio_bio_end_empty_barrier`, `hdd_make_request`, the barrier of `eio_ttc_activate` | the barrier bio's reference count, the original zero-size bio | `FlushBarrier` |
| Device handles, misc device, listing | `eio_ttc_get_device`, `eio_open`, `eio_get_cache_count`, `eio_get_cache_list` | none shared | not modelled: thin wrappers or copy-out |

These parts interact as follows:

- Edit and delete of a cache, and the reboot notifier, run on the control
  path. Each sets its own flag of the cache (`MOD_INPROG` or
  `SHUTDOWN_INPROG`) and tests the other's under `cache_spin_lock`. The
  reboot walk drops the bucket's write lock while it waits for an edit or a
  delete to finish.
- Bios from applications enter `eio_make_request_fn` at any time, concurrently
  with create and delete on the control path.
- The routing scan holds the bucket's read lock.
- Activate and the unlink step of deactivate hold the write lock.
- `eio_finish_nrdirty` holds the write lock while it waits for `nr_ios` to reach
  zero. `nr_ios` counts the bios routed to a cache that have not yet completed.
- A bio that straddles a partition boundary is split into per-sector children.
  Each child re-enters `eio_make_request_fn`.
- The cache's own I/O goes through `eio_do_io`. `eio_do_io` issues several bios
  and counts them in `io->count`. The last completion signals the caller, or
  frees the context and runs the callback.

## Modules

- **`TTCRegistry`**: the bindings of one source disk and the bios submitted
  to it.
  - CONSTANTS: caches, the disk and its partitions with sector ranges, bios
    with sector ranges and op, creatable modes, and a bound on create attempts.
  - Control actions, one per step of the code:
    - `PreliminaryChecks`: `eio_do_preliminary_checks`.
    - `TtcActivate`: `eio_ttc_activate`, under the write lock.
    - `TtcDeactivate`, `FinishNrdirtyLock`, `FinishNrdirtyDrain` and
      `FinishNrdirtyClean`: the waits of `eio_finish_nrdirty`.
    - `TtcUnlink`: the write-locked part of deactivate.
    - `TtcDrain`: the `nr_ios` poll.
  - I/O actions:
    - `Submit`.
    - `MakeRequestLookup`: the read-locked scan, together with its cache hit,
      discard rejection, split decision and passthrough.
    - `MakeRequestForward`: the call of `origmfn`, which re-runs the lookup
      when `origmfn` is `eio_make_request_fn` again.
    - `OverlapSplitBio` and `OverlapSplitNoMem`.
    - `Complete`: the device or the cache ends a bio. For a split child this
      runs `eio_split_endio`.
  - `CacheFail`: the environment failing a cache.
  - Each critical section is one step. `ttcWriter` models the single place
    where the write lock is held across a wait.
- **`MC_TTCRegistry`**: model values for the disk, the partitions, the bios
  and the caches; the geometry; symmetry over caches.
- **`IoCompletion`**: the abstract contract of the dispatch engine.
  - A number of transfers are issued.
  - The completion is signalled once, in the step in which the last transfer
    has finished and the caller has let go.
  - It carries an error if any transfer failed.
  - A caller whose submission fails abandons the I/O only after nothing is
    pending.
- **`IoContext`**: one call of `eio_do_io`.
  - `mode`: sync or async. `mtype`: EIO_BVECS or EIO_PAGES.
  - Actions:
    - `DispatchIssue` / `DispatchPagesIssue`: `atomic_inc` and submit.
    - `DispatchNoMem`: a failing allocation of the unaligned path.
    - `TransferEnd`: `eio_endio`.
    - `UnalignedWriteEnd`: `end_unaligned_free` after the write-back of
      an unaligned block.
    - `UnalignedReadEnd`: `end_unaligned_io`. Its write-back `bio_alloc`
      (lines 786-797) waits on its mempool, so it does not fail.
    - `DropRef`: the caller's `eio_dec_count`.
    - `WaitForCompletion`.
    - `RetryWait`: the `count != 1` poll of the error path.
  - `AbsSpec` is `IoCompletion!Spec` under the refinement mapping
    `pending = issued transfers not done`, `closed = the caller dropped its
    reference`, `signalled = fired > 0`, `abandoned = the error path
    returned`.
- **`FlushBarrier`**: the empty barrier flushes.
  - Issuers: `zero` is `eio_process_zero_size_bio`, which sends a barrier
    to the cache device (`ssd`) and then one carrying the original bio to
    the disk (`hdd`). `activate` is the barrier of `eio_ttc_activate`
    (`act`). `Order` and `Private` say which barriers and which carries
    the original.
  - `IssueBarrier` is `eio_issue_empty_barrier_flush` up to its submit:
    `bio_alloc` gives one reference, and `GetRef` is the `bio_get`. When the
    disk has no queue, `hdd_make_request` ends the barrier inside the call
    (`EndedAtSubmit`).
  - `PutIssued` is the issuer's `bio_put` after the submit.
  - `EndBarrier` is `eio_bio_end_empty_barrier`, run by the device at any
    time after the submit, before or after `PutIssued`.
  - `bref` is the reference count of each barrier and `Holders` counts the
    parties that will still put it.
- **`MC_IoContext`**: `DispatchSpec` interleaves `IoContext` and
  `FlushBarrier`. Both are I/O the cache issues on its own; they share no
  variable.

- **`TTCLifecycle`**: one bucket of `eio_ttc_list` with its caches, the
  write lock (`owner`), and threads calling `eio_reboot_handling`,
  `eio_cache_edit` and delete.
  - `nxt` holds the forward links of the list, which is all that
    `list_for_each_entry` reads. `Linked` is the set the walk reaches from
    the head. `ListDelInit` is `list_del_init`: the removed entry points to
    itself.
  - The reboot actions follow the function's blocking points:
    - `RebootEnter` is the first test of `eio_reboot_notified`.
    - `RebootBitLock` takes `wait_on_bit_lock` and tests the flag again.
    - `RebootLock`, then `RebootIter`, one turn of the loop: it frees
      `tempdmc`, skips a failed cache, sets `SHUTDOWN_INPROG`, and at the
      head finishes.
    - `RebootModWait` and `RebootSleep` are the `MOD_INPROG` loop, which
      drops the lock. A `DELETED` cache there becomes `tempdmc`.
    - `RebootStore` is the unlocked clean and `eio_md_store`, then the clear
      of `SHUTDOWN_INPROG`. `RebootRelock` takes the lock again and follows
      the next link.
  - The edit actions are the stages of `eio_cache_edit`:
    - `EditLookup`, `EditPrecheck`, `EditSetMod` and `EditStop`.
    - `EditFnLock` and `EditClean` are `eio_finish_nrdirty`: the locked
      `nr_ios` drain, then one turn of the clean loop. `progress` says
      whether `eio_clean_all` cleaned.
    - `EditLock`, then `EditSwitch`: `PolicySwitch`, `ModeSwitch`,
      `eio_sb_store`. Each failure goes to its exit.
    - `EditOut`.
  - Delete is modelled from spec section 4.5, because `eio_cache_delete` is
    not in `src/`:
    - `DeleteLookup` and `DeleteSetMod`: BUSY while either flag is set.
    - `DeleteUnlink`: the `list_del_init` of `eio_ttc_deactivate`.
    - `DeleteFinish`: during a shutdown it marks the cache `DELETED` and
      leaves the free to the reboot walk, as the walk's comment at line 1812
      expects. Otherwise it frees the cache.
  - `CacheFail` is the environment.
  - Data are abstracted:
    - `nr_dirty` is 0 or 1. `nr_ios` drains are single steps.
    - The allocations of `eio_allocate_wb_resources` and
      `eio_policy_init` are a success/failure choice (`res` of `EditSwitch`).
    - `fast_remove` and the restart of the clean thread are not modelled.
- **`BvecDispatch`**: how one call of `eio_dispatch_io` cuts a region and
  its bvec array into bios. It is sequential; the hard part is the
  arithmetic.
  - Lengths are in sectors. `ToBytes` keeps the factor of 512 where the
    code hands bytes to a sector count (line 977).
  - `vecs` and `start` are chosen in `Init` and fixed: every bvec array of
    up to `MaxVecs` bvecs of 1..`MaxLen` sectors.
  - Actions:
    - `UnalignedIo`: one `do_unaligned_io`, a whole block read-modify-write,
      with its bvec walk (`VecWalk`, lines 851-867) and the cursor it
      leaves (`UnalignedDoneVecRemain`, lines 858-877).
    - `UnalignedNoMem`: the allocation failure of `do_unaligned_io`.
    - `AlignedBioStart`: `bio_alloc` with `remaining_aligned` rounded down
      to whole blocks (`RemainingAligned`).
    - `AddPage`: one `bio_add_page` from the cursor, which stays on the
      bvec while `KeepVec` (the test of line 1013) holds.
    - `SubmitBio`: submit the bio and return to the align test.
  - `Terminates` is checked under weak fairness on every action but
    `UnalignedNoMem`: the loop runs without blocking.
- **`WbPages`**: the allocators and freers of the write-back buffers.
  - Each function is a pure operator over a record `[bv, ref, n, page,
    ret]`: the bvec array (page and offset of each entry), the reference
    count of every page allocated so far (`ref`, pages numbered in
    allocation order), and the return value. Its loop is a RECURSIVE
    operator (`AllocWbBvecsFrom`, `FreeWbBvecsFrom`, `AllocWbPagesFrom`,
    `PutPagesDown`, `AllocPagesFrom`).
  - `alloc_page` failing is an input: `fail` names the first call that
    fails (0 for none). `eio_alloc_pages` also takes a failing `kzalloc`
    and which build of `EIO_ASSERT` runs (`panics`).
  - With 2K blocks (`Blk2K`) an even bvec allocates a page and the odd one
    after it shares that page, with no reference of its own, at offset
    `OddOffset`; the free puts the page only at even indexes (`PutsPage`).
  - The caller state machine (`wfn`, `wargs`, `wres`): `CallAllocWbBvecs`,
    `CallAllocWbPages` and `CallAllocPages` run one allocator on any input;
    `CallFreeWbBvecs` and `CallFreeWbPages` run the matching free on a
    successful result. The invariants are about the state after each call.
- **`MC_BvecDispatch`**: start sectors {0, 1}, so both an aligned and an
  unaligned head occur; block sizes 2K, 4K and 8K for the page helpers.
  `BuffersSpec` interleaves `BvecDispatch` and `WbPages`: the two share the
  page array of a request but no state that one changes under the other.
- **`MC_TTCLifecycle`**: the list head -> c1 -> c2 -> head. Editors name c1
  and deleters name c2.

## Runs

| Run | Cfg | Expect | What it shows |
|---|---|---|---|
| ttc_safety | `TTCRegistry_safety.cfg` | pass | Two caches are created, activated, deactivated and drained on a disk with partitions p1=[1,2] and p2=[3,4]. Concurrently, a bio crossing p1/p2 and a discard overlapping p1 arrive. Checked: `InterceptIffBound`, `WholeDiskExclusive`, `InFlightAccounted`, `SplitEndsOnce` and `SplitErrorKept`, plus the action property `RoutingMatchesReference` (every routing decision equals a reference overlap computation). |
| ttc_liveness | `TTCRegistry_liveness.cfg` | pass | Under fairness, every bio completes (`BiosComplete`) and every create/delete returns (`ControlReturns`). |
| ttc_span | `TTCRegistry_span.cfg` | violation | A bio [0,3] over the cached partition [1,2] is passed through uncached (finding 1). |
| ttc_dupbind | `TTCRegistry_dupbind.cfg` | violation | Three caches with one create each. Two concurrent creates on p1 both activate once a p2 binding heads the list (finding 2). |
| io_context | `IoContext.cfg` | pass | Up to 3 transfers, both modes, both mtypes, read and write, device errors and ENOMEM. Checked: the refinement `AbsSpec`, `ContextOutlivesTransfers` (no `eio_dec_count` on a freed or returned context) and `CallerFinishes`. Beside it, the barriers of one zero-size bio and one activation, with and without a queue on the disk. `BarrierRefsMatchHolders`: each barrier's reference count equals the parties that will still put it, whichever of the completion and the issuer's `bio_put` runs first. `OrigEndedOnce`: the original zero-size bio is ended exactly once. |
| lifecycle_safety | `TTCLifecycle_safety.cfg` | pass | Two concurrent reboot callers, an edit of c1 (any mode or policy), a delete of c2, and failures of either cache. `ModifyExcludesShutdown`: no edit or delete works on a cache while the reboot stores it read-only. `RebootReturnsQuiesced`: every caller, the second included, returns only when every bound, healthy cache is read-only. |
| lifecycle_liveness | `TTCLifecycle_liveness.cfg` | pass | A reboot caller and an edit of c1 both return (`RebootCompletes`, `EditReturns`). This needs the reboot's `MOD_INPROG` wait to drop the lock that the edit needs, and the cleaner to make progress. |
| lifecycle_dangling | `TTCLifecycle_dangling.cfg` | violation | A delete of c2 racing the reboot walk: the walk frees the deleted dmc and then reads it (finding 3). |
| lifecycle_sb_lock | `TTCLifecycle_sb_lock.cfg` | violation | An edit whose `eio_sb_store` fails returns holding the write lock (finding 4). |
| lifecycle_drain | `TTCLifecycle_drain.cfg` | violation | With no cleaning progress, an edit out of write-back never returns (finding 5). |
| buffers | `BvecDispatch.cfg` | pass | Every bvec list of up to 3 bvecs of 1..3 sectors, with LBS = 2 and start 0 or 1. The cursor stays consistent with the data left (`CursorTracksRemaining`), and dispatch ends (`Terminates`). `NrVecs` is not below `MaxVecs`, so the page-limited branch of lines 966-977 is not taken. Beside it, every call of the page helpers with up to 4 entries, block sizes 2K/4K/8K and any first failing allocation: a failed or freed bvec array holds no page (`WbBvecsBalanced`), a failed or freed page array holds no page (`WbPagesBalanced`), and `eio_alloc_pages` reports exactly the pages it filled and leaks none on failure (`AllocPagesAccounted`). |
| bvec_vec_remain | `BvecDispatch_vecremain.cfg` | violation | A single bvec of 4 sectors at start 1: after the unaligned head, the cursor moves past a bvec that still has data (finding 6). |

Every property of a passing run has a mutant in `PROJECT.json`: an operator
that changes one mapped definition the way a plausible bug would. TLC finds
the property violated under the run's own cfg.

### Bounds

- **Disk geometry.** Disk [0,5], p1 [1,2], p2 [3,4]. This is the smallest
  layout in which the following all occur: a bio inside a partition; a bio
  straddling two partitions (split into children); a bio straddling a
  partition and unpartitioned space; a whole-disk cache conflicting with
  partition caches.
- **Two caches with two create attempts each.** This is enough for a create to
  race a delete of a sibling, for a re-create after teardown, and for the
  origmfn chain between siblings. Symmetry over caches is used only in the
  safety run.
- **Three caches in ttc_dupbind.** The duplicate needs one binding heading
  the list and two racing creates.
- **TTCLifecycle: two caches.** One cache carries the edit and one the
  delete. The delete of the cache before the head is what makes the walk
  revisit a node. Two reboot callers are enough for the single-flight
  protocol. A third cache or a second editor adds no new order of flag
  tests: each flag pair is per cache. The liveness run uses one policy and no
  deleter. With the deleter, the walk reaches the use-after-free and stops,
  which is finding 3 and not a liveness question.
- **BvecDispatch: LBS = 2, up to 3 bvecs of 1..3 sectors, start 0 or 1.**
  This covers an unaligned head, an unaligned tail, a block spanning two
  and three bvecs, and aligned bios of several pages. A bvec of 3 sectors
  is LBS + 1, the longest for which the line-1013 test happens to be right,
  so the passing run checks the rest of the arithmetic. The violation run
  raises `MaxLen` to 4.
- **WbPages: up to 4 entries, 2K/4K/8K blocks, `MD_MAX_NR_PAGES` = 2.**
  Four entries hold two 2K pairs, so a failure can hit the first and the
  second page of a pair, after a whole pair, and at the first call. The
  request sizes 0..4 pass and exceed the page cap of 2. The violation run
  bvec_vec_remain lowers both to 1 to stay small.
- **FlushBarrier: one zero-size bio and one activation.** Every barrier is
  its own bio, and each completion can run before or after its issuer's put.
  A second zero-size bio would repeat the same pairs. Both values of
  `hddQueue` are initial states.
- **IoContext: `MaxBios = 3`.** This gives a head, a middle and a tail
  transfer: both unaligned positions and an aligned one between them.

### Fairness

- Strong fairness for the actions that need a lock that others hold
  intermittently: the lookup, activate, the write-lock acquisition of
  `eio_finish_nrdirty`, and unlink. Linux rw_semaphores queue waiters
  FIFO, so a waiter is not starved.
- Weak fairness for steps that are enabled until taken: device completions,
  the `nr_ios` polls (`schedule_timeout` loops) and the caller's own steps.
- No fairness on the environment's choices (`CacheFail`, allocation failures).
- In `FlushBarrier`, weak fairness on every step: the devices end what was
  submitted, and the issuers' threads do not block.
- In `BuffersSpec`, weak fairness on the dispatch steps (`Fairness` of
  `BvecDispatch`): the loop of `eio_dispatch_io` does not block. The page
  helpers' caller has no fairness; its calls are finite loops and
  `Terminates` is not about them.
- Deadlock checking is off: the workload is finite, so a finished system
  stops.
- In `TTCLifecycle`:
  - Strong fairness is used for the steps that wait for the write lock or
    for the reboot bit. `wait_on_bit_lock` and rw_semaphore waiters are
    woken.
  - Weak fairness is used for the other thread steps.
  - A clean turn that cleans nothing is a stutter. `CleanerProgress`
    (strong fairness on a cleaning turn) is the device assumption of spec
    section 5. `FairSpec` assumes it. `FairSpecNoProgress`, used by
    lifecycle_drain, does not.

## Findings

1. **Bios that span a whole partition are not cached.** `eio_make_request_fn`
   (line 411) tests only a bio's first and last sectors against each
   partition. A bio that strictly contains a cached partition is passed
   through uncached.
2. **Two caches can bind one partition.** `eio_ttc_activate` (line 216)
   compares only with the first binding of the disk and then breaks. Two
   racing creates on one partition both succeed.
3. **The reboot walk frees and then reads a deleted cache.** A delete
   finishes while `eio_reboot_handling` sleeps on its `MOD_INPROG`. The
   delete sees `SHUTDOWN_INPROG` and marks the cache `DELETED`. The walk
   makes it `tempdmc` and continues. `eio_ttc_deactivate` removed the entry
   with `list_del_init`, so the entry's next link is itself. The loop
   revisits it, frees it with `kfree(tempdmc)` (line 1768), and reads
   `cache_flags` of the freed dmc (line 1770). Even without the free, the
   walk would loop on the entry forever.
4. **A failed superblock write leaks the write lock.** `eio_cache_edit`
   jumps to `out` without `up_write` when `eio_sb_store` fails (line 1394).
   The failures before it release the lock. Every later lookup, create,
   delete or reboot on the bucket blocks.
5. **The clean loop never gives up.** `retry_count` in
   `eio_finish_nrdirty` (line 1222) is never decremented, so an edit out of
   write-back waits for the cleaner forever. Spec section 7 says the drain
   failure is surfaced as IO_DRAIN_FAILED.
6. **The bvec cursor advances past unread data.** After an unaligned head,
   `eio_dispatch_io` tests `bv_len - vec_remain` where it means `vec_remain`
   (line 1013). With a bvec longer than LBS + 1 sectors, the cursor moves to
   the next bvec while this one still has data, and the aligned bios are
   built from the wrong pages.

Noted, without a run:

- `eio_dec_count` (line 626) overwrites `io->error` on every failure, so the
  last error is reported. Spec section 3 says the first. `IoContext` keeps
  only whether an error occurred, so no property tells the two apart.
- Line 977 uses `to_bytes(num_bvecs)` as a sector count when it limits an
  aligned bio by the number of pages. A page-limited bio can then end inside
  a block. For example, with bvecs of 1, 2 and 1 sectors, LBS 2 and a
  limit of 2 bvecs, the bio is 3 sectors long. The next turn's
  read-modify-write then covers the sector the bio already wrote. TLC
  shows this with `NrVecs = 2`, but no run checks it: `buffers` keeps
  `NrVecs >= MaxVecs`, so the branch is not taken there.
- Spec section 5 says the write lock is never held across a drain. In the
  code, `eio_finish_nrdirty` (line 1228) and `eio_cache_edit` (line 1359)
  hold it with `down_write` while they poll `nr_ios`. `TTCLifecycle`
  models the code; `EditReturns` and `RebootCompletes` still hold when
  cleaning makes progress, and `lifecycle_drain` shows the edit stuck
  when it does not (finding 5).
- `eio_get_cache_list` (line 511) stores `ncaches * sizeof(struct
  cache_rec_short)` in an `unsigned int`. A large `ncaches` wraps it to a
  small buffer, and the fill loop stops at `ncaches`, not at the buffer, so
  it writes past the buffer's end when more caches are linked. The buffer is
  also never `vfree`d.
- `eio_cache_edit` switches the policy and then the mode (lines 1369-1383).
  When the mode switch fails, it returns the error with the new policy in
  effect and the superblock not stored. `EditSwitch` models this; no run
  states that a failed edit changes nothing, since the spec does not promise
  it.
- `eio_process_zero_size_bio` (lines 1168-1172) ends the original flush from
  the disk's flush alone. The completion of the cache-device barrier only
  puts the bio, and nothing waits for it, so a flush can be acknowledged
  before the cache device has flushed. `FlushBarrier` reaches this order. No
  property states it: whether an acknowledged flush must cover the cache
  device depends on the write-back data and on `eio_map`, both outside
  `src/`.

## Not modelled yet, and the plan

1. **Edit against delete of the same cache.** `eio_cache_edit` uses the
   lookup's dmc without a reference (line 1283). The model gives edits and
   deletes different caches, since the delete's free is outside `src/`.
2. **`ActivationQuiesced`.** Passthrough bios in flight across the
   `make_request_fn` swap, which activation settles only with `msleep(1)`
   (line 242).
3. **Not planned.**
   - `eio_issue_empty_barrier_flush` does not test `bio_alloc` (line 1195).
     With `GFP_KERNEL` and no `bio_set`, `bio_alloc` waits on its mempool
     and does not fail, so this is not a defect.
   - Device handles, the misc device and cache listing have no shared state.
