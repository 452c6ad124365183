# TLA+ models of the domain live-upgrade protocol

This directory holds a TLA+ verification development for the live upgrade ("hot
replace") of isolated domains. It models the proxy that fronts an
`EmptyDeviceDomain`, the pieces that proxy drives, and the system call that
starts an upgrade. It also models the sleepable-RCU cell `SRcuData` in full,
with an abstract specification that it is shown to implement. It contains TLC
models on small instances and TLAPS proofs that cover every instance size.

## The system and how its parts interact

* **The proxy** (`src/tcb/src/domain_proxy/empty_device.rs`,
  `EmptyDeviceDomainProxy`) holds the current domain instance in an
  `SRcuData` cell. Every call (`domain_id`, `read`, `write`) loads the
  `AtomicBool flag` with Relaxed ordering and takes one of two paths:
  * The **fast path** (`_*_no_lock`) increments a per-CPU counter
    (`LongLongPerCpu::get_with`), dereferences the cell with `read_directly`,
    runs the domain, and decrements the counter.
  * The **locked path** (`_*_with_lock`) does the same under the
    `Mutex lock`, without touching the counter.
* **replace** (`empty_device.rs:320-384`) performs the upgrade. It:
  1. takes the `domain_loader` mutex and then `lock`;
  2. reads the old id;
  3. sets `flag`;
  4. spins until `counter.sum() == 0`;
  5. calls `new_domain.init().unwrap()`;
  6. swaps the instance with `update_directly`;
  7. clears `flag`;
  8. forgets the old instance and calls `free_domain_resource(old_id, NotFree(new_id))`, which retags the old domain's shared-heap blocks to the new id;
  9. stores the new loader and unlocks.
* **SRcuData** (`src/kernel/src/sync/srcu.rs`) is a heap pointer guarded by
  sleepable RCU.
  * `read` takes the SRCU read lock, dereferences, runs the caller's closure
    and unlocks.
  * `update` loads the old pointer, allocates the new box, assigns it, calls
    `synchronize_srcu`, and hands the old box back to the caller, who drops it.
  * `read_directly` and `update_directly` skip SRCU: no read lock, and no
    grace period.
  * `Drop` cleans up the SRCU structure.

  The proxy only uses `read_directly` and `update_directly`, so its own
  flag-and-counter protocol is all that protects its readers.
* **A panicking domain.** A domain method may panic. The panic is counted by
  `sys_backtrace` and unwinds out of the proxy call to its caller.
  * On the locked path, unwinding drops the `MutexGuard` and so releases
    `lock`.
  * On the fast path, the decrement after the call (`empty_device.rs:280`,
    291) is skipped, because it is a plain statement and not a scope guard.
* **RRef** (`src/domain-lib/rref/src/rref.rs`): every shared-heap block carries
  the id of its owning domain.
  * `RRef::new` tags a block with the caller's domain.
  * `_read` moves its argument to the callee domain with `move_to`, and moves an `Ok` result back.
  * A domain that answers `Err` drops the block.
* **sys_update_domain** (`src/tcb/src/domain_helper/syscall.rs:95-203`)
  1. looks the proxy up and queries the old id (`domain_id()` through the proxy);
  2. creates a new instance with `create_domain_or_empty`, which gives a loaded domain or an empty placeholder whose id is `u64::MAX`;
  3. calls `replace`;
  4. removes the queried id from `DOMAIN_INFO` and inserts the new one.

## Modules

| module | models |
|---|---|
| `DomainProxy.tla` | The whole protocol above. `Threads` are callers of the proxy and `Coordinators` are threads running `sys_update_domain`. Each source step that touches shared state is one action. |
| `MC_DomainProxy.tla` | The TLC instance: model values, the `DomainIdOf` and `CallerId` tables, and the `LeakBound` constraint of the panic runs. |
| `DomainProxyProofs.tla` | The TLAPS proofs of type correctness and of `ReplaceOldIdCurrent`. |
| `ProxyCounterProofs.tla` | The TLAPS proofs about the per-CPU counter: `CounterCovers` always, and `CounterExact` when no domain panics. |
| `ProxyLockProofs.tla` | The TLAPS proof of `LockedCallsSafe`, the mutual exclusion of `self.lock` between `replace` and locked-path callers. |
| `RcuCell.tla` | The abstract RCU cell of spec §4.4. Readers acquire and release the installed object. An update publishes a fresh object and retires the old one. A retired object is reclaimed only when no reader uses it. |
| `SRcu.tla` | `SRcuData` with concurrent readers and updaters: every method, `Drop`, and the refinement mapping to `RcuCell`. |
| `MC_SRcu.tla` | The TLC instance of `SRcu` (model values only). |
| `SRcuProofs.tla` | The TLAPS proofs about `SRcu`: type correctness, box ownership, and the refinement. |

### State ↔ code (`DomainProxy`)

| variable | code |
|---|---|
| `domain` | the pointer inside `SRcuData<Box<dyn EmptyDeviceDomain>>` |
| `flag` | `EmptyDeviceDomainProxy::flag` |
| `counter` | the shards of `LongLongPerCpu`, one per CPU, as integers |
| `lock` | holder of `Mutex<()> lock` |
| `loaderLock` | holder of `Mutex<DomainLoader> domain_loader` |
| `domain_loader` | the instance whose loader is stored in it |
| `freed` | instances passed to `forget` + `free_domain_resource` |
| `created` | instances `create_domain_or_empty` has handed out |
| `registry` | the ids in `DOMAIN_INFO.domain_list` |
| `pc`, `op`, `path`, `ptr`, `tag`, `saved` | per caller: the program point, the method, fast or locked path, the dereferenced instance, the tag of the `RRefVec` argument/result, and the `old_id` returned by `move_to` |
| `cpc`, `queried`, `newDomain`, `oldId`, `oldDomain`, `acc`, `nextCpu` | per coordinator: the program point, the id queried at `syscall.rs:103`, the new instance, `old_id`, the instance swapped out, and the drain loop's partial sum and next shard |

Each caller action corresponds to source as follows:

| action | source |
|---|---|
| `Call` | flag load and dispatch, `empty_device.rs:111-145` |
| `IncCounter` | 275-278 |
| `AcquireLock` | `lock.lock()` |
| `ReadDirectly` | `srcu.rs:112-122` |
| `DomainCall` | the closure of `_read`/`_write`/`_domain_id`, including `move_to(id)` and a read's `Err` dropping the argument |
| `ReturnNoLock` | the decrement, with the result's `move_to(old_id)` |
| `ReturnWithLock` | `drop(lock)`, with the result's `move_to(old_id)` |
| `DomainPanic` | A panic inside the closure unwinding out of `_read_no_lock` / `_read_with_lock` (275-302). A read's argument is dropped. The locked path releases `lock`. The fast path keeps its increment. Only allowed when `MayPanic` holds, and never for the empty impl, whose methods cannot panic. |

Each coordinator action corresponds to source as follows:

| action | source |
|---|---|
| `BeginUpdate` | `syscall.rs:101-103`: the query and the old id, with `CreateDomain` |
| `CreateDomain` | `syscall.rs:131-142`: `create_domain_or_empty` in the `EmptyDeviceDomain` arm |
| `LockLoader` | 328 |
| `LockWrite` | 332 |
| `ReadOldId` | 335 |
| `SetFlag` | 339 |
| `SumShard` (one shard read per step) | the body of `sum()` |
| `DrainCheck` (the loop test, which resets the partial sum) | the `while` at 343-347 |
| `InitNew` | 351. The `Err` outcome is a panic: the coordinator stops at `"panicked"` with both mutexes held and `flag` set. |
| `UpdateDirectly` | 356, `srcu.rs:140-160` |
| `ClearFlag` | 360-361 |
| `ReleaseOld` | 365-376 |
| `UnlockWrite` | 379 |
| `UnlockLoader` | 380 |
| `UpdateRegistry` | `syscall.rs:188-202` |

Abstractions:

* Data is abstract. Instances are model values. Ids are small integers, with
  `EmptyId` standing for `u64::MAX`. An `RRefVec` is represented only by its
  tag. Messages and formatting are left out.
* The coordinator's own `domain_id()` calls at `syscall.rs:103/132` and at
  `replace:335` are single atomic reads. At `syscall.rs:103` the model keeps
  the locked path's wait as the guard `flag => lock = NoOne`. At 335 the flag
  is always clear (`ReplaceOldIdCurrent` and the proofs rely on
  `LoaderExclusive`), so the call takes the fast path. Its increment and
  decrement are on the coordinator's own thread and cancel before the drain.
* Panics have two forms, following what each site does. A panic inside a
  domain call (`DomainPanic`) unwinds: the locked path's guard is dropped and
  the fast path's increment is kept. A failing `init().unwrap()` (`InitNew`)
  stops the coordinator where it is, holding both mutexes with the flag set;
  unwinding would drop the two guards but leave the flag set, which breaks
  `InitFailureRollsBack` just the same. No result depends on the choice.
* Memory is sequentially consistent. The Relaxed orderings are listed as an
  unmodelled hazard.
* `move_to` (`rref.rs:198-210`, a read then a write of the tag) is one step.
  Splitting it would matter only if `free_domain_resource`'s retag could fall
  between the read and the write. The retag touches blocks tagged with the
  released id. A caller holds such a block only while it runs inside the
  released instance, which is exactly what `NoUseAfterFree` forbids. The
  lost update is therefore reachable only through the drain race that the
  `use_after_free` run already shows.
* `counter` shards are bounded by `ShardBound`. A shard can go negative when
  a thread increments on one CPU and decrements on another after migrating.
  The bound caps that drift. With panics, leaked increments only grow, so the
  two panic runs also bound them with the state constraint
  `LeakBound` (at most `MaxLeaks = 1` leaked increment). That leaves every
  caller a shard with room to increment, so the bound does not itself stop
  the system.
* The `panic_count` that `sys_backtrace` bumps in `DOMAIN_INFO` and the
  `BLK_CRASH` flag that `unwind()` clears are left out. No property reads
  them.

### State ↔ code (`SRcu`)

| variable | code |
|---|---|
| `dataPtr` | `crcu_data.data_ptr` |
| `allocated` | the boxes `Box::into_raw` has produced (in `new` and the updates) |
| `reclaimed` | the boxes handed back by an update and dropped by its caller |
| `locked` | the readers between `__srcu_read_lock` and `__srcu_read_unlock` |
| `rpc`, `rop`, `held` | per reader: the program point, `read` or `read_directly`, and the pointer `srcu_dereference` gave it |
| `upc`, `uop`, `oldPtr`, `newPtr` | per updater: the program point, `update` or `update_directly`, `old_ptr` and `new_ptr` |
| `waitFor` | per updater in `synchronize_srcu`: the readers it still waits for |
| `dropped` | `Drop` has run |

Each action corresponds to source as follows:

| action | source (`srcu.rs`) |
|---|---|
| `ReadLock` | 76 |
| `ReadDeref` | 80-84 |
| `ApplyF` | 88 |
| `ReadUnlock` | 92-94 |
| `ReadDirectly` | 115-118 |
| `ApplyFDirect` | 121 |
| `BeginUpdate` | the loads of `old_ptr` and the allocation of `new_ptr` (179-182, 143-147) |
| `Assign` | `srcu_assign_pointer` (185, 152). `update` goes on to synchronise; `update_directly` goes straight to `Box::from_raw(old_ptr)`. |
| `SyncStart`, `SyncDone` | `synchronize_srcu` (193, 227-229) |
| `Reclaim` | `Box::from_raw(old_ptr)` returned and dropped by the caller (200-203, 156-159) |
| `Drop` | 207-213; enabled only when no call is in progress, since `drop` takes `&mut self` |

`synchronize_srcu` is modelled by its contract (spec §6). When it starts, it
records the readers then inside a critical section (`waitFor`). Each
`ReadUnlock` removes its reader. It returns once none is left.

## Runs

The DomainProxy runs use 2 CPUs and `ShardBound = 2`.

| run | cfg | instance | checks | result |
|---|---|---|---|---|
| proxy_safety | `MC_DomainProxy.cfg` | 2 callers, 2 coordinators, 3 instances (2 loaded, 1 empty) | `TypeOK`, `CounterExact`, `ReplaceOldIdCurrent`, `LockedCallsSafe` | pass, 5.2 M distinct states, about 2.5 min |
| proxy_liveness | `MC_Liveness.cfg` | 2 callers, 1 coordinator, 2 instances | `UpgradeCompletes`, `CallsReturn` | pass |
| use_after_free | `MC_UseAfterFree.cfg` | 1 caller, 1 coordinator | `NoUseAfterFree` | **violated** |
| registry_stale | `MC_RegistryStale.cfg` | 1 caller, 2 coordinators | `RegistryTracksProxy` | **violated** |
| init_failure | `MC_InitFailure.cfg` | 1 caller, 1 coordinator, `init` may fail | `InitFailureRollsBack` | **violated** |
| panic_safety | `MC_PanicSafety.cfg` | 2 callers, 1 coordinator, 3 instances, domains may panic, `LeakBound` | `CounterCovers` | pass, 1.1 M distinct states |
| panic_wedges_upgrade | `MC_Panic.cfg` | 2 callers, 1 coordinator, domains may panic, `LeakBound` | `UpgradeCompletes` | **violated** |
| srcu_refinement | `MC_SRcuRefine.cfg` | 2 readers using `read`, 1 updater using `update`, 3 boxes, the cell may be dropped | `CellRefined`, `UpdateReturns` | pass, 941 distinct states |
| srcu_all_ops | `MC_SRcuOps.cfg` | 2 readers and 1 updater using every method, 3 boxes | `OwnershipConserved` | pass, 3689 distinct states |
| srcu_concurrent_update | `MC_SRcuUpdaters.cfg` | 1 reader, 2 updaters, 4 boxes | `OwnershipConserved` | **violated** |
| srcu_drop_leak | `MC_SRcuDrop.cfg` | 1 reader, 1 updater, the cell may be dropped | `OwnershipConserved` | **violated** |

The SRCU runs need few boxes, because every update consumes a fresh one: the
updater's `BeginUpdate` picks from `Objs \ allocated`. With 3 boxes,
`srcu_refinement` covers two complete updates and `srcu_all_ops` covers two
updates of any method mix. Both have readers holding the old box across the
swap and the grace period. `srcu_refinement` has deadlock checking off,
because after `Drop` nothing can run: the cell no longer exists.

Why these bounds are enough:

* **Two callers and two CPUs** let one caller migrate between its increment and
  its decrement while another is in flight. That is the smallest instance where
  the drain's shard-by-shard sum can be torn, and `UpgradeCompletes`' mutant
  `SumShardLocalOnly` needs the migration. (`CounterExact`'s mutant, a locked
  caller that decrements, needs only one caller and one CPU.)
* **Two coordinators** make two upgrades race for the loader mutex. That is
  needed for the stale-registry and stale-old-id questions.
* **An empty instance** lets an upgrade install, and a later upgrade release,
  the placeholder whose id is `u64::MAX`.

### What the passing runs show

* **CounterExact.** At every instant the shards add up to the number of
  fast-path callers between increment and decrement, across migrations. This
  is a fact about the counter, not about the drain: `counter.sum()` reads the
  shards one at a time, and a caller between its flag load and its increment
  is not counted (see `NoUseAfterFree`).
* **ReplaceOldIdCurrent.** The id that `replace` releases is always the id of
  the instance it swaps out, with concurrent upgrades of one proxy.
* **LockedCallsSafe.** A caller on the locked path, between its domain call
  and its return, always calls the installed instance, and that instance has
  not been released. The locked path reads `self.domain` with no SRCU read
  lock, so this rests only on `replace` holding `self.lock` from before the
  swap until after `free_domain_resource`. Its mutant lets `replace` take the
  lock without waiting for the holder, and the run then fails.
* **UpgradeCompletes and CallsReturn.** Under the fairness below, the drain
  loop terminates and no caller starves on the mutex.
* **CounterCovers.** With panicking domains, the shards still add up to at least
  the fast-path calls between increment and decrement. Unwinding leaks
  increments but never takes one away. Like `CounterExact` this is about an
  instant value of the counter; it does not make the drain safe, as the
  `use_after_free` run shows.
* **CellRefined.** `SRcuData` used through `read` and `update` implements
  `RcuCell` under the refinement mapping below. No box is reclaimed while a
  reader that dereferenced it is still inside its closure.
* **UpdateReturns.** `synchronize_srcu` terminates, and so does every update,
  when readers finish their closures.
* **OwnershipConserved.** With one updater, every allocated box has exactly one
  owner at every step, for `read`, `read_directly`, `update` and
  `update_directly` alike. The owner is the cell, an updater, or the caller
  the box was given back to.

### What the violation runs show

These runs are the findings listed in `PROJECT.json`.

* **NoUseAfterFree.** A caller loads `flag = false` (line 132). Then `replace`
  sets the flag and reads the caller's shard, which is still 0, so the drain
  passes. The caller then increments at 276 and dereferences the old instance
  at 279 while `replace` is still in `init` (351), before the swap at 356. It
  is still running that instance when `replace` calls
  `free_domain_resource` (373). (A dereference after the swap would get the
  new instance.) The flag
  load and the increment are not atomic together, and the drain does not
  synchronise with them.
* **RegistryTracksProxy.** Two upgrades query the same old id before
  serialising on the loader mutex. The second one's `remove` takes out the
  original id again, which leaves the first upgrade's (now released) id in
  `DOMAIN_INFO`.
* **InitFailureRollsBack.** `init().unwrap()` panics with both mutexes held and
  `flag` set. The spec (§4.6 step 5, scenario S3) asks for a rollback and
  `EIO`.
* **UpgradeCompletes, with panics.** A domain panics during a fast-path call,
  so its shard keeps the increment. The next `replace` spins in its drain loop
  forever, with `flag` set and the write mutex held, and every later call
  blocks on the locked path. Spec §7 says a `DomainPanic` does not quarantine
  the proxy; spec §9 leaves this case open.
* **OwnershipConserved, two updaters.** `SRcuData` is `Sync` and `update` takes
  `&self`. Two concurrent updates both load the same `old_ptr` before either
  assigns. Both hand it back, which is a double free, and the first update's
  new box is overwritten and leaks. Spec §4.4 does not require updaters to be
  serialised. The proxy serialises them with its loader mutex.
* **OwnershipConserved, drop.** `Drop` frees only the SRCU structure. The
  installed box is never turned back into a `Box`, so it leaks, although the
  doc comment of `new` (`srcu.rs:24-27`) says the data is freed on drop.

### Refinement mapping (`SRcu` → `RcuCell`)

`Cell == INSTANCE RcuCell WITH` maps the cell's variables as follows:

| `RcuCell` | mapped from `SRcu` |
|---|---|
| `cur` | `dataPtr` |
| `view[t]` | `held[t]`, while the reader is between its dereference and its unlock; otherwise `None` |
| `retired` | the old boxes of updates that have swapped and not yet handed the box back |
| `freed` | `reclaimed` |

Under this mapping:

* `ReadDeref` is `Acquire`, and `ReadUnlock` is `Release`.
* `Assign` is `Publish` of the new box, and `Reclaim` is `Reclaim` of the old
  one.
* Every other step is a stutter.

`ReadDirectly` has no counterpart: a reader outside a critical section is not
protected by RCU, which is why the refinement is stated for `read` only.

## Fairness

* `IncCounter`, `ReadDirectly`, `DomainCall` and the two returns get weak
  fairness. The kernel schedules runnable threads, and a domain call that
  returns is assumed.
* Each coordinator's replace steps get weak fairness.
* In `SRcu`, each reader that has started a call and each updater that has
  started an update get weak fairness on their steps. A reader's closure
  finishes: SRCU readers may sleep, but they wake. Starting a read or an
  update has no fairness.
* `AcquireLock`, `LockLoader` and `LockWrite` get strong fairness. A kernel
  mutex hands ownership to a waiter (`mutex` hand-off), so a thread that keeps
  waiting while the mutex is repeatedly freed gets it.
* Starting a call (`Call`) or an upgrade (`BeginUpdate`) has no fairness. Both
  are up to the user.

## Proofs (TLAPS)

Each result below holds for every finite set of callers, coordinators, CPUs and
domains that satisfies `ConstantsAssumption`. That assumption requires
`NCpus, ShardBound ∈ Nat \ {0}`, `DomainIdOf` and `CallerId` to be
tables of naturals, callers and coordinators to be disjoint, and the
sentinels `NoOne`, `NoDomain` and `NoBlock` to be outside the sets they
stand apart from. The counter and lock proofs also use `ThreadsFinite`: there
are finitely many callers, so the in-flight set has a cardinality.

* **`TypeCorrect`: `Spec => []TypeOK`.** `TypeOK` alone is not inductive, so the
  proof uses the strengthening `TypeInv = TypeOK ∧ AccBound ∧ ThreadShape`:
  * `AccBound`: the drain's partial sum after reading `k-1` shards lies in
    `-(k-1)·ShardBound .. (k-1)·ShardBound`. Without it, `SumShard` could leave
    `AccRange`.
  * `ThreadShape`: a caller at `"call"` holds a real instance, and the
    argument of a read that has not reached its domain yet carries an id
    (not the dropped-block tag). Without it, `DomainCall` could produce
    tags outside `TypeOK`.

  Supporting lemmas:
  * `PartialSumStep` does the arithmetic of one shard read, keeping the
    nonlinear products behind `AccRange`.
  * `TypeOKStepThread`, `TypeOKStepCoord`, `AccBoundStep` and
    `ThreadShapeStep` take one case per action.
* **`ReplaceOldIdCorrect`: `Spec => []ReplaceOldIdCurrent`.** The inductive
  invariant is `OldIdInv = LoaderExclusive ∧ ReplaceOldIdCurrent`.
  `LoaderExclusive` says a coordinator is between `LockLoader` and
  `UnlockLoader` exactly when it holds the loader mutex. The mutex therefore
  admits one replace at a time, so no other coordinator can swap `domain`
  between `ReadOldId` and `ReleaseOld`. This is why the property holds even
  though sys_update_domain's own query is stale.
  * Thread steps, the panic path included, change none of the variables
    involved (`OldIdStepThread`).
  * Each coordinator action is one case of `OldIdStepCoord`.

* **`CounterCoversInFlight`: `Spec => []CounterCovers`**, and
  **`CounterExactNoPanic`: if `~MayPanic`, `Spec => []CounterExact`**
  (`ProxyCounterProofs.tla`). `CounterSum` is `LongLongPerCpu::sum` written
  as a recursive *function* over `0..NCpus` (the table of partial sums), not
  a recursive operator, so the provers can reason about it. The inductive
  invariant `CounterInv` has three parts:
  * `PathShape`: a caller at `"inc"` is on the fast path, and one at `"lock"`
    on the locked path, so the steps that move the counter are exactly the
    steps that enter or leave `FastInFlight`;
  * `HasPartialSums`: some table `p` satisfies the partial-sum equations for
    the current shards. Each step builds the new table explicitly
    (`PartialSumsShift`: adding `delta` to one shard adds `delta` to the
    last entry), which avoids an induction over `k` that the provers cannot
    instantiate;
  * `CounterCovers`, and `CounterExact` when `~MayPanic`.

  `PartialSumsUnique` shows the table is unique by a least-element argument
  (`WFMin` over the well-founded order on `Nat`), so `CounterSum` is its last
  entry (`CounterSumIs`). Cardinality steps use `FS_AddElement` and
  `FS_RemoveElement`. The panic case only leaves `FastInFlight` without a
  decrement, which keeps `≥` and breaks `=`; `panic_safety` and the
  `LeakBound` runs show the same on TLC.
* **`LockedCallsProtected`: `Spec => []LockedCallsSafe`** (`ProxyLockProofs.tla`).
  The inductive invariant is `LockInv = LockOwner ∧ FreshInv ∧ LockedCallsSafe`,
  proved with `TypeInv`, `OldIdInv` and `CounterInv` already known:
  * `LockOwner`: a locked-path caller past `AcquireLock` is the holder of
    `lock`, and a coordinator from `LockWrite` to `UnlockWrite` (or panicked
    there) is the holder. So the two never overlap, and `domain` cannot change
    under a locked-path caller;
  * `FreshInv`: the installed instance was created and is not freed; the new
    instance a coordinator is about to install is fresh, distinct from the
    installed one and not freed; after the swap, the coordinator's old
    instance is the one it releases, and it is no longer installed. This is
    what makes `ReleaseOld` free only an instance nobody on the locked path
    can be calling.

  `LoaderExclusive` (from `OldIdInv`) is needed because two coordinators both
  hold state about a pending instance; the loader mutex admits one at a time.

The `SRcu` results hold for every set of readers, updaters and boxes that
satisfies `SRcuAssumption`. That assumption requires `InitObj ∈ Objs`,
`None ∉ Objs`, the method sets to name real methods, and readers and updaters
to be disjoint.

* **`SRcuTypeCorrect`: `Spec => []TypeOK`.** The proof goes through
  `TypeInv = TypeOK ∧ UpdaterShape`. `UpdaterShape` says an updater past
  `BeginUpdate` holds real boxes; `Assign` and `Reclaim` need it.
* **`OwnershipTheorem`: with one updater and no drop, `Spec => []OwnershipConserved`.**
  The inductive invariant `OwnInv` has these parts:
  * `~dropped`;
  * `DataLive`: the installed box is allocated and not dropped;
  * `UpdaterOwn`: before the swap, an update's old box is the installed one
    and its new box is live and distinct; after the swap, its old box is live
    and not installed;
  * `BoxesHeld`: every allocated box is installed, dropped, or held by the
    update.

  `OwnInvOwnership` turns `OwnInv` into exactly one owner per box. Its
  cardinality argument rests on `CardAtMostOne`: a set of pairwise equal
  elements has 0 or 1 members. The two violation runs show that neither
  hypothesis (one updater, no drop) can be dropped.
* **`CellRefinement`: under `Serialised`, `Spec => CellRefined`.** `Serialised`
  means only `read` and `update`, and one updater. The inductive invariant is
  `RefInv = TypeInv ∧ DataLive ∧ ReadersCovered ∧ UpdaterBoxes`:
  * `ReadersCovered`: a reader that has dereferenced holds a live box. That box
    is either the installed one, or the old box of an update still in its
    grace period; once that grace period has begun, the update waits for the
    reader. This is what makes `Reclaim` a legal abstract `Reclaim`: when the
    update reaches it, its `waitFor` is empty, so no reader holds the old box.
  * `UpdaterBoxes`: `UpdaterOwn` plus the fact that no reader holds an
    update's fresh box, which makes `Assign` a legal `Publish`.

  `RefStep` maps each step to an `RcuCell` step or a stutter. `RefInit` maps
  the initial state. The theorem then follows by PTL. It is the safety part of
  `CellRefined`: `RcuCell` has no fairness.

Only model-checked, outside the reach of the prover:

* The liveness properties, which need fairness and `ENABLED`.
* The violation runs, which are counterexamples.

## Not modelled

* **Other proxies.** The log and block-device proxies are not in this
  repository. `sys_update_domain` drives them in the same way.
* **Shared heap.** The heap, the `DROP` destructor registry, and
  `RRef::drop`/`custom_drop` are not modelled.
* **The SRCU implementation.** The kernel's SRCU (`init_srcu_struct`, the
  per-CPU reader counts behind `__srcu_read_lock`) is bound C code outside
  this repository. `SRcu` uses its contract, not its algorithm.
* **Other syscalls and the loader.** The following are thin wrappers or pure
  I/O:
  * the loader and ELF mapping;
  * the page allocation syscalls;
  * `sys_backtrace`'s panic counting;
  * `blk_crash_trick`.
* **Weak-memory reordering.** The Relaxed flag loads and stores are not
  modelled.

## Plan for later work

1. An abstract "atomic counter" specification that the per-CPU counter refines
   (sum = in-flight calls), with a refinement run.
2. The proxy stated against `RcuCell`: its locked path refines the cell, and
   its fast path does not (the use-after-free finding).
3. Further theorems: the `RcuCell` refinement extended to `read_directly`
   and `update_directly`, and the liveness results restated as TLC-only
   checks of the fairness the scheduler gives.
