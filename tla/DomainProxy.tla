---------------------------- MODULE DomainProxy ----------------------------
(***************************************************************************)
(* The live-upgrade protocol of EmptyDeviceDomainProxy                    *)
(* (src/tcb/src/domain_proxy/empty_device.rs) together with the pieces it *)
(* drives: the SRcuData cell holding the domain (src/kernel/src/sync/      *)
(* srcu.rs, read_directly / update_directly), the LongLongPerCpu counter   *)
(* of in-flight fast-path calls, RRef::move_to on the argument of read     *)
(* (src/domain-lib/rref/src/rref.rs), and the upgrade entry point          *)
(* sys_update_domain (src/tcb/src/domain_helper/syscall.rs) that calls     *)
(* replace and then rewrites the domain-info table.                       *)
(*                                                                         *)
(* Threads are callers of the proxy methods (domain_id, read, write).      *)
(* Coordinators are threads executing sys_update_domain.  Every step of a  *)
(* thread is one action; the interleaving is sequentially consistent.      *)
(***************************************************************************)
EXTENDS Integers, FiniteSets

CONSTANTS
    Threads,        \* caller threads of the proxy methods
    Coordinators,   \* threads running sys_update_domain
    NCpus,          \* number of CPUs, i.e. of LongLongPerCpu shards
    ShardBound,     \* bound on |shard| (a shard drifts when a thread migrates)
    Domains,        \* domain instances (Box<dyn EmptyDeviceDomain>)
    InitDomain,     \* the instance the proxy is built with
    DomainIdOf,     \* instance -> the u64 its domain_id() returns
    EmptyId,        \* u64::MAX, returned by EmptyDeviceDomainEmptyImpl
    CallerId,       \* thread -> id of the domain the caller runs in
    InitOutcomes,   \* results new_domain.init() may return: "ok", "err"
    NoOne,          \* holder of a free mutex
    NoDomain,       \* no instance (a thread that holds no pointer)
    NoBlock,        \* tag of an RRef that has been dropped
    MayPanic        \* whether a loaded domain may panic inside a call

CPUs == 1..NCpus
Ids == {DomainIdOf[d] : d \in Domains} \cup {CallerId[t] : t \in Threads}

ASSUME ConstantsAssumption ==
    /\ NCpus \in Nat \ {0}
    /\ ShardBound \in Nat \ {0}
    /\ InitDomain \in Domains
    /\ DomainIdOf \in [Domains -> Nat]
    /\ EmptyId \in Nat
    /\ CallerId \in [Threads -> Nat]
    /\ InitOutcomes \subseteq {"ok", "err"}
    /\ NoOne \notin Threads \cup Coordinators
    /\ Threads \cap Coordinators = {}
    /\ NoDomain \notin Domains
    /\ NoBlock \notin Nat
    /\ MayPanic \in BOOLEAN

\* Finitely many threads call into the proxy.
ASSUME ThreadsFinite == IsFiniteSet(Threads)

Ops == {"domain_id", "read", "write"}

VARIABLES
    domain,         \* SRcuData crcu_data.data_ptr: the installed instance
    flag,           \* AtomicBool flag: TRUE selects the locked path
    counter,        \* LongLongPerCpu counter: one shard per CPU
    lock,           \* holder of the Mutex<()> lock
    loaderLock,     \* holder of the Mutex<DomainLoader> domain_loader
    domain_loader,  \* instance whose DomainLoader the mutex stores
    freed,          \* instances released by replace
    created,        \* instances built by create_domain_or_empty so far
    registry,       \* ids in DOMAIN_INFO.domain_list for the domain's name
    pc, op, path, ptr, tag, saved,             \* caller threads
    cpc, queried, newDomain, oldId, oldDomain, acc, nextCpu  \* coordinators

proxyVars == <<domain, flag, counter, lock, loaderLock, domain_loader,
               freed, created, registry>>
threadVars == <<pc, op, path, ptr, tag, saved>>
coordVars == <<cpc, queried, newDomain, oldId, oldDomain, acc, nextCpu>>
vars == <<proxyVars, threadVars, coordVars>>

IsEmptyImpl(d) == DomainIdOf[d] = EmptyId

-----------------------------------------------------------------------------
(* Type definitions                                                        *)

ThreadPcs == {"idle", "inc", "lock", "deref", "call", "ret"}
CoordPcs == {"idle", "lock_loader", "lock_w", "old_id", "set_flag",
             "drain", "init", "update", "clear", "release", "unlock_w",
             "unlock_loader", "registry", "panicked"}

\* Range of a partial sum of the drain loop: NCpus shards, each bounded.
AccRange == -(NCpus * ShardBound)..(NCpus * ShardBound)

TypeOK ==
    /\ domain \in Domains
    /\ flag \in BOOLEAN
    /\ counter \in [CPUs -> -ShardBound..ShardBound]
    /\ lock \in Threads \cup Coordinators \cup {NoOne}
    /\ loaderLock \in Coordinators \cup {NoOne}
    /\ domain_loader \in Domains
    /\ freed \subseteq Domains
    /\ created \subseteq Domains
    /\ registry \subseteq Ids
    /\ pc \in [Threads -> ThreadPcs]
    /\ op \in [Threads -> Ops]
    /\ path \in [Threads -> {"fast", "locked"}]
    /\ ptr \in [Threads -> Domains \cup {NoDomain}]
    /\ tag \in [Threads -> Ids \cup {NoBlock}]
    /\ saved \in [Threads -> Ids]
    /\ cpc \in [Coordinators -> CoordPcs]
    /\ queried \in [Coordinators -> Ids]
    /\ newDomain \in [Coordinators -> Domains]
    /\ oldId \in [Coordinators -> Ids]
    /\ oldDomain \in [Coordinators -> Domains]
    /\ acc \in [Coordinators -> AccRange]
    /\ nextCpu \in [Coordinators -> 1..NCpus + 1]

-----------------------------------------------------------------------------
Init ==
    /\ domain = InitDomain
    /\ flag = FALSE
    /\ counter = [c \in CPUs |-> 0]
    /\ lock = NoOne
    /\ loaderLock = NoOne
    /\ domain_loader = InitDomain
    /\ freed = {}
    /\ created = {InitDomain}
    /\ registry = {DomainIdOf[InitDomain]}
    /\ pc = [t \in Threads |-> "idle"]
    /\ op = [t \in Threads |-> "domain_id"]
    /\ path = [t \in Threads |-> "fast"]
    /\ ptr = [t \in Threads |-> NoDomain]
    /\ tag = [t \in Threads |-> CallerId[t]]
    /\ saved = [t \in Threads |-> CallerId[t]]
    /\ cpc = [c \in Coordinators |-> "idle"]
    /\ queried = [c \in Coordinators |-> DomainIdOf[InitDomain]]
    /\ newDomain = [c \in Coordinators |-> InitDomain]
    /\ oldId = [c \in Coordinators |-> DomainIdOf[InitDomain]]
    /\ oldDomain = [c \in Coordinators |-> InitDomain]
    /\ acc = [c \in Coordinators |-> 0]
    /\ nextCpu = [c \in Coordinators |-> 1]

-----------------------------------------------------------------------------
(* Helpers translated from the callees of the proxy                       *)

\* RRef::new_with_layout: a fresh argument block is tagged with the id of
\* the domain that allocates it (*domain_id_pointer = crate::domain_id()).
NewArg(t) == IF tag[t] = NoBlock THEN CallerId[t] ELSE tag[t]

\* The results domain.read may give: EmptyDeviceDomainEmptyImpl always
\* answers Err(ENOSYS) and drops its argument; a loaded domain may do either.
ReadResults(d) == IF IsEmptyImpl(d) THEN {"err"} ELSE {"ok", "err"}

\* The results new_domain.init() may give; the empty impl returns Ok(()).
InitResults(d) == IF IsEmptyImpl(d) THEN {"ok"} ELSE InitOutcomes

\* free_domain_resource(old_id, FreeShared::NotFree(new_id)): shared-heap
\* blocks still tagged old_id are retagged new_id instead of being freed.
FreeDomainResource(old, new) ==
    [t \in Threads |-> IF tag[t] = old THEN new ELSE tag[t]]

\* Pick the shard of the CPU the thread runs on when get_with executes:
\* any CPU, since the thread may have migrated since its last step.
Shard(c, delta) == [counter EXCEPT ![c] = @ + delta]

\* LongLongPerCpu::sum: the shards of CPUs 1..NCpus added one by one.
CounterSum(cnt) ==
    LET partial[k \in 0..NCpus] ==
            IF k = 0 THEN 0 ELSE partial[k - 1] + cnt[k]
    IN  partial[NCpus]

-----------------------------------------------------------------------------
(* Caller threads: the dual-path methods domain_id, read and write        *)

\* domain_id / read / write: load flag (Relaxed) and choose the path.
Call(t) ==
    /\ pc[t] = "idle"
    /\ \E o \in Ops :
          /\ op' = [op EXCEPT ![t] = o]
          /\ tag' = IF o = "read" THEN [tag EXCEPT ![t] = NewArg(t)] ELSE tag
    /\ IF flag
          THEN /\ path' = [path EXCEPT ![t] = "locked"]
               /\ pc' = [pc EXCEPT ![t] = "lock"]
          ELSE /\ path' = [path EXCEPT ![t] = "fast"]
               /\ pc' = [pc EXCEPT ![t] = "inc"]
    /\ UNCHANGED <<proxyVars, ptr, saved, coordVars>>

\* _*_no_lock: self.counter.get_with(|counter| *counter += 1)
IncCounter(t) ==
    /\ pc[t] = "inc"
    /\ \E c \in CPUs : counter[c] < ShardBound /\ counter' = Shard(c, 1)
    /\ pc' = [pc EXCEPT ![t] = "deref"]
    /\ UNCHANGED <<domain, flag, lock, loaderLock, domain_loader, freed,
                   created, registry, op, path, ptr, tag, saved, coordVars>>

\* _*_with_lock: let lock = self.lock.lock()
AcquireLock(t) ==
    /\ pc[t] = "lock"
    /\ lock = NoOne
    /\ lock' = t
    /\ pc' = [pc EXCEPT ![t] = "deref"]
    /\ UNCHANGED <<domain, flag, counter, loaderLock, domain_loader, freed,
                   created, registry, op, path, ptr, tag, saved, coordVars>>

\* SRcuData::read_directly: srcu_dereference of data_ptr, no read lock.
ReadDirectly(t) ==
    /\ pc[t] = "deref"
    /\ ptr' = [ptr EXCEPT ![t] = domain]
    /\ pc' = [pc EXCEPT ![t] = "call"]
    /\ UNCHANGED <<proxyVars, op, path, tag, saved, coordVars>>

\* The closure of read_directly runs on the instance it dereferenced.
\* For read: id := domain.domain_id(); old_id := data.move_to(id);
\* r := domain.read(data), which drops data when it returns Err.
DomainCall(t) ==
    /\ pc[t] = "call"
    /\ IF op[t] = "read"
          THEN /\ saved' = [saved EXCEPT ![t] = tag[t]]
               /\ \E r \in ReadResults(ptr[t]) :
                     tag' = [tag EXCEPT ![t] =
                               IF r = "ok" THEN DomainIdOf[ptr[t]] ELSE NoBlock]
          ELSE UNCHANGED <<saved, tag>>
    /\ pc' = [pc EXCEPT ![t] = "ret"]
    /\ UNCHANGED <<proxyVars, op, path, ptr, coordVars>>

\* A variant with a plausible bug: the unwinding path decrements the counter
\* whichever path the call took (a scope guard placed around both paths).
DomainPanicDecrements(t) ==
    /\ pc[t] = "call"
    /\ MayPanic
    /\ ~IsEmptyImpl(ptr[t])
    /\ tag' = IF op[t] = "read" THEN [tag EXCEPT ![t] = NoBlock] ELSE tag
    /\ lock' = IF path[t] = "locked" THEN NoOne ELSE lock
    /\ \E c \in CPUs : counter[c] > -ShardBound /\ counter' = Shard(c, -1)
    /\ pc' = [pc EXCEPT ![t] = "idle"]
    /\ ptr' = [ptr EXCEPT ![t] = NoDomain]
    /\ UNCHANGED <<domain, flag, loaderLock, domain_loader, freed, created,
                   registry, op, path, saved, coordVars>>

\* The loaded domain panics inside the closure (the empty impl never does).
\* The panic unwinds out of read_directly and _domain_id / _read / _write
\* to the caller (spec 7, DomainPanic is surfaced): for read the RRef moved
\* into the domain is dropped on the way; on the locked path the MutexGuard
\* of self.lock.lock() is dropped, releasing the lock; on the fast path the
\* statement after the call, counter.get_with(|c| *c -= 1), never runs.
DomainPanic(t) ==
    /\ pc[t] = "call"
    /\ MayPanic
    /\ ~IsEmptyImpl(ptr[t])
    /\ tag' = IF op[t] = "read" THEN [tag EXCEPT ![t] = NoBlock] ELSE tag
    /\ lock' = IF path[t] = "locked" THEN NoOne ELSE lock
    /\ pc' = [pc EXCEPT ![t] = "idle"]
    /\ ptr' = [ptr EXCEPT ![t] = NoDomain]
    /\ UNCHANGED <<domain, flag, counter, loaderLock, domain_loader, freed,
                   created, registry, op, path, saved, coordVars>>

\* _read: res.map(|r| { r.move_to(old_id); r }) gives Ok data back to the
\* caller's domain.
RestoreTag(t) ==
    IF op[t] = "read" /\ tag[t] # NoBlock
       THEN [tag EXCEPT ![t] = saved[t]]
       ELSE tag

\* Variants of the return paths with plausible bugs, each of which one of
\* the properties below must detect: the locked path also decrementing the
\* counter; the guard of the locked path never dropped.
ReturnWithLockDecrements(t) ==
    /\ pc[t] = "ret"
    /\ path[t] = "locked"
    /\ tag' = RestoreTag(t)
    /\ lock' = NoOne
    /\ \E c \in CPUs : counter[c] > -ShardBound /\ counter' = Shard(c, -1)
    /\ pc' = [pc EXCEPT ![t] = "idle"]
    /\ ptr' = [ptr EXCEPT ![t] = NoDomain]
    /\ UNCHANGED <<domain, flag, loaderLock, domain_loader, freed,
                   created, registry, op, path, saved, coordVars>>

ReturnWithLockKeepsLock(t) ==
    /\ pc[t] = "ret"
    /\ path[t] = "locked"
    /\ tag' = RestoreTag(t)
    /\ pc' = [pc EXCEPT ![t] = "idle"]
    /\ ptr' = [ptr EXCEPT ![t] = NoDomain]
    /\ UNCHANGED <<domain, flag, counter, lock, loaderLock, domain_loader,
                   freed, created, registry, op, path, saved, coordVars>>

\* _*_no_lock: self.counter.get_with(|counter| *counter -= 1); return r
ReturnNoLock(t) ==
    /\ pc[t] = "ret"
    /\ path[t] = "fast"
    /\ tag' = RestoreTag(t)
    /\ \E c \in CPUs : counter[c] > -ShardBound /\ counter' = Shard(c, -1)
    /\ pc' = [pc EXCEPT ![t] = "idle"]
    /\ ptr' = [ptr EXCEPT ![t] = NoDomain]
    /\ UNCHANGED <<domain, flag, lock, loaderLock, domain_loader, freed,
                   created, registry, op, path, saved, coordVars>>

\* _*_with_lock: drop(lock); return r
ReturnWithLock(t) ==
    /\ pc[t] = "ret"
    /\ path[t] = "locked"
    /\ tag' = RestoreTag(t)
    /\ lock' = NoOne
    /\ pc' = [pc EXCEPT ![t] = "idle"]
    /\ ptr' = [ptr EXCEPT ![t] = NoDomain]
    /\ UNCHANGED <<domain, flag, counter, loaderLock, domain_loader, freed,
                   created, registry, op, path, saved, coordVars>>

-----------------------------------------------------------------------------
(* Coordinators: sys_update_domain and EmptyDeviceDomainProxy::replace    *)

\* Transition of coordinator c between two program points.
Goto(c, from, to) ==
    /\ cpc[c] = from
    /\ cpc' = [cpc EXCEPT ![c] = to]

\* The EmptyDeviceDomain arm of sys_update_domain: create_domain_or_empty
\* builds a new instance, loaded or empty, that nobody has seen before.
CreateDomain(c) ==
    \E d \in Domains \ created :
        /\ newDomain' = [newDomain EXCEPT ![c] = d]
        /\ created' = created \cup {d}

\* sys_update_domain: query_domain(old_name) and domain_id() through the
\* proxy (which waits for the lock while flag is set), then CreateDomain.
BeginUpdate(c) ==
    /\ Goto(c, "idle", "lock_loader")
    /\ flag => lock = NoOne
    /\ queried' = [queried EXCEPT ![c] = DomainIdOf[domain]]
    /\ CreateDomain(c)
    /\ UNCHANGED <<domain, flag, counter, lock, loaderLock, domain_loader,
                   freed, registry, threadVars, oldId, oldDomain, acc, nextCpu>>

\* replace: let mut loader_guard = self.domain_loader.lock()
LockLoader(c) ==
    /\ Goto(c, "lock_loader", "lock_w")
    /\ loaderLock = NoOne
    /\ loaderLock' = c
    /\ UNCHANGED <<domain, flag, counter, lock, domain_loader, freed, created,
                   registry, threadVars, queried, newDomain, oldId, oldDomain,
                   acc, nextCpu>>

\* A variant with a plausible bug: replace not waiting for the mutex of
\* the locked path (a try_lock whose failure is ignored).
LockWriteNoWait(c) ==
    /\ Goto(c, "lock_w", "old_id")
    /\ lock' = c
    /\ UNCHANGED <<domain, flag, counter, loaderLock, domain_loader, freed,
                   created, registry, threadVars, queried, newDomain, oldId,
                   oldDomain, acc, nextCpu>>

\* replace: let w_lock = self.lock.lock()
LockWrite(c) ==
    /\ Goto(c, "lock_w", "old_id")
    /\ lock = NoOne
    /\ lock' = c
    /\ UNCHANGED <<domain, flag, counter, loaderLock, domain_loader, freed,
                   created, registry, threadVars, queried, newDomain, oldId,
                   oldDomain, acc, nextCpu>>

\* A variant with a plausible bug: replace trusting the id its caller
\* queried before taking the mutexes instead of reading it under them.
ReadOldIdQueried(c) ==
    /\ Goto(c, "old_id", "set_flag")
    /\ flag => lock = NoOne
    /\ oldId' = [oldId EXCEPT ![c] = queried[c]]
    /\ UNCHANGED <<proxyVars, threadVars, queried, newDomain, oldDomain, acc,
                   nextCpu>>

\* replace: let old_id = self.domain_id().  Were flag set, this call would
\* take the locked path and wait for the lock c itself holds.
ReadOldId(c) ==
    /\ Goto(c, "old_id", "set_flag")
    /\ flag => lock = NoOne
    /\ oldId' = [oldId EXCEPT ![c] = DomainIdOf[domain]]
    /\ UNCHANGED <<proxyVars, threadVars, queried, newDomain, oldDomain, acc,
                   nextCpu>>

\* replace: self.flag.store(true, Relaxed), then the first counter.sum().
SetFlag(c) ==
    /\ Goto(c, "set_flag", "drain")
    /\ flag' = TRUE
    /\ acc' = [acc EXCEPT ![c] = 0]
    /\ nextCpu' = [nextCpu EXCEPT ![c] = 1]
    /\ UNCHANGED <<domain, counter, lock, loaderLock, domain_loader, freed,
                   created, registry, threadVars, queried, newDomain, oldId,
                   oldDomain>>

\* A variant with a plausible bug: the loop reading the shard of the CPU
\* replace runs on (CPU 1) instead of summing all shards.
SumShardLocalOnly(c) ==
    /\ cpc[c] = "drain"
    /\ nextCpu[c] \in CPUs
    /\ acc' = [acc EXCEPT ![c] = @ + counter[1]]
    /\ nextCpu' = [nextCpu EXCEPT ![c] = @ + 1]
    /\ UNCHANGED <<proxyVars, threadVars, cpc, queried, newDomain, oldId,
                   oldDomain>>

\* LongLongPerCpu::sum reads the shards one after the other, unsynchronised
\* with the threads that update them.
SumShard(c) ==
    /\ cpc[c] = "drain"
    /\ nextCpu[c] \in CPUs
    /\ acc' = [acc EXCEPT ![c] = @ + counter[nextCpu[c]]]
    /\ nextCpu' = [nextCpu EXCEPT ![c] = @ + 1]
    /\ UNCHANGED <<proxyVars, threadVars, cpc, queried, newDomain, oldId,
                   oldDomain>>

\* A variant with a plausible bug: the partial sum not reset before the
\* next pass of the loop.
DrainCheckNoReset(c) ==
    /\ cpc[c] = "drain"
    /\ nextCpu[c] = NCpus + 1
    /\ IF acc[c] = 0
          THEN /\ cpc' = [cpc EXCEPT ![c] = "init"]
               /\ UNCHANGED <<acc, nextCpu>>
          ELSE /\ nextCpu' = [nextCpu EXCEPT ![c] = 1]
               /\ UNCHANGED <<cpc, acc>>
    /\ UNCHANGED <<proxyVars, threadVars, queried, newDomain, oldId, oldDomain>>

\* replace: while self.counter.sum() != 0 { }  -- leave on a zero sum,
\* otherwise sum again.
DrainCheck(c) ==
    /\ cpc[c] = "drain"
    /\ nextCpu[c] = NCpus + 1
    /\ IF acc[c] = 0
          THEN /\ cpc' = [cpc EXCEPT ![c] = "init"]
               /\ UNCHANGED <<acc, nextCpu>>
          ELSE /\ acc' = [acc EXCEPT ![c] = 0]
               /\ nextCpu' = [nextCpu EXCEPT ![c] = 1]
               /\ UNCHANGED cpc
    /\ UNCHANGED <<proxyVars, threadVars, queried, newDomain, oldId, oldDomain>>

\* replace: new_domain.init().unwrap() -- an Err panics the coordinator
\* while it holds both mutexes and flag is set.
InitNew(c) ==
    /\ cpc[c] = "init"
    /\ \E r \in InitResults(newDomain[c]) :
          cpc' = [cpc EXCEPT ![c] = IF r = "ok" THEN "update" ELSE "panicked"]
    /\ UNCHANGED <<proxyVars, threadVars, queried, newDomain, oldId, oldDomain,
                   acc, nextCpu>>

\* replace: let old_domain = self.domain.update_directly(new_domain);
\* srcu_assign_pointer of the new instance, the old one handed back.
UpdateDirectly(c) ==
    /\ Goto(c, "update", "clear")
    /\ oldDomain' = [oldDomain EXCEPT ![c] = domain]
    /\ domain' = newDomain[c]
    /\ UNCHANGED <<flag, counter, lock, loaderLock, domain_loader, freed,
                   created, registry, threadVars, queried, newDomain, oldId,
                   acc, nextCpu>>

\* replace: self.flag.store(false, Relaxed)
ClearFlag(c) ==
    /\ Goto(c, "clear", "release")
    /\ flag' = FALSE
    /\ UNCHANGED <<domain, counter, lock, loaderLock, domain_loader, freed,
                   created, registry, threadVars, queried, newDomain, oldId,
                   oldDomain, acc, nextCpu>>

\* replace: Box::into_inner(old_domain) frees the old cell, forget keeps the
\* instance, free_domain_resource(old_id, NotFree(new_domain_id)) releases
\* the old domain and retags its shared data; *loader_guard = domain_loader.
ReleaseOld(c) ==
    /\ Goto(c, "release", "unlock_w")
    /\ freed' = freed \cup {oldDomain[c]}
    /\ tag' = FreeDomainResource(oldId[c], DomainIdOf[newDomain[c]])
    /\ domain_loader' = newDomain[c]
    /\ UNCHANGED <<domain, flag, counter, lock, loaderLock, created, registry,
                   pc, op, path, ptr, saved, queried, newDomain, oldId,
                   oldDomain, acc, nextCpu>>

\* replace: drop(w_lock)
UnlockWrite(c) ==
    /\ Goto(c, "unlock_w", "unlock_loader")
    /\ lock' = NoOne
    /\ UNCHANGED <<domain, flag, counter, loaderLock, domain_loader, freed,
                   created, registry, threadVars, queried, newDomain, oldId,
                   oldDomain, acc, nextCpu>>

\* replace: drop(loader_guard); Ok(())
UnlockLoader(c) ==
    /\ Goto(c, "unlock_loader", "registry")
    /\ loaderLock' = NoOne
    /\ UNCHANGED <<domain, flag, counter, lock, domain_loader, freed, created,
                   registry, threadVars, queried, newDomain, oldId, oldDomain,
                   acc, nextCpu>>

\* sys_update_domain after replace returned Ok: under DOMAIN_INFO.lock(),
\* remove the id queried at the start and insert the new domain's id.
UpdateRegistry(c) ==
    /\ Goto(c, "registry", "idle")
    /\ registry' = (registry \ {queried[c]}) \cup {DomainIdOf[newDomain[c]]}
    /\ UNCHANGED <<domain, flag, counter, lock, loaderLock, domain_loader,
                   freed, created, threadVars, queried, newDomain, oldId,
                   oldDomain, acc, nextCpu>>

-----------------------------------------------------------------------------
ThreadStep(t) ==
    \/ Call(t) \/ IncCounter(t) \/ AcquireLock(t) \/ ReadDirectly(t)
    \/ DomainCall(t) \/ DomainPanic(t) \/ ReturnNoLock(t) \/ ReturnWithLock(t)

Replace(c) ==
    \/ LockLoader(c) \/ LockWrite(c) \/ ReadOldId(c) \/ SetFlag(c)
    \/ SumShard(c) \/ DrainCheck(c) \/ InitNew(c) \/ UpdateDirectly(c)
    \/ ClearFlag(c) \/ ReleaseOld(c) \/ UnlockWrite(c) \/ UnlockLoader(c)

CoordStep(c) == BeginUpdate(c) \/ Replace(c) \/ UpdateRegistry(c)

Next ==
    \/ \E t \in Threads : ThreadStep(t)
    \/ \E c \in Coordinators : CoordStep(c)

\* Every started call and every started replace keeps running (the kernel
\* schedules runnable threads); a thread blocked on a kernel mutex gets it
\* eventually once it is released often enough (mutex hand-off prevents
\* starvation), hence strong fairness on the lock acquisitions.  Starting
\* a call or an upgrade is up to the user: no fairness on Call, BeginUpdate.
Fairness ==
    /\ \A t \in Threads :
          /\ WF_vars(IncCounter(t)) /\ WF_vars(ReadDirectly(t))
          /\ WF_vars(DomainCall(t)) /\ WF_vars(ReturnNoLock(t))
          /\ WF_vars(ReturnWithLock(t)) /\ SF_vars(AcquireLock(t))
    /\ \A c \in Coordinators :
          /\ WF_vars(Replace(c) \/ UpdateRegistry(c))
          /\ SF_vars(LockLoader(c)) /\ SF_vars(LockWrite(c))

Spec == Init /\ [][Next]_vars /\ Fairness

-----------------------------------------------------------------------------
(* Properties                                                              *)

\* Between the old_id read of replace and update_directly, and from then
\* until free_domain_resource, the id replace will release names the
\* instance the swap removes: two upgrades serialised by the loader mutex
\* never release a domain that is still installed or one already released.
ReplaceOldIdCurrent ==
    \A c \in Coordinators :
       /\ cpc[c] \in {"set_flag", "drain", "init", "update"}
             => oldId[c] = DomainIdOf[domain]
       /\ cpc[c] \in {"clear", "release"}
             => oldId[c] = DomainIdOf[oldDomain[c]]

\* No caller runs a domain method on an instance that replace has released:
\* the proxy's dual path (flag, then counter, then read_directly) must keep
\* every fast-path reader of the old instance out of the window after the
\* drain (spec 4.6: once upgrading is published no new fast-path call
\* begins; spec 8 scenario S2).
NoUseAfterFree ==
    \A t \in Threads : pc[t] \in {"call", "ret"} => ptr[t] \notin freed

\* A call that took the locked path runs its domain method on the instance
\* installed, and that instance is not one replace has released: holding
\* self.lock from the dereference to the return keeps replace (which holds
\* it from before update_directly until after free_domain_resource) out,
\* and every instance installed is one create_domain_or_empty built fresh.
LockedCallsSafe ==
    \A t \in Threads :
       (path[t] = "locked" /\ pc[t] \in {"call", "ret"})
          => ptr[t] = domain /\ ptr[t] \notin freed

\* When no upgrade is between update_directly and its DOMAIN_INFO update,
\* the domain-info table holds exactly the id of the installed domain under
\* the proxy's name (spec 8 scenario S1), even with concurrent upgrades.
RegistryTracksProxy ==
    (\A c \in Coordinators :
        cpc[c] \notin {"clear", "release", "unlock_w", "unlock_loader",
                       "registry"})
       => registry = {DomainIdOf[domain]}

\* An upgrade whose new_domain.init() fails leaves the proxy usable: flag
\* cleared and both mutexes free (spec 4.6 failure semantics, scenario S3).
InitFailureRollsBack ==
    \A c \in Coordinators :
       cpc[c] = "panicked" => ~flag /\ lock = NoOne /\ loaderLock = NoOne

\* The fast-path calls between their increment and their decrement.
FastInFlight ==
    {t \in Threads : path[t] = "fast" /\ pc[t] \in {"deref", "call", "ret"}}

\* The LongLongPerCpu contract the drain relies on: the shards add up to
\* the number of fast-path calls between their increment and decrement,
\* whichever CPUs those calls migrated between.
CounterExact == CounterSum(counter) = Cardinality(FastInFlight)

\* With panicking domains, the shards still add up, at every instant, to
\* at least the number of fast-path calls between increment (276) and
\* decrement (280).  A panic that unwinds out of a fast-path call leaves
\* its increment behind (a liveness loss, see UpgradeCompletes), but no
\* unwinding path takes away the increment of a call still running.
CounterCovers == CounterSum(counter) >= Cardinality(FastInFlight)

\* Every upgrade that sys_update_domain starts returns: the drain loop of
\* replace terminates because every fast-path call decrements the counter.
UpgradeCompletes ==
    \A c \in Coordinators : (cpc[c] # "idle") ~> (cpc[c] = "idle")

\* Every call of domain_id / read / write returns, on either path, while
\* upgrades take the lock and set the flag.
CallsReturn ==
    \A t \in Threads : (pc[t] # "idle") ~> (pc[t] = "idle")

=============================================================================
