-------------------------- MODULE DomainProxyProofs --------------------------
(***************************************************************************)
(* Proofs about DomainProxy for every value of its constants: type         *)
(* correctness, and that the id replace hands to free_domain_resource is   *)
(* the id of the instance update_directly removes (ReplaceOldIdCurrent).   *)
(***************************************************************************)
EXTENDS DomainProxy, TLAPS

-----------------------------------------------------------------------------
(* The strengthening of TypeOK.                                            *)

\* The partial sum of the drain loop covers shards 1..nextCpu-1 only.
AccBound ==
    \A c \in Coordinators :
       acc[c] \in -((nextCpu[c] - 1) * ShardBound)..((nextCpu[c] - 1) * ShardBound)

\* A thread inside a call holds a pointer; a read carries a live argument
\* until the domain has run.
ThreadShape ==
    \A t \in Threads :
       /\ pc[t] = "call" => ptr[t] \in Domains
       /\ (op[t] = "read" /\ pc[t] \in {"inc", "lock", "deref", "call"})
             => tag[t] \in Ids

TypeInv == TypeOK /\ AccBound /\ ThreadShape

\* Program points at which a coordinator holds the domain_loader mutex.
LoaderHeld == {"lock_w", "old_id", "set_flag", "drain", "init", "update",
               "clear", "release", "unlock_w", "unlock_loader", "panicked"}

\* Only the coordinator past LockLoader and before UnlockLoader holds it.
LoaderExclusive ==
    \A c \in Coordinators : (cpc[c] \in LoaderHeld) <=> (loaderLock = c)

\* The inductive strengthening of ReplaceOldIdCurrent.
OldIdInv == LoaderExclusive /\ ReplaceOldIdCurrent

-----------------------------------------------------------------------------
(* Type correctness                                                        *)

LEMMA IdsFacts ==
    /\ \A d \in Domains : DomainIdOf[d] \in Ids
    /\ \A t \in Threads : CallerId[t] \in Ids
  BY DEF Ids

\* The numeric constants, the only part of ConstantsAssumption the type
\* proofs need (citing the whole assumption slows the SMT backend down).
LEMMA BoundsNat == NCpus \in Nat \ {0} /\ ShardBound \in Nat \ {0}
  BY ConstantsAssumption

\* The products of the drain-loop bounds, kept away from the linear goals.
LEMMA ZeroInAccRange == 0 \in AccRange
  <1>1. NCpus * ShardBound \in Nat
    BY BoundsNat
  <1>2. QED
    BY <1>1 DEF AccRange

\* Adding one shard, of at most ShardBound, to a partial sum over k - 1
\* shards gives a partial sum over k shards, still within AccRange.
LEMMA PartialSumStep ==
    ASSUME NEW k \in 1..NCpus, NEW a \in Int, NEW x \in -ShardBound..ShardBound,
           a \in -((k - 1) * ShardBound)..((k - 1) * ShardBound)
    PROVE  /\ a + x \in -(((k + 1) - 1) * ShardBound)..(((k + 1) - 1) * ShardBound)
           /\ a + x \in AccRange
  <1>1. (k - 1) * ShardBound + ShardBound = ((k + 1) - 1) * ShardBound
    BY BoundsNat
  <1>2. ((k + 1) - 1) * ShardBound <= NCpus * ShardBound
    BY BoundsNat
  <1>3. QED
    BY <1>1, <1>2, BoundsNat DEF AccRange

LEMMA TypeInit == Init => TypeInv
  <1> SUFFICES ASSUME Init PROVE TypeInv
    OBVIOUS
  <1> USE DEF Init
  <1>1. flag \in BOOLEAN
    OBVIOUS
  <1>2. TypeOK
    BY <1>1, IdsFacts, ZeroInAccRange, BoundsNat, ConstantsAssumption DEF TypeOK, CPUs, Ops, ThreadPcs, CoordPcs
  <1>3. AccBound
    BY BoundsNat DEF AccBound
  <1>4. ThreadShape
    BY DEF ThreadShape
  <1>5. QED
    BY <1>2, <1>3, <1>4 DEF TypeInv

LEMMA TypeOKStepThread ==
    ASSUME TypeOK, ThreadShape, NEW t \in Threads, ThreadStep(t)
    PROVE  TypeOK'
  <1> USE DEF TypeOK, ThreadPcs, Ops, CPUs, proxyVars, coordVars
  \* No caller step writes flag.
  <1>0. flag' \in BOOLEAN
    BY Zenon DEF ThreadStep, Call, IncCounter, AcquireLock, ReadDirectly,
                 DomainCall, DomainPanic, ReturnNoLock, ReturnWithLock
  <1>1. CASE Call(t)
    <2>1. PICK o \in Ops :
            /\ op' = [op EXCEPT ![t] = o]
            /\ tag' = IF o = "read" THEN [tag EXCEPT ![t] = NewArg(t)] ELSE tag
      BY <1>1 DEF Call
    <2>2. NewArg(t) \in Ids
      BY IdsFacts DEF NewArg
    <2>3. UNCHANGED <<proxyVars, ptr, saved, coordVars>>
      BY <1>1 DEF Call
    <2>4. CASE flag
      <3>1. path' = [path EXCEPT ![t] = "locked"] /\ pc' = [pc EXCEPT ![t] = "lock"]
        BY <1>1, <2>4 DEF Call
      <3>2. QED
        BY <1>0, <2>1, <2>2, <2>3, <3>1
    <2>5. CASE ~flag
      <3>1. path' = [path EXCEPT ![t] = "fast"] /\ pc' = [pc EXCEPT ![t] = "inc"]
        BY <1>1, <2>5 DEF Call
      <3>2. QED
        BY <1>0, <2>1, <2>2, <2>3, <3>1
    <2>6. QED
      BY <2>4, <2>5
  <1>2. CASE IncCounter(t)
    <2>1. PICK x \in CPUs : counter[x] < ShardBound /\ counter' = Shard(x, 1)
      BY <1>2 DEF IncCounter
    <2>2. counter' \in [CPUs -> -ShardBound..ShardBound]
      BY <2>1, BoundsNat DEF Shard
    <2>3. QED
      BY <1>0, <1>2, <2>2 DEF IncCounter
  <1>3. CASE AcquireLock(t)
    BY <1>0, <1>3 DEF AcquireLock
  <1>4. CASE ReadDirectly(t)
    BY <1>0, <1>4 DEF ReadDirectly
  <1>5. CASE DomainCall(t)
    <2>1. ptr[t] \in Domains /\ DomainIdOf[ptr[t]] \in Ids
      BY <1>5, IdsFacts DEF DomainCall, ThreadShape
    <2>2. CASE op[t] = "read"
      <3>1. PICK r \in ReadResults(ptr[t]) :
              tag' = [tag EXCEPT ![t] =
                        IF r = "ok" THEN DomainIdOf[ptr[t]] ELSE NoBlock]
        BY <1>5, <2>2 DEF DomainCall
      <3>2. saved' = [saved EXCEPT ![t] = tag[t]] /\ tag[t] \in Ids
        BY <1>5, <2>2 DEF DomainCall, ThreadShape
      <3>3. QED
        BY <1>0, <1>5, <2>1, <3>1, <3>2 DEF DomainCall
    <2>3. CASE op[t] # "read"
      BY <1>0, <1>5, <2>3 DEF DomainCall
    <2>4. QED
      BY <2>2, <2>3
  <1>9. CASE DomainPanic(t)
    BY <1>0, <1>9 DEF DomainPanic
  <1>6. CASE ReturnNoLock(t)
    <2>1. PICK x \in CPUs : counter[x] > -ShardBound /\ counter' = Shard(x, -1)
      BY <1>6 DEF ReturnNoLock
    <2>2. counter' \in [CPUs -> -ShardBound..ShardBound]
      BY <2>1, BoundsNat DEF Shard
    <2>3. tag' \in [Threads -> Ids \cup {NoBlock}]
      BY <1>6 DEF ReturnNoLock, RestoreTag
    <2>4. QED
      BY <1>0, <1>6, <2>2, <2>3 DEF ReturnNoLock
  <1>7. CASE ReturnWithLock(t)
    BY <1>0, <1>7 DEF ReturnWithLock, RestoreTag
  <1>8. QED
    BY <1>1, <1>2, <1>3, <1>4, <1>5, <1>6, <1>7, <1>9 DEF ThreadStep

LEMMA TypeOKStepCoord ==
    ASSUME TypeOK, AccBound, NEW c \in Coordinators, CoordStep(c)
    PROVE  TypeOK'
  <1> USE DEF TypeOK, Goto, CoordPcs, CPUs, proxyVars, threadVars
  \* flag is only ever stored TRUE or FALSE.
  <1>0. flag' \in BOOLEAN
    BY Zenon DEF CoordStep, Replace, BeginUpdate, CreateDomain, LockLoader, LockWrite,
                 ReadOldId, SetFlag, SumShard, DrainCheck, InitNew,
                 UpdateDirectly, ClearFlag, ReleaseOld, UnlockWrite,
                 UnlockLoader, UpdateRegistry
  <1>1. CASE BeginUpdate(c)
    <2>1. PICK d \in Domains \ created :
            newDomain' = [newDomain EXCEPT ![c] = d] /\ created' = created \cup {d}
      BY <1>1 DEF BeginUpdate, CreateDomain
    <2>2. queried' \in [Coordinators -> Ids]
      BY <1>1, IdsFacts DEF BeginUpdate, CreateDomain
    <2>3. QED
      BY <1>0, <1>1, <2>1, <2>2 DEF BeginUpdate, CreateDomain
  <1>2. CASE LockLoader(c)
    BY <1>0, <1>2 DEF LockLoader
  <1>3. CASE LockWrite(c)
    BY <1>0, <1>3 DEF LockWrite
  <1>4. CASE ReadOldId(c)
    BY <1>0, <1>4, IdsFacts DEF ReadOldId
  <1>5. CASE SetFlag(c)
    BY <1>0, <1>5, ZeroInAccRange, BoundsNat DEF SetFlag
  <1>6. CASE SumShard(c)
    <2> DEFINE k == nextCpu[c]
    <2>1. k \in 1..NCpus /\ counter[k] \in -ShardBound..ShardBound
      BY <1>6 DEF SumShard
    <2>2. acc[c] \in -((k - 1) * ShardBound)..((k - 1) * ShardBound)
      BY DEF AccBound
    <2>3. acc[c] \in Int
      BY <2>2
    <2>4. acc[c] + counter[k] \in AccRange
      <3> HIDE DEF k
      <3> QED
        BY <2>1, <2>2, <2>3, PartialSumStep
    <2>5. /\ acc' = [acc EXCEPT ![c] = acc[c] + counter[k]]
          /\ nextCpu' = [nextCpu EXCEPT ![c] = k + 1]
          /\ UNCHANGED <<proxyVars, threadVars, cpc, queried, newDomain, oldId,
                         oldDomain>>
      BY <1>6 DEF SumShard
    <2>6. acc' \in [Coordinators -> AccRange]
      <3> HIDE DEF k
      <3> QED
        BY <2>4, <2>5
    <2>7. nextCpu' \in [Coordinators -> 1..NCpus + 1]
      <3>1. k + 1 \in 1..NCpus + 1
        BY <2>1, BoundsNat
      <3>2. nextCpu \in [Coordinators -> 1..NCpus + 1]
        OBVIOUS
      <3> HIDE DEF k
      <3> QED
        BY <3>1, <3>2, <2>5
    <2>8. QED
      BY <1>0, <2>5, <2>6, <2>7
  <1>7. CASE DrainCheck(c)
    <2>1. CASE acc[c] = 0
      <3>1. /\ cpc' = [cpc EXCEPT ![c] = "init"]
            /\ UNCHANGED <<acc, nextCpu, proxyVars, threadVars, queried,
                           newDomain, oldId, oldDomain>>
        BY <1>7, <2>1 DEF DrainCheck
      <3>2. QED
        BY <1>0, <3>1
    <2>2. CASE acc[c] # 0
      <3>1. /\ acc' = [acc EXCEPT ![c] = 0]
            /\ nextCpu' = [nextCpu EXCEPT ![c] = 1]
            /\ UNCHANGED <<cpc, proxyVars, threadVars, queried, newDomain,
                           oldId, oldDomain>>
        BY <1>7, <2>2 DEF DrainCheck
      <3>2. QED
        BY <1>0, <3>1, ZeroInAccRange, BoundsNat
    <2>3. QED
      BY <2>1, <2>2
  <1>8. CASE InitNew(c)
    <2>1. PICK r \in InitResults(newDomain[c]) :
            cpc' = [cpc EXCEPT ![c] = IF r = "ok" THEN "update" ELSE "panicked"]
      BY <1>8 DEF InitNew
    <2>2. UNCHANGED <<proxyVars, threadVars, queried, newDomain, oldId,
                      oldDomain, acc, nextCpu>>
      BY <1>8 DEF InitNew
    <2>3. cpc' \in [Coordinators -> CoordPcs]
      BY <2>1
    <2>4. QED
      BY <1>0, <2>2, <2>3
  <1>9. CASE UpdateDirectly(c)
    BY <1>0, <1>9 DEF UpdateDirectly
  <1>10. CASE ClearFlag(c)
    BY <1>0, <1>10 DEF ClearFlag
  <1>11. CASE ReleaseOld(c)
    <2>1. /\ freed' = freed \cup {oldDomain[c]}
          /\ tag' = FreeDomainResource(oldId[c], DomainIdOf[newDomain[c]])
          /\ domain_loader' = newDomain[c]
          /\ cpc' = [cpc EXCEPT ![c] = "unlock_w"]
          /\ UNCHANGED <<domain, flag, counter, lock, loaderLock, created,
                         registry, pc, op, path, ptr, saved, queried, newDomain,
                         oldId, oldDomain, acc, nextCpu>>
      BY <1>11 DEF ReleaseOld
    <2>2. tag' \in [Threads -> Ids \cup {NoBlock}]
      BY <2>1, IdsFacts DEF FreeDomainResource
    <2>3. QED
      BY SMTT(30), <1>0, <2>1, <2>2
  <1>12. CASE UnlockWrite(c)
    BY <1>0, <1>12 DEF UnlockWrite
  <1>13. CASE UnlockLoader(c)
    BY <1>0, <1>13 DEF UnlockLoader
  <1>14. CASE UpdateRegistry(c)
    BY <1>0, <1>14, IdsFacts DEF UpdateRegistry
  <1>15. QED
    BY <1>1, <1>2, <1>3, <1>4, <1>5, <1>6, <1>7, <1>8, <1>9, <1>10, <1>11,
       <1>12, <1>13, <1>14 DEF CoordStep, Replace

\* The drain loop's partial sum stays within the shards it has read: only
\* SetFlag, SumShard and DrainCheck write acc or nextCpu.
LEMMA AccBoundStep ==
    ASSUME TypeOK, AccBound, [Next]_vars
    PROVE  AccBound'
  <1> DEFINE Lo(k) == -((k - 1) * ShardBound)
             Hi(k) == (k - 1) * ShardBound
  <1>1. (1 - 1) * ShardBound = 0
    BY BoundsNat
  <1>2. CASE UNCHANGED <<acc, nextCpu>>
    BY <1>2 DEF AccBound
  <1>3. ASSUME NEW c \in Coordinators, SetFlag(c) \/ DrainCheck(c)
        PROVE  AccBound'
    <2>1. acc'[c] \in Lo(nextCpu'[c])..Hi(nextCpu'[c])
      BY <1>1, <1>3 DEF SetFlag, DrainCheck, AccBound, TypeOK
    <2>2. \A d \in Coordinators \ {c} : acc'[d] = acc[d] /\ nextCpu'[d] = nextCpu[d]
      BY <1>3 DEF SetFlag, DrainCheck, TypeOK
    <2>3. QED
      BY <2>1, <2>2 DEF AccBound
  <1>4. ASSUME NEW c \in Coordinators, SumShard(c)
        PROVE  AccBound'
    <2> DEFINE k == nextCpu[c]
    <2>1. /\ k \in 1..NCpus
          /\ counter[k] \in -ShardBound..ShardBound
          /\ acc[c] \in -((k - 1) * ShardBound)..((k - 1) * ShardBound)
      BY <1>4 DEF SumShard, AccBound, TypeOK, CPUs
    <2>2. acc[c] \in Int
      BY <2>1
    <2>3. acc[c] + counter[k]
            \in -(((k + 1) - 1) * ShardBound)..(((k + 1) - 1) * ShardBound)
      <3> HIDE DEF k
      <3> QED
        BY <2>1, <2>2, PartialSumStep
    <2>4. acc'[c] = acc[c] + counter[k] /\ nextCpu'[c] = k + 1
      BY <1>4 DEF SumShard, TypeOK
    <2>5. \A d \in Coordinators \ {c} : acc'[d] = acc[d] /\ nextCpu'[d] = nextCpu[d]
      BY <1>4 DEF SumShard, TypeOK
    <2>6. QED
      BY <2>3, <2>4, <2>5 DEF AccBound
  <1>5. QED
    <2>1. ASSUME NEW c \in Coordinators, CoordStep(c),
                 ~SetFlag(c), ~DrainCheck(c), ~SumShard(c)
          PROVE  UNCHANGED <<acc, nextCpu>>
      BY <2>1 DEF CoordStep, Replace, BeginUpdate, CreateDomain, LockLoader, LockWrite,
                  ReadOldId, InitNew, UpdateDirectly, ClearFlag, ReleaseOld,
                  UnlockWrite, UnlockLoader, UpdateRegistry
    <2>2. ASSUME NEW t \in Threads, ThreadStep(t)
          PROVE  UNCHANGED <<acc, nextCpu>>
      BY <2>2 DEF ThreadStep, Call, IncCounter, AcquireLock, ReadDirectly,
                  DomainCall, DomainPanic, ReturnNoLock, ReturnWithLock,
                  coordVars
    <2>3. UNCHANGED vars => UNCHANGED <<acc, nextCpu>>
      BY DEF vars, coordVars
    <2>4. QED
      BY <1>2, <1>3, <1>4, <2>1, <2>2, <2>3 DEF Next

\* A caller inside a domain call holds the instance it dereferenced, and a
\* read's argument block carries a live tag until the domain has run.
LEMMA ThreadShapeStep ==
    ASSUME TypeOK, ThreadShape, [Next]_vars
    PROVE  ThreadShape'
  <1>1. ASSUME NEW t \in Threads, ThreadStep(t)
        PROVE  ThreadShape'
    BY <1>1, IdsFacts DEF ThreadStep, Call, IncCounter, AcquireLock,
       ReadDirectly, DomainCall, DomainPanic, ReturnNoLock, ReturnWithLock,
       RestoreTag,
       NewArg, ThreadShape, TypeOK, proxyVars, coordVars
  <1>2. ASSUME NEW c \in Coordinators, CoordStep(c), ~ReleaseOld(c)
        PROVE  UNCHANGED <<pc, op, ptr, tag>>
    BY <1>2 DEF CoordStep, Replace, BeginUpdate, CreateDomain, LockLoader, LockWrite,
       ReadOldId, SetFlag, SumShard, DrainCheck, InitNew, UpdateDirectly,
       ClearFlag, UnlockWrite, UnlockLoader, UpdateRegistry, threadVars
  <1>3. ASSUME NEW c \in Coordinators, ReleaseOld(c)
        PROVE  ThreadShape'
    BY <1>3, IdsFacts DEF ReleaseOld, FreeDomainResource, Goto, ThreadShape,
       TypeOK
  <1>4. UNCHANGED vars => UNCHANGED <<pc, op, ptr, tag>>
    BY DEF vars, threadVars
  <1>5. QED
    BY <1>1, <1>2, <1>3, <1>4 DEF Next, ThreadShape

LEMMA TypeStep == TypeInv /\ [Next]_vars => TypeInv'
  <1> SUFFICES ASSUME TypeInv, [Next]_vars PROVE TypeInv'
    OBVIOUS
  <1>1. TypeOK'
    <2>1. CASE UNCHANGED vars
      BY <2>1 DEF vars, proxyVars, threadVars, coordVars, TypeInv, TypeOK
    <2>2. QED
      BY <2>1, TypeOKStepThread, TypeOKStepCoord DEF Next, TypeInv
  <1>2. AccBound'
    BY AccBoundStep DEF TypeInv
  <1>3. ThreadShape'
    BY ThreadShapeStep DEF TypeInv
  <1>4. QED
    BY <1>1, <1>2, <1>3 DEF TypeInv

LEMMA TypeInvariant == Spec => []TypeInv
  BY TypeInit, TypeStep, PTL DEF Spec

\* Type correctness of the proxy, the per-CPU counter, the drain loop and
\* the upgrade coordinators, for every number of threads, CPUs and domains.
THEOREM TypeCorrect == Spec => []TypeOK
  BY TypeInvariant, PTL DEF TypeInv

-----------------------------------------------------------------------------
(* The id replace releases                                                 *)

LEMMA NoOneNotCoordinator == NoOne \notin Coordinators
  BY ConstantsAssumption

LEMMA OldIdInit == Init => OldIdInv
  BY NoOneNotCoordinator
  DEF Init, OldIdInv, LoaderExclusive, LoaderHeld, ReplaceOldIdCurrent

\* A caller step touches neither the coordinators nor the installed domain.
LEMMA OldIdStepThread ==
    ASSUME NEW t \in Threads, ThreadStep(t)
    PROVE  UNCHANGED <<domain, loaderLock, cpc, oldId, oldDomain>>
  BY DEF ThreadStep, Call, IncCounter, AcquireLock, ReadDirectly, DomainCall,
         DomainPanic, ReturnNoLock, ReturnWithLock, proxyVars, coordVars

LEMMA OldIdStepCoord ==
    ASSUME TypeOK, OldIdInv, NEW c \in Coordinators, CoordStep(c)
    PROVE  OldIdInv'
  <1> USE DEF OldIdInv, LoaderExclusive, LoaderHeld, ReplaceOldIdCurrent, Goto
  <1>0. /\ cpc \in [Coordinators -> CoordPcs]
        /\ oldId \in [Coordinators -> Ids]
        /\ oldDomain \in [Coordinators -> Domains]
    BY DEF TypeOK
  <1>1. CASE BeginUpdate(c)
    BY <1>0, <1>1 DEF BeginUpdate, CreateDomain
  \* The mutex is free, so no coordinator is inside replace.
  <1>2. CASE LockLoader(c)
    BY <1>0, <1>2, NoOneNotCoordinator DEF LockLoader
  <1>3. CASE LockWrite(c)
    BY <1>0, <1>3 DEF LockWrite
  <1>4. CASE ReadOldId(c)
    BY <1>0, <1>4 DEF ReadOldId, proxyVars
  <1>5. CASE SetFlag(c)
    BY <1>0, <1>5 DEF SetFlag
  <1>6. CASE SumShard(c)
    BY <1>6 DEF SumShard, proxyVars
  <1>7. CASE DrainCheck(c)
    BY <1>0, <1>7 DEF DrainCheck, proxyVars
  <1>8. CASE InitNew(c)
    BY <1>0, <1>8 DEF InitNew, proxyVars
  \* Only the holder of domain_loader swaps the instance, and no other
  \* coordinator is between its old_id read and its release.
  <1>9. CASE UpdateDirectly(c)
    <2>1. loaderLock = c
      BY <1>9 DEF UpdateDirectly
    <2>2. \A d \in Coordinators \ {c} :
             cpc[d] \notin {"set_flag", "drain", "init", "update", "clear", "release"}
      BY <2>1
    <2>3. oldId[c] = DomainIdOf[domain]
      BY <1>9 DEF UpdateDirectly
    <2>4. QED
      BY <1>0, <1>9, <2>2, <2>3 DEF UpdateDirectly
  <1>10. CASE ClearFlag(c)
    BY <1>0, <1>10 DEF ClearFlag
  <1>11. CASE ReleaseOld(c)
    BY <1>0, <1>11 DEF ReleaseOld
  <1>12. CASE UnlockWrite(c)
    BY <1>0, <1>12 DEF UnlockWrite
  <1>13. CASE UnlockLoader(c)
    BY <1>0, <1>13, NoOneNotCoordinator DEF UnlockLoader
  <1>14. CASE UpdateRegistry(c)
    BY <1>0, <1>14 DEF UpdateRegistry
  <1>15. QED
    BY <1>1, <1>2, <1>3, <1>4, <1>5, <1>6, <1>7, <1>8, <1>9, <1>10, <1>11,
       <1>12, <1>13, <1>14 DEF CoordStep, Replace

LEMMA OldIdStep == TypeOK /\ OldIdInv /\ [Next]_vars => OldIdInv'
  <1> SUFFICES ASSUME TypeOK, OldIdInv, [Next]_vars PROVE OldIdInv'
    OBVIOUS
  <1>1. CASE UNCHANGED vars
    BY <1>1 DEF vars, proxyVars, coordVars, OldIdInv, LoaderExclusive,
               ReplaceOldIdCurrent
  <1>2. ASSUME NEW t \in Threads, ThreadStep(t) PROVE OldIdInv'
    BY <1>2, OldIdStepThread DEF OldIdInv, LoaderExclusive, ReplaceOldIdCurrent
  <1>3. QED
    BY <1>1, <1>2, OldIdStepCoord DEF Next

\* The id that replace reads under both mutexes (let old_id =
\* self.domain_id()) is the id of the instance update_directly removes and
\* the one free_domain_resource releases, whatever the number of callers and
\* of concurrent sys_update_domain calls: the domain_loader mutex keeps a
\* second upgrade from swapping the instance in between.
THEOREM ReplaceOldIdCorrect == Spec => []ReplaceOldIdCurrent
  <1>1. Spec => []TypeInv
    BY TypeInvariant
  <1>2. Spec => []OldIdInv
    BY <1>1, OldIdInit, OldIdStep, PTL DEF Spec, TypeInv
  <1>3. QED
    BY <1>2, PTL DEF OldIdInv

=============================================================================
