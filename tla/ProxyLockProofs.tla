--------------------------- MODULE ProxyLockProofs ---------------------------
(***************************************************************************)
(* Proof that the locked path of EmptyDeviceDomainProxy is safe for every  *)
(* number of callers, coordinators and domains, with panicking domains and *)
(* failing init() included: a call holding self.lock runs on the installed *)
(* instance, and that instance was never released (LockedCallsSafe).      *)
(*                                                                         *)
(* The argument has two halves.  The mutex self.lock has one owner at a    *)
(* time, and both the locked-path callers and replace (from its LockWrite  *)
(* to its UnlockWrite, and for ever after a failed init) hold it while     *)
(* they use or change the installed instance (LockOwner).  And every      *)
(* instance replace installs is one create_domain_or_empty built fresh, so *)
(* it differs from the instances released before and from the ones other  *)
(* upgrades hold (FreshInv).                                               *)
(***************************************************************************)
EXTENDS ProxyCounterProofs, TLAPS

-----------------------------------------------------------------------------
(* The inductive invariant                                                 *)

\* Program points at which replace holds self.lock: from LockWrite to
\* UnlockWrite, and after a failed init(), whose unwrap panics while the
\* guard is alive.
WHeld == {"old_id", "set_flag", "drain", "init", "update", "clear",
          "release", "unlock_w", "panicked"}

\* Who holds self.lock: a locked-path call from its dereference to its
\* return, or a coordinator at a point of WHeld.
LockOwner ==
    /\ \A t \in Threads :
          (path[t] = "locked" /\ pc[t] \in {"deref", "call", "ret"}) => lock = t
    /\ \A c \in Coordinators : cpc[c] \in WHeld => lock = c

\* Coordinators holding a new instance not yet installed.
Pending == {c \in Coordinators :
              cpc[c] \in {"lock_loader", "lock_w", "old_id", "set_flag",
                          "drain", "init", "update", "panicked"}}

\* Coordinators between update_directly and free_domain_resource.
Swapped == {c \in Coordinators : cpc[c] \in {"clear", "release"}}

\* The installed instance and the new ones of the pending upgrades were
\* built fresh, are pairwise distinct and were never released; an upgrade
\* that has swapped has installed its new instance and holds a different
\* old one, which is none of the pending new ones.
FreshInv ==
    /\ domain \in created
    /\ freed \subseteq created
    /\ domain \notin freed
    /\ \A c \in Pending :
          /\ newDomain[c] \in created
          /\ newDomain[c] # domain
          /\ newDomain[c] \notin freed
    /\ \A c, e \in Pending : c # e => newDomain[c] # newDomain[e]
    /\ \A c \in Swapped :
          /\ domain = newDomain[c]
          /\ oldDomain[c] # domain
          /\ oldDomain[c] \in created
    /\ \A c \in Swapped, e \in Pending : oldDomain[c] # newDomain[e]

LockInv == LockOwner /\ FreshInv /\ LockedCallsSafe

LEMMA ActorsFacts ==
    /\ NoOne \notin Threads
    /\ NoOne \notin Coordinators
    /\ \A t \in Threads, c \in Coordinators : t # c
  BY ConstantsAssumption

LEMMA LockInit == Init => LockInv
  BY ActorsFacts
  DEF Init, LockInv, LockOwner, WHeld, FreshInv, Pending, Swapped,
      LockedCallsSafe

-----------------------------------------------------------------------------
(* Caller steps                                                            *)

\* A caller step changes neither the installed instance nor the upgrades.
LEMMA LockThreadFrame ==
    ASSUME NEW t \in Threads, ThreadStep(t)
    PROVE  UNCHANGED <<domain, freed, created, cpc, newDomain, oldDomain>>
  BY DEF ThreadStep, Call, IncCounter, AcquireLock, ReadDirectly, DomainCall,
         DomainPanic, ReturnNoLock, ReturnWithLock, proxyVars, coordVars

\* Callers take self.lock only when it is free and give it back only when
\* they hold it; a dereference under the lock reads the installed instance.
LEMMA LockThreadStep ==
    ASSUME TypeOK, PathShape, LockInv, NEW t \in Threads, ThreadStep(t)
    PROVE  LockInv'
  <1>1. FreshInv'
    BY LockThreadFrame DEF LockInv, FreshInv, Pending, Swapped
  <1> USE <1>1, LockThreadFrame DEF LockInv, LockOwner, LockedCallsSafe, TypeOK,
          ThreadPcs
  <1>2. CASE Call(t)
    BY <1>2 DEF Call, proxyVars, coordVars
  <1>3. CASE IncCounter(t)
    BY <1>3 DEF IncCounter, PathShape
  <1>4. CASE AcquireLock(t)
    BY <1>4, ActorsFacts DEF AcquireLock, PathShape
  <1>5. CASE ReadDirectly(t)
    BY <1>5, <1>1 DEF ReadDirectly, FreshInv, proxyVars, coordVars
  <1>6. CASE DomainCall(t)
    BY <1>6 DEF DomainCall, proxyVars, coordVars
  <1>7. CASE DomainPanic(t)
    BY <1>7, ActorsFacts DEF DomainPanic
  <1>8. CASE ReturnNoLock(t)
    BY <1>8 DEF ReturnNoLock
  <1>9. CASE ReturnWithLock(t)
    BY <1>9, ActorsFacts DEF ReturnWithLock
  <1>10. QED
    BY <1>1, <1>2, <1>3, <1>4, <1>5, <1>6, <1>7, <1>8, <1>9 DEF ThreadStep

-----------------------------------------------------------------------------
(* Coordinator steps                                                       *)

\* The facts a coordinator step needs: the types of its variables, and the
\* domain_loader mutex admitting one coordinator inside replace.
CoordContext ==
    /\ cpc \in [Coordinators -> CoordPcs]
    /\ newDomain \in [Coordinators -> Domains]
    /\ oldDomain \in [Coordinators -> Domains]
    /\ LoaderExclusive
    /\ LockInv

\* Steps that move a coordinator between two points on the same side of
\* WHeld, Pending and Swapped, touching neither self.lock, the installed
\* instance, the released ones nor the callers.
LEMMA LockCoordQuiet ==
    ASSUME CoordContext, NEW c \in Coordinators,
           \/ LockLoader(c) \/ ReadOldId(c) \/ SetFlag(c) \/ SumShard(c)
           \/ DrainCheck(c) \/ InitNew(c) \/ ClearFlag(c) \/ UnlockLoader(c)
           \/ UpdateRegistry(c)
    PROVE  LockInv'
  <1>1. UNCHANGED <<lock, domain, freed, created, newDomain, oldDomain,
                    pc, path, ptr>>
    BY DEF LockLoader, ReadOldId, SetFlag, SumShard, DrainCheck, InitNew,
           ClearFlag, UnlockLoader, UpdateRegistry, proxyVars, threadVars
  <1>2. /\ cpc' = [cpc EXCEPT ![c] = cpc'[c]]
        /\ cpc[c] \in WHeld <=> cpc'[c] \in WHeld
        /\ c \in Pending <=> c \in Pending'
        /\ c \in Swapped <=> c \in Swapped'
    BY DEF LockLoader, ReadOldId, SetFlag, SumShard, DrainCheck, InitNew,
           ClearFlag, UnlockLoader, UpdateRegistry, Goto, WHeld, Pending,
           Swapped, CoordContext
  <1>3. Pending' = Pending /\ Swapped' = Swapped
    BY <1>2 DEF Pending, Swapped, CoordContext
  <1>4. QED
    BY <1>1, <1>2, <1>3
    DEF CoordContext, LockInv, LockOwner, FreshInv, LockedCallsSafe

\* sys_update_domain builds an instance no one has seen.
LEMMA LockCoordBegin ==
    ASSUME CoordContext, NEW c \in Coordinators, BeginUpdate(c)
    PROVE  LockInv'
  <1> USE DEF CoordContext
  <1>1. PICK d \in Domains \ created :
               /\ newDomain' = [newDomain EXCEPT ![c] = d]
               /\ created' = created \cup {d}
    BY DEF BeginUpdate, CreateDomain
  <1>2. /\ cpc[c] = "idle" /\ cpc' = [cpc EXCEPT ![c] = "lock_loader"]
        /\ UNCHANGED <<lock, domain, freed, oldDomain, pc, path, ptr>>
    BY DEF BeginUpdate, CreateDomain, Goto, threadVars
  <1>3. Pending' = Pending \cup {c} /\ Swapped' = Swapped /\ c \notin Pending
    BY <1>2 DEF Pending, Swapped
  <1>4. /\ d # domain /\ d \notin freed
        /\ \A e \in Pending : d # newDomain[e]
        /\ \A e \in Swapped : d # oldDomain[e]
    BY <1>1 DEF LockInv, FreshInv
  <1>5. FreshInv'
    <2>1. /\ domain' \in created' /\ freed' \subseteq created'
          /\ domain' \notin freed'
      BY <1>1, <1>2 DEF LockInv, FreshInv
    <2>2. \A e \in Pending' :
             /\ newDomain'[e] \in created'
             /\ newDomain'[e] # domain'
             /\ newDomain'[e] \notin freed'
      BY <1>1, <1>2, <1>3, <1>4 DEF LockInv, FreshInv
    <2>3. \A e, f \in Pending' : e # f => newDomain'[e] # newDomain'[f]
      BY <1>1, <1>3, <1>4 DEF LockInv, FreshInv
    <2>4. \A e \in Swapped' :
             /\ domain' = newDomain'[e]
             /\ oldDomain'[e] # domain'
             /\ oldDomain'[e] \in created'
      <3>1. \A e \in Swapped : e # c
        BY <1>2 DEF Swapped
      <3>2. QED
        BY <1>1, <1>2, <1>3, <3>1 DEF LockInv, FreshInv
    <2>5. \A e \in Swapped', f \in Pending' : oldDomain'[e] # newDomain'[f]
      BY <1>1, <1>2, <1>3, <1>4 DEF LockInv, FreshInv
    <2>6. QED
      BY <2>1, <2>2, <2>3, <2>4, <2>5 DEF FreshInv
  <1>6. LockOwner' /\ LockedCallsSafe'
    BY <1>2 DEF LockInv, LockOwner, LockedCallsSafe, WHeld
  <1>7. QED
    BY <1>5, <1>6 DEF LockInv

\* replace: self.lock.lock() waits for the mutex to be free.
LEMMA LockCoordLockWrite ==
    ASSUME CoordContext, NEW c \in Coordinators, LockWrite(c)
    PROVE  LockInv'
  <1> USE DEF CoordContext
  <1>1. /\ cpc[c] = "lock_w" /\ cpc' = [cpc EXCEPT ![c] = "old_id"]
        /\ lock = NoOne /\ lock' = c
        /\ UNCHANGED <<domain, freed, created, newDomain, oldDomain, pc, path,
                       ptr>>
    BY DEF LockWrite, Goto, threadVars
  <1>2. Pending' = Pending /\ Swapped' = Swapped
    BY <1>1 DEF Pending, Swapped
  <1>3. LockOwner'
    BY <1>1, ActorsFacts DEF LockInv, LockOwner, WHeld
  <1>4. QED
    BY <1>1, <1>2, <1>3 DEF LockInv, FreshInv, LockedCallsSafe

\* replace: drop(w_lock) by the coordinator that holds it.
LEMMA LockCoordUnlockWrite ==
    ASSUME CoordContext, NEW c \in Coordinators, UnlockWrite(c)
    PROVE  LockInv'
  <1> USE DEF CoordContext
  <1>1. /\ cpc[c] = "unlock_w" /\ cpc' = [cpc EXCEPT ![c] = "unlock_loader"]
        /\ lock' = NoOne
        /\ UNCHANGED <<domain, freed, created, newDomain, oldDomain, pc, path,
                       ptr>>
    BY DEF UnlockWrite, Goto, threadVars
  <1>2. lock = c
    BY <1>1 DEF LockInv, LockOwner, WHeld
  <1>3. Pending' = Pending /\ Swapped' = Swapped
    BY <1>1 DEF Pending, Swapped
  <1>4. LockOwner'
    BY <1>1, <1>2, ActorsFacts DEF LockInv, LockOwner, WHeld
  <1>5. QED
    BY <1>1, <1>3, <1>4 DEF LockInv, FreshInv, LockedCallsSafe

\* update_directly: the coordinator holds self.lock, so no locked-path
\* call is running, and it holds domain_loader, so no other upgrade has
\* swapped and not yet released.
LEMMA LockCoordUpdate ==
    ASSUME CoordContext, NEW c \in Coordinators, UpdateDirectly(c)
    PROVE  LockInv'
  <1> USE DEF CoordContext
  <1>1. /\ cpc[c] = "update" /\ cpc' = [cpc EXCEPT ![c] = "clear"]
        /\ domain' = newDomain[c]
        /\ oldDomain' = [oldDomain EXCEPT ![c] = domain]
        /\ UNCHANGED <<lock, freed, created, newDomain, pc, path, ptr>>
    BY DEF UpdateDirectly, Goto, threadVars
  <1>2. c \in Pending /\ lock = c
    BY <1>1 DEF Pending, LockInv, LockOwner, WHeld
  <1>3. Swapped = {}
    BY <1>1 DEF Swapped, LoaderExclusive, LoaderHeld
  <1>4. Pending' = Pending \ {c} /\ Swapped' = {c}
    BY <1>1, <1>3 DEF Pending, Swapped
  <1>5. \A t \in Threads : ~(path[t] = "locked" /\ pc[t] \in {"deref", "call", "ret"})
    BY <1>2, ActorsFacts DEF LockInv, LockOwner
  <1>6. FreshInv'
    <2>1. /\ newDomain[c] \in created /\ newDomain[c] # domain
          /\ newDomain[c] \notin freed
          /\ \A e \in Pending \ {c} : newDomain[e] # newDomain[c]
      BY <1>2 DEF LockInv, FreshInv
    <2>2. QED
      BY <1>1, <1>4, <2>1 DEF LockInv, FreshInv
  <1>7. LockOwner'
    BY <1>1 DEF LockInv, LockOwner, WHeld
  <1>8. LockedCallsSafe'
    BY <1>1, <1>5 DEF LockedCallsSafe
  <1>9. QED
    BY <1>6, <1>7, <1>8 DEF LockInv

\* free_domain_resource releases the old instance, which is neither the
\* installed one nor a pending new one.
LEMMA LockCoordRelease ==
    ASSUME CoordContext, NEW c \in Coordinators, ReleaseOld(c)
    PROVE  LockInv'
  <1> USE DEF CoordContext
  <1>1. /\ cpc[c] = "release" /\ cpc' = [cpc EXCEPT ![c] = "unlock_w"]
        /\ freed' = freed \cup {oldDomain[c]}
        /\ UNCHANGED <<lock, domain, created, newDomain, oldDomain, pc, path,
                       ptr>>
    BY DEF ReleaseOld, Goto
  <1>2. c \in Swapped
    BY <1>1 DEF Swapped
  <1>3. Pending' = Pending /\ Swapped' = Swapped \ {c}
    BY <1>1 DEF Pending, Swapped
  <1>4. /\ oldDomain[c] # domain /\ oldDomain[c] \in created
        /\ \A e \in Pending : oldDomain[c] # newDomain[e]
    BY <1>2 DEF LockInv, FreshInv
  <1>5. FreshInv'
    BY <1>1, <1>3, <1>4 DEF LockInv, FreshInv
  <1>6. LockOwner'
    BY <1>1 DEF LockInv, LockOwner, WHeld
  <1>7. LockedCallsSafe'
    BY <1>1, <1>4 DEF LockInv, LockedCallsSafe
  <1>8. QED
    BY <1>5, <1>6, <1>7 DEF LockInv

LEMMA LockStep ==
    ASSUME TypeOK, LoaderExclusive, PathShape, LockInv, [Next]_vars
    PROVE  LockInv'
  <1>1. CASE UNCHANGED vars
    BY <1>1 DEF vars, proxyVars, threadVars, coordVars, LockInv, LockOwner,
               FreshInv, Pending, Swapped, LockedCallsSafe
  <1>2. ASSUME NEW t \in Threads, ThreadStep(t) PROVE LockInv'
    BY <1>2, LockThreadStep
  <1>3. ASSUME NEW c \in Coordinators, CoordStep(c) PROVE LockInv'
    <2>1. CoordContext
      BY DEF CoordContext, TypeOK
    <2>2. QED
      BY <1>3, <2>1, LockCoordQuiet, LockCoordBegin, LockCoordLockWrite,
         LockCoordUnlockWrite, LockCoordUpdate, LockCoordRelease
      DEF CoordStep, Replace
  <1>4. QED
    BY <1>1, <1>2, <1>3 DEF Next

LEMMA OldIdInvariant == Spec => []OldIdInv
  BY TypeInvariant, OldIdInit, OldIdStep, PTL DEF Spec, TypeInv

\* A call of domain_id / read / write that found flag set and took the
\* locked path runs its domain method on the installed instance, and that
\* instance was never released by free_domain_resource: for every number
\* of callers, concurrent upgrades and domains, with domains that panic
\* and new domains whose init() fails.  replace holds self.lock from
\* before update_directly until after free_domain_resource, and the
\* instances it installs are fresh.
THEOREM LockedCallsProtected == Spec => []LockedCallsSafe
  <1>1. Spec => [](TypeOK /\ LoaderExclusive /\ PathShape)
    BY TypeCorrect, OldIdInvariant, CounterInvariant, PTL
    DEF OldIdInv, CounterInv
  <1>2. Spec => []LockInv
    BY <1>1, LockInit, LockStep, PTL DEF Spec
  <1>3. QED
    BY <1>2, PTL DEF LockInv

=============================================================================
