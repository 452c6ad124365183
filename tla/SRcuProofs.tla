----------------------------- MODULE SRcuProofs -----------------------------
(***************************************************************************)
(* Proofs about SRcu for every set of readers, updaters and objects: type  *)
(* correctness, and that SRcuData used through read and update by          *)
(* serialised updaters implements the RCU cell of RcuCell.tla.            *)
(***************************************************************************)
EXTENDS SRcu, FiniteSetTheorems, TLAPS

-----------------------------------------------------------------------------
(* Type correctness                                                        *)

\* An updater past BeginUpdate holds both its old and its new box.
UpdaterShape ==
    \A u \in Updaters : upc[u] # "idle" => oldPtr[u] \in Objs /\ newPtr[u] \in Objs

TypeInv == TypeOK /\ UpdaterShape

LEMMA TypeInit == Init => TypeInv
  <1> SUFFICES ASSUME Init PROVE TypeInv
    OBVIOUS
  <1>1. dropped \in BOOLEAN
    BY DEF Init
  <1>2. QED
    BY <1>1, SRcuAssumption
    DEF Init, TypeInv, TypeOK, UpdaterShape, ReaderPcs, UpdaterPcs

LEMMA TypeStep == TypeInv /\ [Next]_vars => TypeInv'
  <1> SUFFICES ASSUME TypeOK, UpdaterShape, [Next]_vars PROVE TypeInv'
    BY DEF TypeInv
  <1> USE DEF TypeInv, TypeOK, UpdaterShape, ReaderPcs, UpdaterPcs, readerVars,
              updaterVars
  <1>1. ASSUME NEW t \in Readers, ReaderStep(t) PROVE TypeInv'
    <2>1. CASE ReadLock(t)
      BY <2>1 DEF ReadLock
    <2>2. CASE ReadDeref(t)
      BY <2>2 DEF ReadDeref
    <2>3. CASE ReadDirectly(t)
      BY <2>3 DEF ReadDirectly
    <2>4. CASE ApplyF(t)
      BY <2>4 DEF ApplyF
    <2>5. CASE ApplyFDirect(t)
      BY <2>5 DEF ApplyFDirect
    <2>6. CASE ReadUnlock(t)
      BY <2>6 DEF ReadUnlock
    <2>7. QED
      BY <1>1, <2>1, <2>2, <2>3, <2>4, <2>5, <2>6 DEF ReaderStep
  <1>2. ASSUME NEW u \in Updaters, UpdaterStep(u) PROVE TypeInv'
    <2>1. CASE BeginUpdate(u)
      <3>1. PICK o \in Objs \ allocated, m \in UpdateOps :
                 /\ newPtr' = [newPtr EXCEPT ![u] = o]
                 /\ allocated' = allocated \cup {o}
                 /\ uop' = [uop EXCEPT ![u] = m]
        BY <2>1 DEF BeginUpdate
      <3>2. QED
        BY <2>1, <3>1 DEF BeginUpdate
    <2>2. CASE Assign(u)
      BY <2>2 DEF Assign
    <2>3. CASE SyncStart(u)
      BY <2>3 DEF SyncStart
    <2>4. CASE SyncDone(u)
      BY <2>4 DEF SyncDone
    <2>5. CASE Reclaim(u)
      BY <2>5 DEF Reclaim
    <2>6. QED
      BY <1>2, <2>1, <2>2, <2>3, <2>4, <2>5 DEF UpdaterStep
  <1>3. CASE Drop
    BY <1>3 DEF Drop
  <1>4. CASE UNCHANGED vars
    BY <1>4 DEF vars
  <1>5. QED
    BY <1>1, <1>2, <1>3, <1>4 DEF Next

\* Every reachable state of SRcuData is well typed: data_ptr is a box, and
\* every reader and updater holds a box or nothing.
THEOREM SRcuTypeCorrect == Spec => []TypeOK
  <1>1. Spec => []TypeInv
    BY TypeInit, TypeStep, PTL DEF Spec
  <1>2. QED
    BY <1>1, PTL DEF TypeInv

-----------------------------------------------------------------------------
(* Refinement of the RCU cell                                              *)

\* How the proxy uses SRcuData and the spec asks every user to: readers go
\* through read, updates through update, and one update runs at a time
\* (the proxy holds its loader mutex around update_directly).
Serialised ==
    /\ ReadOps = {"read"}
    /\ UpdateOps = {"update"}
    /\ \A u, v \in Updaters : u = v

\* The installed box is live, and only allocated boxes are ever dropped.
DataLive ==
    /\ dataPtr \in allocated \ reclaimed
    /\ reclaimed \subseteq allocated

\* A reader past srcu_read_lock is in its critical section; once it has
\* dereferenced, it holds a live box: the installed one, or the old box of
\* an update that has not finished its grace period and, once that grace
\* period has begun, waits for this reader.
ReadersCovered ==
    \A t \in Readers :
       /\ rpc[t] # "idle" => rop[t] = "read" /\ t \in locked
       /\ rpc[t] \in {"idle", "deref"} => held[t] = None
       /\ rpc[t] \in {"f", "unlock"} =>
             /\ held[t] \in allocated \ reclaimed
             /\ \/ held[t] = dataPtr
                \/ \E u \in Updaters :
                      /\ upc[u] \in {"sync", "wait"}
                      /\ held[t] = oldPtr[u]
                      /\ upc[u] = "wait" => t \in waitFor[u]

\* Before the swap an update's old box is the installed one and its new box
\* is fresh; after the swap its old box is live and no longer installed.
UpdaterBoxes ==
    \A u \in Updaters :
       /\ upc[u] # "idle" => uop[u] = "update"
       /\ upc[u] = "assign" =>
             /\ oldPtr[u] = dataPtr
             /\ newPtr[u] \in allocated \ reclaimed
             /\ newPtr[u] # dataPtr
             /\ \A t \in Readers : held[t] # newPtr[u]
       /\ upc[u] \in {"sync", "wait", "reclaim"} =>
             /\ oldPtr[u] \in allocated \ reclaimed
             /\ oldPtr[u] # dataPtr

RefInv == TypeInv /\ DataLive /\ ReadersCovered /\ UpdaterBoxes

LEMMA RefInvInit ==
    ASSUME Serialised PROVE Init => RefInv
  <1> SUFFICES ASSUME Init PROVE RefInv
    OBVIOUS
  <1>1. TypeInv
    BY TypeInit
  <1>2. DataLive /\ ReadersCovered /\ UpdaterBoxes
    BY SRcuAssumption DEF Init, DataLive, ReadersCovered, UpdaterBoxes
  <1>3. QED
    BY <1>1, <1>2 DEF RefInv

\* Under Serialised every updater is the same one.
LEMMA OneUpdater ==
    ASSUME Serialised, NEW u \in Updaters, NEW v \in Updaters PROVE u = v
  BY DEF Serialised

LEMMA RefInvStep ==
    ASSUME Serialised PROVE RefInv /\ [Next]_vars => RefInv'
  <1> SUFFICES ASSUME RefInv, [Next]_vars PROVE RefInv'
    OBVIOUS
  <1>0. TypeInv'
    BY TypeStep DEF RefInv
  <1> USE DEF RefInv, TypeInv, TypeOK, UpdaterShape, ReaderPcs, UpdaterPcs,
              readerVars, updaterVars
  <1>1. ASSUME NEW t \in Readers, ReaderStep(t)
        PROVE  (DataLive /\ ReadersCovered /\ UpdaterBoxes)'
    <2>1. CASE ReadLock(t)
      BY <2>1, <1>0 DEF ReadLock, DataLive, ReadersCovered, UpdaterBoxes
    <2>2. CASE ReadDeref(t)
      BY <2>2, <1>0 DEF ReadDeref, DataLive, ReadersCovered, UpdaterBoxes
    <2>3. CASE ReadDirectly(t)
      BY <2>3 DEF ReadDirectly, Serialised
    <2>4. CASE ApplyF(t)
      BY <2>4, <1>0 DEF ApplyF, DataLive, ReadersCovered, UpdaterBoxes
    <2>5. CASE ApplyFDirect(t)
      BY <2>5 DEF ApplyFDirect, ReadersCovered
    <2>6. CASE ReadUnlock(t)
      <3>1. DataLive'
        BY <2>6 DEF ReadUnlock, DataLive
      <3>2. UpdaterBoxes'
        BY <2>6, SRcuAssumption DEF ReadUnlock, UpdaterBoxes
      <3>3. ASSUME NEW r \in Readers PROVE ReadersCovered!(r)'
        <4>1. CASE r = t
          BY <2>6, <4>1 DEF ReadUnlock
        <4>2. CASE r # t
          BY <2>6, <4>2 DEF ReadUnlock, ReadersCovered
        <4>3. QED
          BY <4>1, <4>2
      <3>4. QED
        BY <3>1, <3>2, <3>3 DEF ReadersCovered
    <2>7. QED
      BY <1>1, <2>1, <2>2, <2>3, <2>4, <2>5, <2>6 DEF ReaderStep
  <1>2. ASSUME NEW u \in Updaters, UpdaterStep(u)
        PROVE  (DataLive /\ ReadersCovered /\ UpdaterBoxes)'
    <2>1. CASE BeginUpdate(u)
      <3>1. PICK o \in Objs \ allocated, m \in UpdateOps :
                 /\ newPtr' = [newPtr EXCEPT ![u] = o]
                 /\ allocated' = allocated \cup {o}
                 /\ uop' = [uop EXCEPT ![u] = m]
        BY <2>1 DEF BeginUpdate
      <3>2. m = "update"
        BY DEF Serialised
      <3>3. \A v \in Updaters : upc[v] = "idle"
        BY <2>1, OneUpdater DEF BeginUpdate
      <3>4. QED
        BY <2>1, <3>1, <3>2, <3>3, <1>0, SRcuAssumption
        DEF BeginUpdate, DataLive, ReadersCovered, UpdaterBoxes
    <2>2. CASE Assign(u)
      <3>1. \A v \in Updaters : v = u
        BY OneUpdater
      <3>2. uop[u] = "update"
        BY <2>2 DEF Assign, UpdaterBoxes
      <3>3. upc' = [upc EXCEPT ![u] = "sync"]
        BY <2>2, <3>2 DEF Assign
      <3>4. QED
        BY <2>2, <3>1, <3>3, <1>0 DEF Assign, DataLive, ReadersCovered, UpdaterBoxes
    <2>3. CASE SyncStart(u)
      BY <2>3, <1>0 DEF SyncStart, DataLive, ReadersCovered, UpdaterBoxes
    <2>4. CASE SyncDone(u)
      <3>1. \A v \in Updaters : v = u
        BY OneUpdater
      <3>2. QED
        BY <2>4, <3>1, <1>0 DEF SyncDone, DataLive, ReadersCovered, UpdaterBoxes
    <2>5. CASE Reclaim(u)
      <3>1. \A v \in Updaters : v = u
        BY OneUpdater
      <3>2. QED
        BY <2>5, <3>1, <1>0 DEF Reclaim, DataLive, ReadersCovered, UpdaterBoxes
    <2>6. QED
      BY <1>2, <2>1, <2>2, <2>3, <2>4, <2>5 DEF UpdaterStep
  <1>3. CASE Drop
    BY <1>3, <1>0 DEF Drop, DataLive, ReadersCovered, UpdaterBoxes
  <1>4. CASE UNCHANGED vars
    BY <1>4, <1>0 DEF vars, DataLive, ReadersCovered, UpdaterBoxes
  <1>5. QED
    BY <1>0, <1>1, <1>2, <1>3, <1>4 DEF Next

\* The abstract view of the cell changes only where the code says so.
LEMMA RefStep ==
    ASSUME Serialised
    PROVE  RefInv /\ [Next]_vars => [Cell!CellNext]_Cell!cellVars
  <1> SUFFICES ASSUME RefInv, [Next]_vars
               PROVE  [Cell!CellNext]_Cell!cellVars
    OBVIOUS
  <1> USE DEF RefInv, TypeInv, TypeOK, UpdaterShape, ReaderPcs, UpdaterPcs,
              readerVars, updaterVars
  <1> DEFINE Stutter == UNCHANGED <<dataPtr, CellView, CellRetired, reclaimed>>
  <1>0. Stutter => [Cell!CellNext]_Cell!cellVars
    BY DEF Cell!cellVars
  <1>1. ASSUME NEW t \in Readers, ReaderStep(t)
        PROVE  [Cell!CellNext]_Cell!cellVars
    <2>1. CASE ReadLock(t)
      <3>1. Stutter
        BY <2>1 DEF ReadLock, CellView, CellRetired
      <3>2. QED
        BY <3>1, <1>0
    <2>2. CASE ReadDeref(t)
      <3>1. Cell!Acquire(t)
        BY <2>2 DEF ReadDeref, CellView, CellRetired, ReadersCovered,
                    Cell!Acquire
      <3>2. QED
        BY <3>1 DEF Cell!CellNext
    <2>3. CASE ReadDirectly(t)
      BY <2>3 DEF ReadDirectly, Serialised
    <2>4. CASE ApplyF(t)
      <3>1. Stutter
        BY <2>4 DEF ApplyF, CellView, CellRetired
      <3>2. QED
        BY <3>1, <1>0
    <2>5. CASE ApplyFDirect(t)
      BY <2>5 DEF ApplyFDirect, ReadersCovered
    <2>6. CASE ReadUnlock(t)
      <3>1. held[t] # None
        BY <2>6, SRcuAssumption DEF ReadUnlock, ReadersCovered
      <3>2. Cell!Release(t)
        BY <2>6, <3>1 DEF ReadUnlock, CellView, CellRetired, Cell!Release
      <3>3. QED
        BY <3>2 DEF Cell!CellNext
    <2>7. QED
      BY <1>1, <2>1, <2>2, <2>3, <2>4, <2>5, <2>6 DEF ReaderStep
  <1>2. ASSUME NEW u \in Updaters, UpdaterStep(u)
        PROVE  [Cell!CellNext]_Cell!cellVars
    <2>0. \A v \in Updaters : v = u
      BY OneUpdater
    <2>1. CASE BeginUpdate(u)
      <3>1. Stutter
        BY <2>1, <2>0 DEF BeginUpdate, CellView, CellRetired
      <3>2. QED
        BY <3>1, <1>0
    <2>2. CASE Assign(u)
      <3>1. uop[u] = "update"
        BY <2>2 DEF Assign, UpdaterBoxes
      <3>2. upc' = [upc EXCEPT ![u] = "sync"]
        BY <2>2, <3>1 DEF Assign
      <3>3. CellRetired = {} /\ CellRetired' = {dataPtr}
        BY <2>2, <2>0, <3>2 DEF Assign, CellRetired, UpdaterBoxes
      <3>4. Cell!Publish(newPtr[u])
        BY <2>2, <3>3 DEF Assign, CellView, UpdaterBoxes, Cell!Publish
      <3>5. newPtr[u] \in Objs
        BY <2>2 DEF Assign
      <3>6. QED
        BY <3>4, <3>5 DEF Cell!CellNext
    <2>3. CASE SyncStart(u)
      <3>1. Stutter
        BY <2>3 DEF SyncStart, CellView, CellRetired
      <3>2. QED
        BY <3>1, <1>0
    <2>4. CASE SyncDone(u)
      <3>1. Stutter
        BY <2>4 DEF SyncDone, CellView, CellRetired
      <3>2. QED
        BY <3>1, <1>0
    <2>5. CASE Reclaim(u)
      <3>1. CellRetired = {oldPtr[u]} /\ CellRetired' = {}
        BY <2>5, <2>0 DEF Reclaim, CellRetired
      <3>2. \A t \in Readers : CellView[t] # oldPtr[u]
        BY <2>5, <2>0, SRcuAssumption
        DEF Reclaim, CellView, ReadersCovered, UpdaterBoxes
      <3>3. Cell!Reclaim(oldPtr[u])
        BY <2>5, <3>1, <3>2 DEF Reclaim, CellView, Cell!Reclaim
      <3>4. oldPtr[u] \in Objs
        BY <2>5 DEF Reclaim
      <3>5. QED
        BY <3>3, <3>4 DEF Cell!CellNext
    <2>6. QED
      BY <1>2, <2>1, <2>2, <2>3, <2>4, <2>5 DEF UpdaterStep
  <1>3. CASE Drop
    <2>1. Stutter
      BY <1>3 DEF Drop, CellView, CellRetired
    <2>2. QED
      BY <2>1, <1>0
  <1>4. CASE UNCHANGED vars
    <2>1. Stutter
      BY <1>4 DEF vars, CellView, CellRetired
    <2>2. QED
      BY <2>1, <1>0
  <1>5. QED
    BY <1>1, <1>2, <1>3, <1>4 DEF Next

LEMMA RefInit == Init => Cell!CellInit
  BY DEF Init, Cell!CellInit, CellView, CellRetired

\* SRcuData used through read and update, by updates that do not overlap,
\* implements the RCU cell: its readers never use a reclaimed box.  This is
\* the safety part of CellRefined, for any readers, updater and objects.
THEOREM CellRefinement ==
    ASSUME Serialised PROVE Spec => CellRefined
  <1>1. Spec => []RefInv
    BY RefInvInit, RefInvStep, PTL DEF Spec
  <1>2. QED
    BY <1>1, RefInit, RefStep, PTL DEF Spec, CellRefined, Cell!CellSpec

-----------------------------------------------------------------------------
(* Ownership of the boxes                                                  *)

\* An update holds its boxes: before the swap its old box is the installed
\* one and its new box is live and distinct; after the swap its old box is
\* live and no longer installed.  Unlike UpdaterBoxes this says nothing of
\* the method or of readers, so it holds for update and update_directly.
UpdaterOwn ==
    \A u \in Updaters :
       /\ upc[u] = "assign" =>
             /\ oldPtr[u] = dataPtr
             /\ newPtr[u] \in allocated \ reclaimed
             /\ newPtr[u] # dataPtr
       /\ upc[u] \in {"sync", "wait", "reclaim"} =>
             /\ oldPtr[u] \in allocated \ reclaimed
             /\ oldPtr[u] # dataPtr

\* Every allocated box is held somewhere: installed, dropped, or held by an
\* update as its new or its old box.
BoxesHeld ==
    \A o \in allocated :
       \/ o = dataPtr
       \/ o \in reclaimed
       \/ \E u \in Updaters :
             \/ upc[u] = "assign" /\ newPtr[u] = o
             \/ upc[u] \in {"sync", "wait", "reclaim"} /\ oldPtr[u] = o

OwnInv == TypeInv /\ ~dropped /\ DataLive /\ UpdaterOwn /\ BoxesHeld

\* The setting of the ownership theorem: one updater, and a cell that is
\* never dropped; readers and both update methods are unrestricted.
OwnSetting == (\A u, v \in Updaters : u = v) /\ ~MayDrop

\* A set of which any two members are equal has at most one member.
LEMMA CardAtMostOne ==
    ASSUME NEW S, \A x, y \in S : x = y
    PROVE  Cardinality(S) = IF S = {} THEN 0 ELSE 1
  <1>1. CASE S = {}
    BY <1>1, FS_EmptySet
  <1>2. CASE S # {}
    <2>1. PICK x \in S : TRUE
      BY <1>2
    <2>2. S = {x}
      BY <2>1
    <2>3. QED
      BY <1>2, <2>2, FS_Singleton
  <1>3. QED
    BY <1>1, <1>2

LEMMA OwnInvInit ==
    ASSUME OwnSetting PROVE Init => OwnInv
  <1> SUFFICES ASSUME Init PROVE OwnInv
    OBVIOUS
  <1>1. TypeInv
    BY TypeInit
  <1>2. ~dropped /\ DataLive /\ UpdaterOwn /\ BoxesHeld
    BY SRcuAssumption DEF Init, DataLive, UpdaterOwn, BoxesHeld
  <1>3. QED
    BY <1>1, <1>2 DEF OwnInv

\* What OwnInv gives: each allocated box has exactly one owner.
LEMMA OwnInvOwnership ==
    ASSUME OwnSetting, OwnInv PROVE OwnershipConserved
  <1> SUFFICES ASSUME NEW o \in allocated PROVE Owners(o) = 1
    BY DEF OwnershipConserved
  <1> DEFINE A == {u \in Updaters : upc[u] = "assign" /\ newPtr[u] = o}
             B == {u \in Updaters : upc[u] \in {"sync", "wait", "reclaim"}
                                    /\ oldPtr[u] = o}
  <1>1. Cardinality(A) = IF A = {} THEN 0 ELSE 1
    BY CardAtMostOne DEF OwnSetting
  <1>2. Cardinality(B) = IF B = {} THEN 0 ELSE 1
    BY CardAtMostOne DEF OwnSetting
  <1>3. o = dataPtr \/ o \in reclaimed \/ A # {} \/ B # {}
    BY DEF OwnInv, BoxesHeld
  <1>4. o = dataPtr => o \notin reclaimed /\ A = {} /\ B = {}
    BY DEF OwnInv, DataLive, UpdaterOwn
  <1>5. A # {} => o \notin reclaimed /\ B = {}
    BY DEF OwnInv, UpdaterOwn, OwnSetting
  <1>6. B # {} => o \notin reclaimed
    BY DEF OwnInv, UpdaterOwn
  <1>7. ~dropped
    BY DEF OwnInv
  <1>8. QED
    BY <1>1, <1>2, <1>3, <1>4, <1>5, <1>6, <1>7 DEF Owners


\* A reader step touches none of the state ownership is about.
LEMMA ReaderKeepsBoxes ==
    ASSUME NEW t \in Readers, ReaderStep(t)
    PROVE  UNCHANGED <<dataPtr, allocated, reclaimed, dropped, upc, oldPtr,
                       newPtr>>
  BY DEF ReaderStep, ReadLock, ReadDeref, ReadDirectly, ApplyF, ApplyFDirect,
         ReadUnlock, updaterVars

LEMMA OwnInvStep ==
    ASSUME OwnSetting PROVE OwnInv /\ [Next]_vars => OwnInv'
  <1> SUFFICES ASSUME OwnInv, [Next]_vars PROVE OwnInv'
    OBVIOUS
  <1>0. TypeInv'
    BY TypeStep DEF OwnInv
  <1> USE DEF OwnInv, TypeInv, TypeOK, UpdaterShape, UpdaterPcs
  <1>1. ASSUME NEW t \in Readers, ReaderStep(t) PROVE OwnInv'
    BY <1>0, <1>1, ReaderKeepsBoxes DEF DataLive, UpdaterOwn, BoxesHeld
  <1>2. ASSUME NEW u \in Updaters, UpdaterStep(u) PROVE OwnInv'
    <2>0. \A v \in Updaters : v = u
      BY DEF OwnSetting
    <2>1. CASE BeginUpdate(u)
      <3>1. PICK o \in Objs \ allocated, m \in UpdateOps :
                 /\ newPtr' = [newPtr EXCEPT ![u] = o]
                 /\ allocated' = allocated \cup {o}
                 /\ uop' = [uop EXCEPT ![u] = m]
        BY <2>1 DEF BeginUpdate
      <3>2. \A v \in Updaters : upc[v] = "idle"
        BY <2>0, <2>1 DEF BeginUpdate
      <3>3. \A x \in allocated : x = dataPtr \/ x \in reclaimed
        BY <3>2 DEF BoxesHeld
      <3>4. QED
        BY <1>0, <2>0, <2>1, <3>1, <3>3
        DEF BeginUpdate, DataLive, UpdaterOwn, BoxesHeld
    <2>2. CASE Assign(u)
      <3>1. upc'[u] \in {"sync", "reclaim"}
        BY <2>2 DEF Assign
      <3>2. QED
        BY <1>0, <2>0, <2>2, <3>1 DEF Assign, DataLive, UpdaterOwn, BoxesHeld
    <2>3. CASE SyncStart(u)
      BY <1>0, <2>0, <2>3 DEF SyncStart, DataLive, UpdaterOwn, BoxesHeld
    <2>4. CASE SyncDone(u)
      BY <1>0, <2>0, <2>4 DEF SyncDone, DataLive, UpdaterOwn, BoxesHeld
    <2>5. CASE Reclaim(u)
      BY <1>0, <2>0, <2>5 DEF Reclaim, DataLive, UpdaterOwn, BoxesHeld
    <2>6. QED
      BY <1>2, <2>1, <2>2, <2>3, <2>4, <2>5 DEF UpdaterStep
  <1>3. CASE Drop
    BY <1>3 DEF Drop, OwnSetting
  <1>4. CASE UNCHANGED vars
    BY <1>0, <1>4 DEF vars, readerVars, updaterVars, DataLive, UpdaterOwn,
                      BoxesHeld
  <1>5. QED
    BY <1>1, <1>2, <1>3, <1>4 DEF Next

\* With one updater and a cell that is not dropped, every box that update
\* and update_directly allocate or give back has exactly one owner at all
\* times (so it is freed exactly once), for any readers and either read
\* method.  MC_SRcuOps checks the same property on a small instance, and
\* MC_SRcuUpdaters and MC_SRcuDrop show that neither condition can go.
THEOREM OwnershipTheorem ==
    ASSUME OwnSetting PROVE Spec => []OwnershipConserved
  <1>1. Spec => []OwnInv
    BY OwnInvInit, OwnInvStep, PTL DEF Spec
  <1>2. OwnInv => OwnershipConserved
    BY OwnInvOwnership
  <1>3. QED
    BY <1>1, <1>2, PTL

=============================================================================
