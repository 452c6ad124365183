-------------------------------- MODULE SRcu --------------------------------
(***************************************************************************)
(* SRcuData<T> (src/kernel/src/sync/srcu.rs): a heap pointer (crcu_data.  *)
(* data_ptr) with a sleepable-RCU structure (ssp).  Readers call read     *)
(* (srcu_read_lock, dereference, f, srcu_read_unlock) or read_directly    *)
(* (dereference, f); updaters call update (swap, synchronize_srcu, give   *)
(* back the old Box) or update_directly (swap, give back the old Box at   *)
(* once).  The caller drops the Box it gets back, which frees the object. *)
(*                                                                         *)
(* The SRCU host primitives are modelled by their contract (spec.md 6):   *)
(* synchronize_srcu returns once every read-side critical section that    *)
(* had begun when it was called has ended.                                *)
(***************************************************************************)
EXTENDS Naturals, FiniteSets

CONSTANTS
    Readers,    \* threads calling read / read_directly
    Updaters,   \* threads calling update / update_directly
    Objs,       \* heap objects: the boxes the cell may point to
    InitObj,    \* the object SRcuData::new is given
    None,       \* no object
    ReadOps,    \* the read methods callers use: "read", "read_directly"
    UpdateOps,  \* the update methods callers use: "update", "update_directly"
    MayDrop     \* whether the owner drops the SRcuData in the behaviour

ASSUME SRcuAssumption ==
    /\ InitObj \in Objs
    /\ None \notin Objs
    /\ ReadOps \subseteq {"read", "read_directly"}
    /\ UpdateOps \subseteq {"update", "update_directly"}
    /\ Readers \cap Updaters = {}
    /\ MayDrop \in BOOLEAN

VARIABLES
    dataPtr,    \* crcu_data.data_ptr
    allocated,  \* objects Box::into_raw has produced
    reclaimed,  \* objects whose Box has been dropped
    locked,     \* readers inside srcu_read_lock .. srcu_read_unlock
    rpc,        \* reader -> program point
    rop,        \* reader -> the method it is in
    held,       \* reader -> the pointer srcu_dereference gave it
    upc,        \* updater -> program point
    uop,        \* updater -> the method it is in
    oldPtr,     \* updater -> old_ptr
    newPtr,     \* updater -> new_ptr
    waitFor,    \* updater -> readers synchronize_srcu still waits for
    dropped     \* Drop for SRcuData has run

readerVars == <<rpc, rop, held>>
updaterVars == <<upc, uop, oldPtr, newPtr, waitFor>>
vars == <<dataPtr, allocated, reclaimed, locked, readerVars, updaterVars,
          dropped>>

ReaderPcs == {"idle", "deref", "f", "unlock"}
UpdaterPcs == {"idle", "assign", "sync", "wait", "reclaim"}

TypeOK ==
    /\ dataPtr \in Objs
    /\ allocated \subseteq Objs
    /\ reclaimed \subseteq Objs
    /\ locked \subseteq Readers
    /\ rpc \in [Readers -> ReaderPcs]
    /\ rop \in [Readers -> ReadOps \cup {"none"}]
    /\ held \in [Readers -> Objs \cup {None}]
    /\ upc \in [Updaters -> UpdaterPcs]
    /\ uop \in [Updaters -> UpdateOps \cup {"none"}]
    /\ oldPtr \in [Updaters -> Objs \cup {None}]
    /\ newPtr \in [Updaters -> Objs \cup {None}]
    /\ waitFor \in [Updaters -> SUBSET Readers]
    /\ dropped \in BOOLEAN

\* SRcuData::new: Box::into_raw(Box::new(data)), init_srcu_struct.
Init ==
    /\ dataPtr = InitObj
    /\ allocated = {InitObj}
    /\ reclaimed = {}
    /\ locked = {}
    /\ rpc = [t \in Readers |-> "idle"]
    /\ rop = [t \in Readers |-> "none"]
    /\ held = [t \in Readers |-> None]
    /\ upc = [u \in Updaters |-> "idle"]
    /\ uop = [u \in Updaters |-> "none"]
    /\ oldPtr = [u \in Updaters |-> None]
    /\ newPtr = [u \in Updaters |-> None]
    /\ waitFor = [u \in Updaters |-> {}]
    /\ dropped = FALSE

-----------------------------------------------------------------------------
(* Readers                                                                 *)

\* read: idx = __srcu_read_lock(ssp).
ReadLock(t) ==
    /\ rpc[t] = "idle"
    /\ ~dropped
    /\ "read" \in ReadOps
    /\ rop' = [rop EXCEPT ![t] = "read"]
    /\ locked' = locked \cup {t}
    /\ rpc' = [rpc EXCEPT ![t] = "deref"]
    /\ UNCHANGED <<dropped, dataPtr, allocated, reclaimed, held, updaterVars>>

\* read: let ptr = srcu_defererence(&crcu_data, ssp), inside the lock.
ReadDeref(t) ==
    /\ rpc[t] = "deref"
    /\ held' = [held EXCEPT ![t] = dataPtr]
    /\ rpc' = [rpc EXCEPT ![t] = "f"]
    /\ UNCHANGED <<dropped, dataPtr, allocated, reclaimed, locked, rop,
                   updaterVars>>

\* read_directly: srcu_defererence without entering a critical section.
ReadDirectly(t) ==
    /\ rpc[t] = "idle"
    /\ ~dropped
    /\ "read_directly" \in ReadOps
    /\ rop' = [rop EXCEPT ![t] = "read_directly"]
    /\ held' = [held EXCEPT ![t] = dataPtr]
    /\ rpc' = [rpc EXCEPT ![t] = "f"]
    /\ UNCHANGED <<dropped, dataPtr, allocated, reclaimed, locked,
                   updaterVars>>

\* read: let r = f(v); the closure is done with the object, and read
\* goes on to unlock.
ApplyF(t) ==
    /\ rpc[t] = "f"
    /\ rop[t] = "read"
    /\ rpc' = [rpc EXCEPT ![t] = "unlock"]
    /\ UNCHANGED <<dropped, dataPtr, allocated, reclaimed, locked, rop, held,
                   updaterVars>>

\* read_directly: f(v) returns, and so does read_directly.
ApplyFDirect(t) ==
    /\ rpc[t] = "f"
    /\ rop[t] = "read_directly"
    /\ rpc' = [rpc EXCEPT ![t] = "idle"]
    /\ held' = [held EXCEPT ![t] = None]
    /\ UNCHANGED <<dropped, dataPtr, allocated, reclaimed, locked, rop,
                   updaterVars>>

\* A variant with a plausible bug: __srcu_read_unlock given the wrong idx,
\* so the grace period in progress never sees this reader leave.
ReadUnlockKeepsWaiter(t) ==
    /\ rpc[t] = "unlock"
    /\ locked' = locked \ {t}
    /\ rpc' = [rpc EXCEPT ![t] = "idle"]
    /\ held' = [held EXCEPT ![t] = None]
    /\ UNCHANGED <<dropped, dataPtr, allocated, reclaimed, rop, updaterVars>>

\* __srcu_read_unlock(ssp, idx): the critical section ends, and no
\* synchronize_srcu waits for this reader any more.
ReadUnlock(t) ==
    /\ rpc[t] = "unlock"
    /\ locked' = locked \ {t}
    /\ waitFor' = [u \in Updaters |-> waitFor[u] \ {t}]
    /\ rpc' = [rpc EXCEPT ![t] = "idle"]
    /\ held' = [held EXCEPT ![t] = None]
    /\ UNCHANGED <<dropped, dataPtr, allocated, reclaimed, rop, upc, uop,
                   oldPtr, newPtr>>

-----------------------------------------------------------------------------
(* Updaters                                                                *)

\* update / update_directly: let old_ptr = self.crcu_data.data_ptr;
\* let new_ptr = Box::into_raw(Box::new(data)) allocates a fresh box.
BeginUpdate(u) ==
    /\ upc[u] = "idle"
    /\ ~dropped
    /\ \E o \in Objs \ allocated, m \in UpdateOps :
          /\ newPtr' = [newPtr EXCEPT ![u] = o]
          /\ allocated' = allocated \cup {o}
          /\ uop' = [uop EXCEPT ![u] = m]
    /\ oldPtr' = [oldPtr EXCEPT ![u] = dataPtr]
    /\ upc' = [upc EXCEPT ![u] = "assign"]
    /\ UNCHANGED <<dropped, dataPtr, reclaimed, locked, readerVars, waitFor>>

\* srcu_assign_pointer(&crcu_data, new_ptr); update goes on to
\* synchronize_srcu, update_directly straight to Box::from_raw(old_ptr).
Assign(u) ==
    /\ upc[u] = "assign"
    /\ dataPtr' = newPtr[u]
    /\ upc' = [upc EXCEPT ![u] =
                 IF uop[u] = "update" THEN "sync" ELSE "reclaim"]
    /\ UNCHANGED <<dropped, allocated, reclaimed, locked, readerVars, uop,
                   oldPtr, newPtr, waitFor>>

\* A variant with a plausible bug: a synchronize that does not wait (the
\* update path written like update_directly).
SyncStartNoWait(u) ==
    /\ upc[u] = "sync"
    /\ waitFor' = [waitFor EXCEPT ![u] = {}]
    /\ upc' = [upc EXCEPT ![u] = "wait"]
    /\ UNCHANGED <<dropped, dataPtr, allocated, reclaimed, locked, readerVars,
                   uop, oldPtr, newPtr>>

\* synchronize_srcu(ssp) is called: it must wait for every reader now
\* inside a read-side critical section.
SyncStart(u) ==
    /\ upc[u] = "sync"
    /\ waitFor' = [waitFor EXCEPT ![u] = locked]
    /\ upc' = [upc EXCEPT ![u] = "wait"]
    /\ UNCHANGED <<dropped, dataPtr, allocated, reclaimed, locked, readerVars,
                   uop, oldPtr, newPtr>>

\* synchronize_srcu returns once those readers have all unlocked.
SyncDone(u) ==
    /\ upc[u] = "wait"
    /\ waitFor[u] = {}
    /\ upc' = [upc EXCEPT ![u] = "reclaim"]
    /\ UNCHANGED <<dropped, dataPtr, allocated, reclaimed, locked, readerVars,
                   uop, oldPtr, newPtr, waitFor>>

\* A variant with a plausible bug: Box::from_raw(new_ptr) given back
\* instead of the old pointer.
ReclaimNew(u) ==
    /\ upc[u] = "reclaim"
    /\ reclaimed' = reclaimed \cup {newPtr[u]}
    /\ oldPtr' = [oldPtr EXCEPT ![u] = None]
    /\ newPtr' = [newPtr EXCEPT ![u] = None]
    /\ upc' = [upc EXCEPT ![u] = "idle"]
    /\ UNCHANGED <<dropped, dataPtr, allocated, locked, readerVars, uop,
                   waitFor>>

\* Box::from_raw(old_ptr) is returned, and the caller drops it.
Reclaim(u) ==
    /\ upc[u] = "reclaim"
    /\ reclaimed' = reclaimed \cup {oldPtr[u]}
    /\ oldPtr' = [oldPtr EXCEPT ![u] = None]
    /\ newPtr' = [newPtr EXCEPT ![u] = None]
    /\ upc' = [upc EXCEPT ![u] = "idle"]
    /\ UNCHANGED <<dropped, dataPtr, allocated, locked, readerVars, uop,
                   waitFor>>

-----------------------------------------------------------------------------
(* End of life                                                             *)

\* impl Drop for SRcuData: drop takes &mut self, so no read or update is in
\* progress; it runs cleanup_srcu_struct and frees the ssp box.  It does
\* not touch crcu_data.data_ptr.
Drop ==
    /\ MayDrop
    /\ ~dropped
    /\ \A t \in Readers : rpc[t] = "idle"
    /\ \A u \in Updaters : upc[u] = "idle"
    /\ dropped' = TRUE
    /\ UNCHANGED <<dataPtr, allocated, reclaimed, locked, readerVars,
                   updaterVars>>

-----------------------------------------------------------------------------
ReaderStep(t) ==
    \/ ReadLock(t) \/ ReadDeref(t) \/ ReadDirectly(t) \/ ApplyF(t)
    \/ ApplyFDirect(t) \/ ReadUnlock(t)

UpdaterStep(u) ==
    \/ BeginUpdate(u) \/ Assign(u) \/ SyncStart(u) \/ SyncDone(u)
    \/ Reclaim(u)

Next ==
    \/ \E t \in Readers : ReaderStep(t)
    \/ \E u \in Updaters : UpdaterStep(u)
    \/ Drop

\* Readers run f to completion and unlock (the kernel schedules them, and
\* sleeping inside f ends); an updater that started keeps running.
\* Starting a read or an update is up to the caller: no fairness there.
Fairness ==
    /\ \A t \in Readers :
          WF_vars(rpc[t] # "idle" /\ ReaderStep(t))
    /\ \A u \in Updaters :
          WF_vars(upc[u] # "idle" /\ UpdaterStep(u))

Spec == Init /\ [][Next]_vars /\ Fairness

-----------------------------------------------------------------------------
(* Properties                                                              *)

\* The boxes that own object o: the live cell, an updater's new box not
\* yet assigned, an updater's old box not yet given back, and the dropped
\* boxes.
Owners(o) ==
    (IF dataPtr = o /\ ~dropped THEN 1 ELSE 0)
    + Cardinality({u \in Updaters : upc[u] = "assign" /\ newPtr[u] = o})
    + Cardinality({u \in Updaters : upc[u] \in {"sync", "wait", "reclaim"}
                                    /\ oldPtr[u] = o})
    + (IF o \in reclaimed THEN 1 ELSE 0)

\* Every box update and update_directly allocate or hand back has exactly
\* one owner at every instant: none is leaked (the new box of an update
\* that another update overwrote) and none is given back twice (the old
\* box two updates both read from data_ptr, nor the installed box when the
\* cell is dropped), so it is freed exactly once.
OwnershipConserved == \A o \in allocated : Owners(o) = 1

\* Every update and update_directly that starts returns: synchronize_srcu
\* terminates once the readers it waits for leave their critical sections.
UpdateReturns == \A u \in Updaters : (upc[u] # "idle") ~> (upc[u] = "idle")

\* The abstract cell seen through SRcuData: a reader uses the object it
\* dereferenced from the end of srcu_dereference until f returns (read:
\* until srcu_read_unlock); the retired objects are the old boxes that
\* updates have swapped out and not yet given back.
CellView == [t \in Readers |->
                IF rpc[t] \in {"f", "unlock"} THEN held[t] ELSE None]
CellRetired == {oldPtr[u] : u \in {v \in Updaters :
                                  upc[v] \in {"sync", "wait", "reclaim"}}}

Cell == INSTANCE RcuCell WITH
            cur <- dataPtr, view <- CellView, retired <- CellRetired,
            freed <- reclaimed

\* SRcuData used through read and update implements the RCU cell: no
\* reader's object is reclaimed while it uses it (spec.md 4.4, "after
\* return, no reader can observe the old value").
CellRefined == Cell!CellSpec

=============================================================================
