------------------------------ MODULE RcuCell ------------------------------
(***************************************************************************)
(* What an RCU pointer cell promises (spec.md 4.4, "RPC"): a single       *)
(* pointer that readers dereference and updaters replace, where an object *)
(* is reclaimed only after it has been replaced and no reader still holds *)
(* it.  Each step is atomic here; SRcu.tla is the detailed model of       *)
(* SRcuData (src/kernel/src/sync/srcu.rs), shown to implement this one.   *)
(***************************************************************************)
CONSTANTS
    Readers,    \* threads reading the cell
    Objs,       \* heap objects (Box allocations) the cell may point to
    InitObj,    \* the object the cell is created with
    None        \* a reader that holds no object

VARIABLES
    cur,        \* the installed object
    view,       \* reader -> the object it is using, or None
    retired,    \* objects replaced but not yet reclaimed
    freed       \* objects reclaimed

cellVars == <<cur, view, retired, freed>>

CellTypeOK ==
    /\ cur \in Objs
    /\ view \in [Readers -> Objs \cup {None}]
    /\ retired \subseteq Objs
    /\ freed \subseteq Objs

CellInit ==
    /\ cur = InitObj
    /\ view = [t \in Readers |-> None]
    /\ retired = {}
    /\ freed = {}

\* A reader starts using the installed object.
Acquire(t) ==
    /\ view[t] = None
    /\ view' = [view EXCEPT ![t] = cur]
    /\ UNCHANGED <<cur, retired, freed>>

\* A reader stops using its object.
Release(t) ==
    /\ view[t] # None
    /\ view' = [view EXCEPT ![t] = None]
    /\ UNCHANGED <<cur, retired, freed>>

\* A fresh object is installed; the one it replaces is retired.
Publish(o) ==
    /\ o \notin {cur} \cup retired \cup freed
    /\ cur' = o
    /\ retired' = retired \cup {cur}
    /\ UNCHANGED <<view, freed>>

\* A retired object that no reader uses is reclaimed.
Reclaim(o) ==
    /\ o \in retired
    /\ \A t \in Readers : view[t] # o
    /\ retired' = retired \ {o}
    /\ freed' = freed \cup {o}
    /\ UNCHANGED <<cur, view>>

CellNext ==
    \/ \E t \in Readers : Acquire(t) \/ Release(t)
    \/ \E o \in Objs : Publish(o) \/ Reclaim(o)

CellSpec == CellInit /\ [][CellNext]_cellVars

\* The promise to readers: an object a reader is using is never reclaimed.
ReadersSafe == \A t \in Readers : view[t] \notin freed

=============================================================================
