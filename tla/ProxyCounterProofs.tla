------------------------- MODULE ProxyCounterProofs -------------------------
(***************************************************************************)
(* Proofs about the LongLongPerCpu counter of EmptyDeviceDomainProxy for   *)
(* every number of threads and CPUs: the shards always add up to at least  *)
(* the number of fast-path calls between their increment and decrement     *)
(* (CounterCovers), and exactly to it when no domain panics                *)
(* (CounterExact).                                                         *)
(*                                                                         *)
(* CounterSum is a recursive function over 0..NCpus.  Its defining         *)
(* equation is a CHOOSE that the provers can only use once some function  *)
(* is known to satisfy it, and what it computes needs an induction over    *)
(* the CPUs.  Both are handled without an induction rule taking an        *)
(* operator parameter: the invariant carries a table of partial sums as a  *)
(* witness, each counter step builds the next table explicitly, and the    *)
(* uniqueness of the table follows from the least-element property of Nat  *)
(* (WFMin).                                                                *)
(***************************************************************************)
EXTENDS DomainProxyProofs, FiniteSetTheorems, TLAPS

-----------------------------------------------------------------------------
(* Tables of partial sums                                                  *)

\* p lists the partial sums of the shards cnt[1], ..., cnt[NCpus]: the
\* defining equation of the local function of CounterSum.
IsPartialSums(p, cnt) ==
    p = [k \in 0..NCpus |-> IF k = 0 THEN 0 ELSE p[k - 1] + cnt[k]]

\* The function the LET of CounterSum(cnt) defines.
SumsOf(cnt) ==
    CHOOSE f : f = [k \in 0..NCpus |-> IF k = 0 THEN 0 ELSE f[k - 1] + cnt[k]]

LEMMA CounterSumSumsOf ==
    ASSUME NEW cnt
    PROVE  CounterSum(cnt) = SumsOf(cnt)[NCpus]
  BY DEF CounterSum, SumsOf

\* Two tables of partial sums of the same shards agree: a least index at
\* which they differ cannot be 0, and agreeing at its predecessor they
\* agree at it.
LEMMA PartialSumsUnique ==
    ASSUME NEW cnt, NEW p, NEW q, IsPartialSums(p, cnt), IsPartialSums(q, cnt)
    PROVE  p = q
  <1> DEFINE T == {k \in 0..NCpus : p[k] # q[k]}
  <1>1. SUFFICES ASSUME T # {} PROVE FALSE
    BY DEF IsPartialSums
  <1>2. T \subseteq Nat
    BY BoundsNat
  <1>3. PICK x \in T : \A y \in T : ~(<<y, x>> \in OpToRel(<, Nat))
    BY <1>1, <1>2, WFMin, NatLessThanWellFounded
  <1>4. x # 0
    BY DEF IsPartialSums
  <1>5. x - 1 \in 0..NCpus /\ <<x - 1, x>> \in OpToRel(<, Nat)
    BY <1>4, BoundsNat DEF OpToRel
  <1>6. p[x - 1] = q[x - 1]
    BY <1>3, <1>5
  <1>7. p[x] = q[x]
    BY <1>4, <1>6 DEF IsPartialSums
  <1>8. QED
    BY <1>7

\* Once some table of partial sums exists, CounterSum returns its last entry.
LEMMA CounterSumIs ==
    ASSUME NEW cnt, NEW p, IsPartialSums(p, cnt)
    PROVE  CounterSum(cnt) = p[NCpus]
  <1>1. IsPartialSums(SumsOf(cnt), cnt)
    BY DEF IsPartialSums, SumsOf
  <1>2. SumsOf(cnt) = p
    BY <1>1, PartialSumsUnique
  <1>3. QED
    BY <1>2, CounterSumSumsOf

\* A function on 0..NCpus whose entries satisfy the recurrence is a table.
LEMMA PartialSumsIntro ==
    ASSUME NEW cnt, NEW p \in [0..NCpus -> Int],
           \A k \in 0..NCpus : p[k] = IF k = 0 THEN 0 ELSE p[k - 1] + cnt[k]
    PROVE  IsPartialSums(p, cnt)
  BY DEF IsPartialSums

\* Adding delta to shard c adds delta to every partial sum from c on.
LEMMA PartialSumsShift ==
    ASSUME NEW cnt \in [CPUs -> Int], NEW p \in [0..NCpus -> Int],
           IsPartialSums(p, cnt), NEW c \in CPUs, NEW delta \in Int
    PROVE  \E q \in [0..NCpus -> Int] :
              /\ IsPartialSums(q, [cnt EXCEPT ![c] = @ + delta])
              /\ q[NCpus] = p[NCpus] + delta
  <1> DEFINE q == [k \in 0..NCpus |-> IF k >= c THEN p[k] + delta ELSE p[k]]
  <1> DEFINE cnt2 == [cnt EXCEPT ![c] = @ + delta]
  <1>1. q \in [0..NCpus -> Int]
    OBVIOUS
  <1>2. ASSUME NEW k \in 1..NCpus PROVE p[k] = p[k - 1] + cnt[k]
    <2>1. k \in 0..NCpus /\ k # 0
      BY BoundsNat
    <2>2. p[k] = IF k = 0 THEN 0 ELSE p[k - 1] + cnt[k]
      BY <2>1, Zenon DEF IsPartialSums
    <2>3. QED
      BY <2>1, <2>2
  <1>3. ASSUME NEW k \in 1..NCpus PROVE q[k] = q[k - 1] + cnt2[k]
    <2>1. k - 1 \in 0..NCpus /\ k \in 0..NCpus /\ k \in CPUs
      BY BoundsNat DEF CPUs
    <2>2. p[k] = p[k - 1] + cnt[k]
      BY <1>2
    <2>3. cnt2[k] = IF k = c THEN cnt[k] + delta ELSE cnt[k]
      BY <2>1
    <2>4. QED
      BY <2>1, <2>2, <2>3 DEF CPUs
  <1>4. q[0] = 0
    <2>1. p[0] = 0
      <3>1. 0 \in 0..NCpus
        BY BoundsNat
      <3>2. QED
        BY <3>1, Zenon DEF IsPartialSums
    <2>2. QED
      BY <2>1, BoundsNat DEF CPUs
  <1>5. IsPartialSums(q, cnt2)
    <2>1. \A k \in 0..NCpus : q[k] = IF k = 0 THEN 0 ELSE q[k - 1] + cnt2[k]
      <3> TAKE k \in 0..NCpus
      <3>1. CASE k = 0
        BY <1>4, <3>1
      <3>2. CASE k # 0
        <4>1. k \in 1..NCpus
          BY <3>2, BoundsNat
        <4>2. QED
          BY <3>2, <4>1, <1>3
      <3>3. QED
        BY <3>1, <3>2
    <2>2. QED
      BY <2>1, <1>1, PartialSumsIntro
  <1>6. q[NCpus] = p[NCpus] + delta
    BY BoundsNat DEF CPUs
  <1>7. QED
    BY <1>1, <1>5, <1>6, Zenon

\* One counter update of get_with moves CounterSum by exactly its delta.
LEMMA ShardStep ==
    ASSUME NEW cnt \in [CPUs -> Int], NEW p \in [0..NCpus -> Int],
           IsPartialSums(p, cnt), NEW c \in CPUs, NEW delta \in Int,
           NEW cnt2, cnt2 = [cnt EXCEPT ![c] = @ + delta]
    PROVE  /\ \E q \in [0..NCpus -> Int] : IsPartialSums(q, cnt2)
           /\ CounterSum(cnt2) = CounterSum(cnt) + delta
  <1>1. IsPartialSums(p, cnt)
    OBVIOUS
  <1>2. PICK q \in [0..NCpus -> Int] :
              /\ IsPartialSums(q, [cnt EXCEPT ![c] = @ + delta])
              /\ q[NCpus] = p[NCpus] + delta
    BY <1>1, PartialSumsShift
  <1>3. CounterSum(cnt) = p[NCpus]
    BY <1>1, CounterSumIs
  <1>4. CounterSum(cnt2) = q[NCpus]
    BY <1>2, CounterSumIs
  <1>5. QED
    BY <1>2, <1>3, <1>4

-----------------------------------------------------------------------------
(* The counter invariant                                                   *)

\* A call waiting to increment took the fast path, one waiting for the
\* lock the locked path (Call sets both together).
PathShape ==
    \A t \in Threads :
       /\ pc[t] = "inc" => path[t] = "fast"
       /\ pc[t] = "lock" => path[t] = "locked"

\* The shards have a table of partial sums, so CounterSum is determined.
HasPartialSums == \E p \in [0..NCpus -> Int] : IsPartialSums(p, counter)

\* The inductive strengthening of CounterCovers and CounterExact.
CounterInv ==
    /\ PathShape
    /\ HasPartialSums
    /\ CounterCovers
    /\ ~MayPanic => CounterExact

LEMMA InFlightFinite == TypeOK => IsFiniteSet(FastInFlight)
  BY ThreadsFinite, FS_Subset DEF FastInFlight

LEMMA CounterInit == Init => CounterInv
  <1> SUFFICES ASSUME Init PROVE CounterInv
    OBVIOUS
  <1>1. IsPartialSums([k \in 0..NCpus |-> 0], counter)
    <2>1. counter = [c \in CPUs |-> 0]
      BY DEF Init
    <2>2. \A k \in 0..NCpus :
             [j \in 0..NCpus |-> 0][k]
                = IF k = 0 THEN 0 ELSE [j \in 0..NCpus |-> 0][k - 1] + counter[k]
      BY <2>1, BoundsNat DEF CPUs
    <2>3. [j \in 0..NCpus |-> 0] \in [0..NCpus -> Int]
      OBVIOUS
    <2>4. QED
      BY <2>2, <2>3, PartialSumsIntro
  <1>2. CounterSum(counter) = 0
    BY <1>1, CounterSumIs, BoundsNat
  <1>3. FastInFlight = {}
    BY DEF Init, FastInFlight
  <1>4. QED
    BY <1>1, <1>2, <1>3, FS_EmptySet
    DEF CounterInv, PathShape, Init, HasPartialSums, CounterCovers, CounterExact

\* Both sides of CounterCovers are numbers.
LEMMA CounterNumbers ==
    ASSUME TypeOK, HasPartialSums
    PROVE  CounterSum(counter) \in Int /\ Cardinality(FastInFlight) \in Nat
  <1>1. PICK p \in [0..NCpus -> Int] : IsPartialSums(p, counter)
    BY DEF HasPartialSums
  <1>2. CounterSum(counter) = p[NCpus]
    BY <1>1, CounterSumIs
  <1>3. QED
    BY <1>1, <1>2, BoundsNat, InFlightFinite, FS_CardinalityType

\* A coordinator step leaves the counter and the callers alone.
LEMMA CounterStepCoord ==
    ASSUME NEW c \in Coordinators, CoordStep(c)
    PROVE  UNCHANGED <<counter, pc, path>>
  BY DEF CoordStep, Replace, BeginUpdate, CreateDomain, LockLoader, LockWrite, ReadOldId,
         SetFlag, SumShard, DrainCheck, InitNew, UpdateDirectly, ClearFlag,
         ReleaseOld, UnlockWrite, UnlockLoader, UpdateRegistry, threadVars,
         Goto, proxyVars

\* The steps of a caller that leave the counter and the set of fast-path
\* calls in flight alone: choosing a path, taking the lock, dereferencing,
\* calling, and returning from the locked path.
LEMMA CounterStepQuiet ==
    ASSUME TypeOK, PathShape, NEW t \in Threads,
           \/ Call(t) \/ AcquireLock(t) \/ ReadDirectly(t) \/ DomainCall(t)
           \/ ReturnWithLock(t)
           \/ DomainPanic(t) /\ path[t] = "locked"
    PROVE  /\ PathShape'
           /\ counter' = counter
           /\ FastInFlight' = FastInFlight
  BY DEF Call, AcquireLock, ReadDirectly, DomainCall, ReturnWithLock,
         DomainPanic, PathShape, FastInFlight, TypeOK, ThreadPcs, proxyVars

\* _*_no_lock: the increment adds the caller to the calls in flight.
LEMMA CounterStepInc ==
    ASSUME TypeOK, CounterInv, NEW t \in Threads, IncCounter(t)
    PROVE  CounterInv'
  <1>1. PICK c \in CPUs : counter' = [counter EXCEPT ![c] = @ + 1]
    BY DEF IncCounter, Shard
  <1>2. /\ HasPartialSums'
        /\ CounterSum(counter') = CounterSum(counter) + 1
    <2>0. 1 \in Int /\ -1 \in Int
      OBVIOUS
    <2>1. counter \in [CPUs -> Int]
      BY BoundsNat DEF TypeOK
    <2>2. PICK p \in [0..NCpus -> Int] : IsPartialSums(p, counter)
      BY DEF CounterInv, HasPartialSums
    <2>3. /\ \E q \in [0..NCpus -> Int] : IsPartialSums(q, counter')
          /\ CounterSum(counter') = CounterSum(counter) + 1
      BY <1>1, <2>0, <2>1, <2>2, ShardStep
    <2>4. QED
      BY <1>1, <2>3 DEF HasPartialSums
  <1>3. /\ t \notin FastInFlight
        /\ FastInFlight' = FastInFlight \cup {t}
        /\ PathShape'
    BY DEF IncCounter, CounterInv, PathShape, FastInFlight, TypeOK, ThreadPcs
  <1>4. Cardinality(FastInFlight') = Cardinality(FastInFlight) + 1
    BY <1>3, InFlightFinite, FS_AddElement
  <1>5. CounterSum(counter) \in Int /\ Cardinality(FastInFlight) \in Nat
    BY CounterNumbers DEF CounterInv
  <1>6. QED
    BY <1>2, <1>3, <1>4, <1>5
    DEF CounterInv, CounterCovers, CounterExact

\* _*_no_lock: the decrement after the call takes the caller out of the
\* calls in flight.
LEMMA CounterStepDec ==
    ASSUME TypeOK, CounterInv, NEW t \in Threads, ReturnNoLock(t)
    PROVE  CounterInv'
  <1>1. PICK c \in CPUs : counter' = [counter EXCEPT ![c] = @ + (-1)]
    BY DEF ReturnNoLock, Shard
  <1>2. /\ HasPartialSums'
        /\ CounterSum(counter') = CounterSum(counter) + (-1)
    <2>0. 1 \in Int /\ -1 \in Int
      OBVIOUS
    <2>1. counter \in [CPUs -> Int]
      BY BoundsNat DEF TypeOK
    <2>2. PICK p \in [0..NCpus -> Int] : IsPartialSums(p, counter)
      BY DEF CounterInv, HasPartialSums
    <2>3. /\ \E q \in [0..NCpus -> Int] : IsPartialSums(q, counter')
          /\ CounterSum(counter') = CounterSum(counter) + (-1)
      BY <1>1, <2>0, <2>1, <2>2, ShardStep
    <2>4. QED
      BY <1>1, <2>3 DEF HasPartialSums
  <1>3. /\ t \in FastInFlight
        /\ FastInFlight' = FastInFlight \ {t}
        /\ PathShape'
    BY DEF ReturnNoLock, CounterInv, PathShape, FastInFlight, TypeOK, ThreadPcs
  <1>4. Cardinality(FastInFlight') = Cardinality(FastInFlight) - 1
    BY <1>3, InFlightFinite, FS_RemoveElement
  <1>5. CounterSum(counter) \in Int /\ Cardinality(FastInFlight) \in Nat
    BY CounterNumbers DEF CounterInv
  <1>6. QED
    BY <1>2, <1>3, <1>4, <1>5
    DEF CounterInv, CounterCovers, CounterExact

\* A panic out of a fast-path call takes the caller out of the calls in
\* flight and leaves its increment in the counter; it needs MayPanic.
LEMMA CounterStepPanic ==
    ASSUME TypeOK, CounterInv, NEW t \in Threads, DomainPanic(t),
           path[t] = "fast"
    PROVE  CounterInv'
  <1>1. counter' = counter /\ MayPanic
    BY DEF DomainPanic
  <1>2. HasPartialSums'
    BY <1>1 DEF CounterInv, HasPartialSums
  <1>3. /\ t \in FastInFlight
        /\ FastInFlight' = FastInFlight \ {t}
        /\ PathShape'
    BY DEF DomainPanic, CounterInv, PathShape, FastInFlight, TypeOK, ThreadPcs
  <1>4. Cardinality(FastInFlight') = Cardinality(FastInFlight) - 1
    BY <1>3, InFlightFinite, FS_RemoveElement
  <1>5. CounterSum(counter) \in Int /\ Cardinality(FastInFlight) \in Nat
    BY CounterNumbers DEF CounterInv
  <1>6. QED
    BY <1>1, <1>2, <1>3, <1>4, <1>5
    DEF CounterInv, CounterCovers, CounterExact

LEMMA CounterStep == TypeOK /\ CounterInv /\ [Next]_vars => CounterInv'
  <1> SUFFICES ASSUME TypeOK, CounterInv, [Next]_vars PROVE CounterInv'
    OBVIOUS
  <1>1. ASSUME UNCHANGED <<counter, pc, path>> PROVE CounterInv'
    BY <1>1 DEF CounterInv, PathShape, HasPartialSums, CounterCovers,
               CounterExact, FastInFlight
  <1>2. ASSUME NEW t \in Threads, ThreadStep(t) PROVE CounterInv'
    <2>1. CASE IncCounter(t)
      BY <2>1, CounterStepInc
    <2>2. CASE ReturnNoLock(t)
      BY <2>2, CounterStepDec
    <2>3. CASE DomainPanic(t) /\ path[t] = "fast"
      BY <2>3, CounterStepPanic
    <2>4. CASE \/ Call(t) \/ AcquireLock(t) \/ ReadDirectly(t)
               \/ DomainCall(t) \/ ReturnWithLock(t)
               \/ DomainPanic(t) /\ path[t] = "locked"
      <3>1. PathShape' /\ counter' = counter /\ FastInFlight' = FastInFlight
        BY <2>4, CounterStepQuiet DEF CounterInv
      <3>2. QED
        BY <3>1 DEF CounterInv, HasPartialSums, CounterCovers, CounterExact
    <2>5. QED
      BY <1>2, <2>1, <2>2, <2>3, <2>4 DEF ThreadStep, TypeOK
  <1>3. QED
    BY <1>1, <1>2, CounterStepCoord DEF Next, vars, proxyVars, threadVars

LEMMA CounterInvariant == Spec => []CounterInv
  <1>1. Spec => []TypeOK
    BY TypeCorrect
  <1>2. QED
    BY <1>1, CounterInit, CounterStep, PTL DEF Spec

\* LongLongPerCpu, for every number of callers and CPUs and with domains
\* that may panic: the shards never add up to less than the number of
\* fast-path calls between their increment and their decrement, however
\* the calls migrate between CPUs.  This is the instant value of the
\* counter; the drain's counter.sum() reads the shards one at a time and
\* does not see callers between their flag load and their increment.
THEOREM CounterCoversInFlight == Spec => []CounterCovers
  BY CounterInvariant, PTL DEF CounterInv

\* With domains that do not panic, every fast-path call decrements the
\* shard it incremented or another one, so the shards add up to exactly
\* the number of fast-path calls in flight: the counter returns to zero
\* once they have all returned, which the drain loop of replace waits for.
THEOREM CounterExactNoPanic ==
    ASSUME ~MayPanic
    PROVE  Spec => []CounterExact
  <1>1. CounterInv => CounterExact
    BY DEF CounterInv
  <1>2. QED
    BY <1>1, CounterInvariant, PTL

=============================================================================
