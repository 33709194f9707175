---------------------------- MODULE CondvarSlots ----------------------------
(***************************************************************************)
(* What the emulated condition variable keeps true of its waiter slots,    *)
(* for every number of threads and of slots and whoever the callers are:   *)
(* the lemmas on which the proofs about its users rest (CondvarProofs,     *)
(* CondvarUserProofs, WorkQueueProofs).                                    *)
(***************************************************************************)
EXTENDS Condvar, FiniteSetTheorems, TLAPS

(* What holds of the slots whoever the callers are.                        *)
SlotTypes ==
  /\ in_use \subseteq Slots
  /\ signalled \subseteq Slots
  /\ sem \subseteq Slots
  /\ wpc \in [Threads -> WaitPcs]
  /\ my_slot \in [Threads -> Slots]
  /\ r \in [Threads -> WaitResults]

SlotIInv == SlotTypes /\ SlotsMatchWaiters /\ WakeupsAreExact

slotVars == <<in_use, signalled, sem, n_waiters, wpc, my_slot, r>>

-----------------------------------------------------------------------------
(* The sizes of disjoint sets add up.                                      *)
LEMMA DisjointSizes ==
  ASSUME NEW S, IsFiniteSet(S), NEW T, IsFiniteSet(T), S \cap T = {}
  PROVE  /\ IsFiniteSet(S \cup T)
         /\ Cardinality(S \cup T) = Cardinality(S) + Cardinality(T)
<1>1. /\ IsFiniteSet(S \cup T)
      /\ Cardinality(S \cup T) = Cardinality(S) + Cardinality(T) - Cardinality(S \cap T)
  BY FS_Union, Zenon
<1>2. Cardinality(S \cap T) = 0
  BY FS_EmptySet, Zenon
<1>3. Cardinality(S) \in Nat /\ Cardinality(T) \in Nat
  BY FS_CardinalityType, Zenon
<1>4. QED
  BY <1>1, <1>2, <1>3

(* Any set of slots is finite, and has at most MaxWaiters members.         *)
LEMMA SlotSets ==
  ASSUME NEW S, S \subseteq Slots
  PROVE  /\ IsFiniteSet(S)
         /\ Cardinality(S) \in 0 .. MaxWaiters
<1>1. IsFiniteSet(Slots) /\ Cardinality(Slots) = MaxWaiters
  <2>1. 0 \in Int /\ MaxWaiters - 1 \in Int /\ ~ (0 > MaxWaiters - 1)
    BY CondvarAssumption
  <2>2. QED
    BY <2>1, FS_Interval, CondvarAssumption DEF Slots
<1>2. IsFiniteSet(S) /\ Cardinality(S) <= Cardinality(Slots)
  BY <1>1, FS_Subset, Zenon
<1>3. Cardinality(S) \in Nat
  BY <1>2, FS_CardinalityType, Zenon
<1>4. QED
  BY <1>1, <1>2, <1>3, CondvarAssumption

(* A waiter's slot is in use, and no other waiter's.                       *)
LEMMA WaiterHasItsSlot ==
  ASSUME SlotIInv, NEW t \in Threads, InWait(t)
  PROVE  /\ my_slot[t] \in in_use
         /\ \A u \in Threads : InWait(u) /\ my_slot[u] = my_slot[t] => u = t
  BY Zenon DEF SlotIInv, SlotsMatchWaiters

(* osal_condvar_create establishes it.                                     *)
LEMMA SlotInit == CvInit => SlotIInv
<1> SUFFICES ASSUME CvInit PROVE SlotIInv
  BY Zenon
<1>1. 0 \in Slots
  BY CondvarAssumption DEF Slots
<1>2. SlotTypes
  BY <1>1, Zenon DEF CvInit, SlotTypes, WaitPcs, WaitResults
<1>3. \A t \in Threads : ~ InWait(t)
  BY Zenon DEF CvInit, InWait
<1>4. SlotsMatchWaiters
  BY <1>3, FS_EmptySet, Zenon DEF CvInit, SlotsMatchWaiters
<1>5. WakeupsAreExact
  BY <1>3, Zenon DEF CvInit, WakeupsAreExact, NoStaleWakeup, NoLostWakeup, InWait
<1>6. QED
  BY <1>2, <1>4, <1>5, Zenon DEF SlotIInv

(* It does not mention the callers' mutex.                                 *)
LEMMA SlotStutter == SlotIInv /\ UNCHANGED slotVars => SlotIInv'
  BY Zenon DEF SlotIInv, SlotTypes, SlotsMatchWaiters, WakeupsAreExact, NoStaleWakeup,
         NoLostWakeup, InWait, slotVars

(* The first section of osal_condvar_wait: the slot it claims is nobody's, *)
(* and the claim forgets the token and the flag of its last user.          *)
LEMMA SlotClaim ==
  ASSUME SlotIInv, NEW t \in Threads, NEW withTimeout \in BOOLEAN,
         WaitCall(t, withTimeout)
  PROVE  SlotIInv'
<1>1. CASE FreeSlots = {}
  <2>1. UNCHANGED <<in_use, signalled, sem, n_waiters, wpc, my_slot>> /\ wpc[t] = "out"
    BY <1>1, Zenon DEF WaitCall
  <2>2. r' = [r EXCEPT ![t] = "out_of_resources"]
    BY <1>1, Zenon DEF WaitCall, WaitReturns
  <2>3. SlotTypes'
    BY <2>1, <2>2, Zenon DEF SlotIInv, SlotTypes, WaitResults
  <2>4. SlotsMatchWaiters'
    BY <2>1, Zenon DEF SlotIInv, SlotsMatchWaiters, InWait
  <2>5. WakeupsAreExact'
    BY <2>1, <2>2, Zenon DEF SlotIInv, SlotTypes, WakeupsAreExact, NoStaleWakeup, NoLostWakeup
  <2>6. QED
    BY <2>3, <2>4, <2>5, Zenon DEF SlotIInv
<1>2. CASE FreeSlots # {}
  <2>1. PICK s \in Slots :
          /\ s \notin in_use
          /\ in_use' = in_use \cup {s}
          /\ signalled' = signalled \ {s}
          /\ sem' = sem \ {s}
          /\ n_waiters' = n_waiters + 1
          /\ my_slot' = [my_slot EXCEPT ![t] = s]
          /\ wpc' = [wpc EXCEPT ![t] = "unlock"]
    BY <1>2, Zenon DEF WaitCall, Claim, IsLowest, FreeSlots, WaitGoto
  <2>2. wpc[t] = "out" /\ r' = r
    BY <1>2, Zenon DEF WaitCall
  <2>3. SlotTypes'
    BY <2>1, <2>2, Zenon DEF SlotIInv, SlotTypes, WaitPcs
  <2>4. /\ my_slot'[t] = s /\ wpc'[t] = "unlock"
        /\ \A u \in Threads \ {t} : my_slot'[u] = my_slot[u] /\ wpc'[u] = wpc[u]
    BY <2>1, Zenon DEF SlotIInv, SlotTypes
  <2>5. \A u \in Threads \ {t} : InWait(u) => my_slot[u] # s
    BY <2>1, WaiterHasItsSlot, Zenon
  <2>6. SlotsMatchWaiters'
    <3>1. in_use' = {my_slot[u] : u \in {v \in Threads : InWait(v)}}'
      <4>1. in_use = {my_slot[u] : u \in {v \in Threads : InWait(v)}}
        BY Zenon DEF SlotIInv, SlotsMatchWaiters
      <4>2. ~ InWait(t) /\ InWait(t)' /\ \A u \in Threads \ {t} : InWait(u)' <=> InWait(u)
        BY <2>2, <2>4, Zenon DEF InWait
      <4>3. \A x : x \in in_use' <=> \E u \in Threads : InWait(u)' /\ x = my_slot'[u]
        BY <2>1, <2>4, <4>1, <4>2, Zenon
      <4>4. QED
        BY <4>3, Zenon
    <3>2. \A u, v \in Threads :
            InWait(u)' /\ InWait(v)' /\ u # v => my_slot'[u] # my_slot'[v]
      BY <2>4, <2>5, WaiterHasItsSlot, Zenon DEF InWait
    <3>3. n_waiters' = Cardinality(in_use')
      <4>1. IsFiniteSet(in_use)
        BY SlotSets, Zenon DEF SlotIInv, SlotTypes
      <4>2. Cardinality(in_use \cup {s}) = Cardinality(in_use) + 1
        BY <4>1, <2>1, FS_AddElement, Zenon
      <4>3. QED
        BY <4>2, <2>1, Zenon DEF SlotIInv, SlotsMatchWaiters
    <3>4. QED
      BY <3>1, <3>2, <3>3, Zenon DEF SlotsMatchWaiters
  <2>7. WakeupsAreExact'
    BY <2>1, <2>2, <2>4, <2>5
    DEF SlotIInv, WakeupsAreExact, NoStaleWakeup, NoLostWakeup, InWait
  <2>8. QED
    BY <2>3, <2>6, <2>7, Zenon DEF SlotIInv
<1>3. QED
  BY <1>1, <1>2, Zenon

(* The steps of a wait that leave the slot with its waiter.                *)
LEMMA SlotKept ==
  ASSUME SlotIInv, NEW t \in Threads,
         WaitUnlock(t) \/ WaitTake(t) \/ WaitTimeout(t) \/ WaitRelock(t)
  PROVE  SlotIInv'
<1>1. PICK label \in {"take", "relock", "release"} : wpc' = [wpc EXCEPT ![t] = label]
  BY Zenon DEF WaitUnlock, WaitTake, WaitTimeout, WaitRelock, WaitGoto
<1>2. UNCHANGED <<in_use, signalled, n_waiters, my_slot>> /\ wpc[t] \in WaitPcs \ {"out"}
  BY Zenon DEF WaitUnlock, WaitTake, WaitTimeout, WaitRelock, WaitPcs
<1>3. \A u \in Threads : wpc'[u] = IF u = t THEN label ELSE wpc[u]
  BY <1>1, Zenon DEF SlotIInv, SlotTypes
<1>4. SlotTypes'
  <2>1. wpc' \in [Threads -> WaitPcs]
    BY <1>1, Zenon DEF SlotIInv, SlotTypes, WaitPcs
  <2>2. sem' \subseteq Slots /\ r' \in [Threads -> WaitResults]
    BY Zenon DEF WaitUnlock, WaitTake, WaitTimeout, WaitRelock, WaitReturns, WaitResults,
           SlotIInv, SlotTypes
  <2>3. QED
    BY <1>2, <2>1, <2>2, Zenon DEF SlotIInv, SlotTypes
<1>5. SlotsMatchWaiters'
  <2>1. \A u \in Threads : InWait(u)' <=> InWait(u)
    BY <1>2, <1>3, Zenon DEF InWait
  <2>2. {u \in Threads : InWait(u)}' = {u \in Threads : InWait(u)}
    BY <2>1, Zenon
  <2>3. QED
    BY <1>2, <2>1, <2>2, Zenon DEF SlotIInv, SlotsMatchWaiters
<1>6. WakeupsAreExact'
  <2>1. CASE WaitTake(t)
    <3>1. /\ wpc[t] = "take" /\ my_slot[t] \in sem /\ sem' = sem \ {my_slot[t]}
          /\ wpc'[t] = "relock"
          /\ \A u \in Threads \ {t} : r'[u] = r[u]
      BY <2>1, Zenon DEF WaitTake, WaitReturns, WaitGoto, SlotIInv, SlotTypes
    <3>2. my_slot[t] \in signalled
      BY <3>1, WaiterHasItsSlot, Zenon DEF InWait, SlotIInv, WakeupsAreExact, NoStaleWakeup
    <3>3. \A u \in Threads \ {t} : InWait(u) => my_slot[u] # my_slot[t]
      BY <3>1, WaiterHasItsSlot, Zenon DEF InWait
    <3>4. QED
      BY <1>2, <1>3, <3>1, <3>2, <3>3, Zenon
      DEF SlotIInv, WakeupsAreExact, NoStaleWakeup, NoLostWakeup, InWait
  <2>2. CASE WaitTimeout(t)
    BY <1>2, <1>3, <2>2, Zenon
    DEF WaitTimeout, WaitReturns, WaitGoto, SlotIInv, SlotTypes, WakeupsAreExact, NoStaleWakeup,
        NoLostWakeup
  <2>3. CASE WaitUnlock(t)
    BY <1>2, <1>3, <2>3, Zenon
    DEF WaitUnlock, WaitGoto, SlotIInv, SlotTypes, WakeupsAreExact, NoStaleWakeup, NoLostWakeup
  <2>4. CASE WaitRelock(t)
    BY <1>2, <1>3, <2>4, Zenon
    DEF WaitRelock, WaitGoto, SlotIInv, SlotTypes, WakeupsAreExact, NoStaleWakeup, NoLostWakeup
  <2>5. QED
    BY <2>1, <2>2, <2>3, <2>4, Zenon
<1>7. QED
  BY <1>4, <1>5, <1>6, Zenon DEF SlotIInv

(* The last section of osal_condvar_wait frees the slot and counts its     *)
(* waiter out.                                                             *)
LEMMA SlotRelease ==
  ASSUME SlotIInv, NEW t \in Threads, WaitRelease(t)
  PROVE  SlotIInv'
<1> DEFINE s == my_slot[t]
<1>1. /\ wpc[t] = "release" /\ in_use' = in_use \ {s} /\ n_waiters' = n_waiters - 1
      /\ wpc' = [wpc EXCEPT ![t] = "out"]
      /\ UNCHANGED <<signalled, sem, my_slot, r>>
  BY Zenon DEF WaitRelease, WaitGoto
<1>2. \A u \in Threads : wpc'[u] = IF u = t THEN "out" ELSE wpc[u]
  BY <1>1, Zenon DEF SlotIInv, SlotTypes
<1>3. InWait(t) /\ \A u \in Threads : InWait(u)' <=> InWait(u) /\ u # t
  BY <1>1, <1>2, Zenon DEF InWait
<1>4. s \in in_use /\ \A u \in Threads \ {t} : InWait(u) => my_slot[u] # s
  BY <1>3, WaiterHasItsSlot, Zenon
<1>5. SlotTypes'
  BY <1>1, Zenon DEF SlotIInv, SlotTypes, WaitPcs
<1>6. SlotsMatchWaiters'
  <2>1. in_use' = {my_slot[u] : u \in {v \in Threads : InWait(v)}}'
    <3>1. \A x : x \in in_use <=> \E u \in Threads : InWait(u) /\ x = my_slot[u]
      BY Zenon DEF SlotIInv, SlotsMatchWaiters
    <3>2. \A x : x \in in_use' <=> \E u \in Threads : InWait(u)' /\ x = my_slot'[u]
      BY <1>1, <1>3, <1>4, <3>1, Zenon
    <3>3. QED
      BY <3>2, Zenon
  <2>2. \A u, v \in Threads :
          InWait(u)' /\ InWait(v)' /\ u # v => my_slot'[u] # my_slot'[v]
    BY <1>1, <1>3, Zenon DEF SlotIInv, SlotsMatchWaiters
  <2>3. n_waiters' = Cardinality(in_use')
    <3>1. IsFiniteSet(in_use)
      BY SlotSets, Zenon DEF SlotIInv, SlotTypes
    <3>2. Cardinality(in_use \ {s}) = Cardinality(in_use) - 1
      BY <3>1, <1>4, FS_RemoveElement, Zenon
    <3>3. QED
      BY <3>2, <1>1, Zenon DEF SlotIInv, SlotsMatchWaiters
  <2>4. QED
    BY <2>1, <2>2, <2>3, Zenon DEF SlotsMatchWaiters
<1>7. WakeupsAreExact'
  BY <1>1, <1>2 DEF SlotIInv, WakeupsAreExact, NoStaleWakeup, NoLostWakeup
<1>8. QED
  BY <1>5, <1>6, <1>7, Zenon DEF SlotIInv

(* Every step of a thread inside osal_condvar_wait.                        *)
LEMMA SlotWaitStep ==
  ASSUME SlotIInv, NEW t \in Threads, WaitStep(t)
  PROVE  SlotIInv'
  BY SlotKept, SlotRelease, Zenon DEF WaitStep

(* Signalling slots gives each of them its flag and its token together.    *)
LEMMA SlotSignal ==
  ASSUME SlotIInv, NEW S, S \subseteq Slots, Signal(S)
  PROVE  SlotIInv'
<1>1. /\ signalled' = signalled \cup S /\ sem' = sem \cup S
      /\ UNCHANGED <<in_use, n_waiters, wpc, my_slot, r>>
  BY Zenon DEF Signal
<1>2. SlotTypes'
  BY <1>1, Zenon DEF SlotIInv, SlotTypes
<1>3. SlotsMatchWaiters'
  BY <1>1, Zenon DEF SlotIInv, SlotsMatchWaiters, InWait
<1>4. WakeupsAreExact'
  BY <1>1, Zenon DEF SlotIInv, WakeupsAreExact, NoStaleWakeup, NoLostWakeup
<1>5. QED
  BY <1>2, <1>3, <1>4, Zenon DEF SlotIInv

(* The early return of the notifications on n_waiters = 0 skips nobody.    *)
LEMMA NoWaitersNonePending ==
  ASSUME SlotIInv, n_waiters = 0
  PROVE  Pending = {}
<1>1. IsFiniteSet(in_use) /\ Cardinality(in_use) = 0
  BY SlotSets, Zenon DEF SlotIInv, SlotTypes, SlotsMatchWaiters
<1>2. in_use = {}
  BY <1>1, FS_EmptySet, Zenon
<1>3. QED
  BY <1>2, Zenon DEF Pending

(* notify_one signals one pending slot if there is any.                    *)
LEMMA NotifyOneSignals ==
  ASSUME SlotIInv, osal_condvar_notify_one
  PROVE  \/ Pending = {} /\ Signal({})
         \/ \E s \in Pending : Signal({s})
<1>1. CASE n_waiters = 0 \/ Pending = {}
  BY <1>1, NoWaitersNonePending, Zenon DEF osal_condvar_notify_one
<1>2. CASE ~ (n_waiters = 0 \/ Pending = {})
  BY <1>2, Zenon DEF osal_condvar_notify_one, IsLowest
<1>3. QED
  BY <1>1, <1>2, Zenon

(* notify_all signals all of them.                                         *)
LEMMA NotifyAllSignals ==
  ASSUME SlotIInv, osal_condvar_notify_all
  PROVE  Signal(Pending)
  BY NoWaitersNonePending, Zenon DEF osal_condvar_notify_all

(* Both preserve the invariant.                                            *)
LEMMA SlotNotify ==
  ASSUME SlotIInv, osal_condvar_notify_one \/ osal_condvar_notify_all
  PROVE  SlotIInv'
<1>1. Pending \subseteq Slots
  BY Zenon DEF Pending, SlotIInv, SlotTypes
<1>2. \E S \in SUBSET Slots : Signal(S)
  BY <1>1, NotifyOneSignals, NotifyAllSignals, Zenon
<1>3. QED
  BY <1>2, SlotSignal, Zenon

-----------------------------------------------------------------------------
(* The rest of the condition variable's state: who owns the callers' mutex *)
(* and whether a wait is timed.                                            *)
OwnerIsAThread == mutex \in Threads \cup {NoThread}
TimedIsBoolean == timed \in [Threads -> BOOLEAN]

(* osal_condvar_create establishes it, only the first section of a wait    *)
(* records whether it is timed, ...                                        *)
LEMMA TimedInit == CvInit => OwnerIsAThread /\ TimedIsBoolean
<1>1. CvInit => OwnerIsAThread
  BY Zenon DEF CvInit, OwnerIsAThread
<1>2. CvInit => TimedIsBoolean
  BY Zenon DEF CvInit, TimedIsBoolean
<1>3. QED
  BY <1>1, <1>2, Zenon

(* A call of osal_condvar_wait notes whether it has a time-out.            *)
LEMMA TimedWaitCall ==
  ASSUME TimedIsBoolean, NEW t \in Threads, NEW withTimeout \in BOOLEAN,
         WaitCall(t, withTimeout)
  PROVE  TimedIsBoolean'
<1>1. timed' = timed \/ timed' = [timed EXCEPT ![t] = withTimeout]
  BY Zenon DEF WaitCall, Claim
<1>2. QED
  BY <1>1, Zenon DEF TimedIsBoolean

(* ... and its other sections and the notifications keep it.               *)
LEMMA TimedKept ==
  ASSUME NEW t \in Threads,
         \/ WaitStep(t) \/ UNCHANGED cvRest
         \/ osal_condvar_notify_one \/ osal_condvar_notify_all
  PROVE  timed' = timed
  BY Zenon DEF WaitStep, WaitUnlock, WaitTake, WaitTimeout, WaitRelock, WaitRelease,
     osal_condvar_notify_one, osal_condvar_notify_all, Signal, cvRest

(* A step of a wait gives the mutex up or takes it.                        *)
LEMMA OwnerWaitStep ==
  ASSUME OwnerIsAThread, NEW t \in Threads, WaitStep(t)
  PROVE  OwnerIsAThread'
  BY Zenon DEF WaitStep, WaitUnlock, WaitTake, WaitTimeout, WaitRelock, WaitRelease, OwnerIsAThread

(* Together they are the invariant that the runs check.                    *)
LEMMA SlotsAreExact ==
  ASSUME SlotIInv, OwnerIsAThread, TimedIsBoolean
  PROVE  SlotsAndWakeupsAreExact
<1>1. n_waiters \in 0 .. MaxWaiters
  BY SlotSets, Zenon DEF SlotIInv, SlotTypes, SlotsMatchWaiters
<1>2. CvTypeOK
  BY <1>1, Zenon DEF SlotIInv, SlotTypes, OwnerIsAThread, TimedIsBoolean, CvTypeOK
<1>3. QED
  BY <1>2, Zenon DEF SlotIInv, SlotsAndWakeupsAreExact

(* What the first section of osal_condvar_wait does for its callers.       *)
LEMMA WaitCallEffect ==
  ASSUME SlotIInv, NEW t \in Threads, NEW withTimeout \in BOOLEAN,
         WaitCall(t, withTimeout), FreeSlots # {}
  PROVE  \E s \in Slots :
           /\ s \notin in_use
           /\ signalled' = signalled \ {s}
           /\ \A u \in Threads : wpc'[u] = IF u = t THEN "unlock" ELSE wpc[u]
           /\ \A u \in Threads : my_slot'[u] = IF u = t THEN s ELSE my_slot[u]
           /\ \A u \in Threads \ {t} : InWait(u) => my_slot[u] # s
<1>1. PICK s \in Slots :
        /\ s \notin in_use
        /\ signalled' = signalled \ {s}
        /\ my_slot' = [my_slot EXCEPT ![t] = s]
        /\ wpc' = [wpc EXCEPT ![t] = "unlock"]
  BY Zenon DEF WaitCall, Claim, IsLowest, FreeSlots, WaitGoto
<1>2. /\ \A u \in Threads : wpc'[u] = IF u = t THEN "unlock" ELSE wpc[u]
      /\ \A u \in Threads : my_slot'[u] = IF u = t THEN s ELSE my_slot[u]
  BY <1>1, Zenon DEF SlotIInv, SlotTypes
<1>3. \A u \in Threads \ {t} : InWait(u) => my_slot[u] # s
  BY <1>1, WaiterHasItsSlot, Zenon
<1>4. QED
  BY <1>1, <1>2, <1>3, Zenon

(* What the later ones do: the slots and their flags stay.                 *)
LEMMA WaitStepEffect ==
  ASSUME SlotIInv, NEW t \in Threads, WaitStep(t)
  PROVE  /\ UNCHANGED <<my_slot, signalled>> /\ InWait(t)
         /\ \A u \in Threads \ {t} : wpc'[u] = wpc[u]
         /\ wpc'[t] \in {"unlock", "take"} => wpc[t] \in {"unlock", "take"}
<1>1. UNCHANGED <<my_slot, signalled>> /\ InWait(t)
  BY Zenon DEF WaitStep, WaitUnlock, WaitTake, WaitTimeout, WaitRelock, WaitRelease, InWait
<1>2. \E label \in WaitPcs : wpc' = [wpc EXCEPT ![t] = label]
  BY Zenon DEF WaitStep, WaitUnlock, WaitTake, WaitTimeout, WaitRelock, WaitRelease, WaitGoto, WaitPcs
<1>3. wpc'[t] \in {"unlock", "take"} => wpc[t] \in {"unlock", "take"}
  BY Zenon DEF WaitStep, WaitUnlock, WaitTake, WaitTimeout, WaitRelock, WaitRelease, WaitGoto,
         SlotIInv, SlotTypes
<1>4. QED
  BY <1>1, <1>2, <1>3, Zenon DEF SlotIInv, SlotTypes

(* After notify_all every waiter has been notified.                        *)
LEMMA NotifyAllEffect ==
  ASSUME SlotIInv, osal_condvar_notify_all
  PROVE  /\ SlotIInv' /\ UNCHANGED <<wpc, my_slot>>
         /\ \A u \in Threads : InWait(u) => my_slot[u] \in signalled'
<1>1. Signal(Pending)
  BY NotifyAllSignals, Zenon
<1>2. signalled' = signalled \cup Pending /\ UNCHANGED <<wpc, my_slot>>
  BY <1>1, Zenon DEF Signal
<1>3. \A u \in Threads : InWait(u) => my_slot[u] \in signalled'
  BY <1>2, WaiterHasItsSlot, Zenon DEF Pending
<1>4. QED
  BY <1>2, <1>3, SlotNotify, Zenon
=============================================================================
