--------------------------- MODULE CondvarProofs ---------------------------
(***************************************************************************)
(* The emulated condition variable and the read-write lock over it, for    *)
(* every number of threads and of waiter slots: no notification is lost or *)
(* received by a later user of its slot; the five steps of                 *)
(* osal_condvar_wait implement the atomic condition variable of            *)
(* AbstractCondvar; and readers and writers exclude each other.  What      *)
(* happens to the slots comes from the lemmas of CondvarSlots.             *)
(***************************************************************************)
EXTENDS MCCondvarClient, CondvarSlots

(* Arbitrary callers.  A thread that is about to release the mutex, or has *)
(* just taken it again, owns it, and its owner is nowhere else in a wait.  *)
OwnersAreAwake ==
  /\ OwnerIsAThread
  /\ \A t \in Threads : wpc[t] \in {"unlock", "release"} => mutex = t
  /\ \A t \in Threads : mutex = t => wpc[t] \in {"out", "unlock", "release"}

CvIInv == SlotIInv /\ OwnersAreAwake

(* osal_condvar_create establishes both.                                   *)
LEMMA CvInitHolds == Init => CvIInv /\ TimedIsBoolean
<1> SUFFICES ASSUME Init PROVE CvIInv /\ TimedIsBoolean
  BY Zenon
<1>1. SlotIInv
  BY SlotInit, Zenon DEF Init
<1>2. OwnersAreAwake
  BY CondvarAssumption, Zenon DEF Init, CvInit, OwnersAreAwake, OwnerIsAThread
<1>3. TimedIsBoolean
  BY TimedInit, Zenon DEF Init
<1>4. QED
  BY <1>1, <1>2, <1>3, Zenon DEF CvIInv

(* Every step of every caller preserves the invariant.                     *)
LEMMA CvStepHolds == CvIInv /\ [Next]_cvVars => CvIInv'
<1> SUFFICES ASSUME CvIInv, [Next]_cvVars PROVE CvIInv'
  BY Zenon
<1> USE CondvarAssumption
<1>1. CASE UNCHANGED cvVars
  BY <1>1, SlotStutter, Zenon DEF CvIInv, OwnersAreAwake, OwnerIsAThread, cvVars, slotVars
<1>2. ASSUME NEW t \in Threads, Lock(t) \/ Unlock(t) PROVE CvIInv'
  <2>1. UNCHANGED slotVars
    BY <1>2, Zenon DEF Lock, Unlock, cvRest, slotVars
  <2>2. OwnersAreAwake'
    BY <1>2, <2>1, Zenon DEF Lock, Unlock, CvIInv, OwnersAreAwake, OwnerIsAThread, slotVars
  <2>3. QED
    BY <2>1, <2>2, SlotStutter, Zenon DEF CvIInv
<1>3. ASSUME NEW t \in Threads, Wait(t) PROVE CvIInv'
  <2>1. mutex = t /\ mutex' = mutex /\ \E b \in BOOLEAN : WaitCall(t, b)
    BY <1>3, Zenon DEF Wait
  <2>2. SlotIInv'
    BY <2>1, SlotClaim, Zenon DEF CvIInv
  <2>3. wpc' = wpc \/ wpc' = [wpc EXCEPT ![t] = "unlock"]
    BY <2>1, Zenon DEF WaitCall, Claim, WaitGoto
  <2>4. OwnersAreAwake'
    BY <2>1, <2>3, Zenon DEF CvIInv, OwnersAreAwake, OwnerIsAThread, SlotIInv, SlotTypes
  <2>5. QED
    BY <2>2, <2>4, Zenon DEF CvIInv
<1>4. ASSUME NEW t \in Threads, NotifyOne(t) \/ NotifyAll(t) PROVE CvIInv'
  <2>1. mutex' = mutex /\ (osal_condvar_notify_one \/ osal_condvar_notify_all)
    BY <1>4, Zenon DEF NotifyOne, NotifyAll
  <2>2. SlotIInv'
    BY <2>1, SlotNotify, Zenon DEF CvIInv
  <2>3. wpc' = wpc
    BY <2>1, Zenon DEF osal_condvar_notify_one, osal_condvar_notify_all, Signal
  <2>4. QED
    BY <2>1, <2>2, <2>3, Zenon DEF CvIInv, OwnersAreAwake, OwnerIsAThread
<1>5. ASSUME NEW t \in Threads, WaitStep(t) PROVE CvIInv'
  <2>1. SlotIInv'
    BY <1>5, SlotWaitStep, Zenon DEF CvIInv
  <2>2. OwnersAreAwake'
    BY <1>5, Zenon DEF WaitStep, WaitUnlock, WaitTake, WaitTimeout, WaitRelock, WaitRelease, WaitGoto,
                CvIInv, OwnersAreAwake, OwnerIsAThread, SlotIInv, SlotTypes
  <2>3. QED
    BY <2>1, <2>2, Zenon DEF CvIInv
<1>6. QED
  BY <1>1, <1>2, <1>3, <1>4, <1>5, Zenon DEF Next

(* The callers' steps keep it, too.                                        *)
LEMMA TimedStepHolds == TimedIsBoolean /\ [Next]_cvVars => TimedIsBoolean'
<1> SUFFICES ASSUME TimedIsBoolean, [Next]_cvVars PROVE TimedIsBoolean'
  BY Zenon
<1>1. ASSUME NEW t \in Threads, Wait(t) PROVE TimedIsBoolean'
  BY <1>1, TimedWaitCall, Zenon DEF Wait
<1>2. ASSUME NEW t \in Threads,
             Lock(t) \/ Unlock(t) \/ NotifyOne(t) \/ NotifyAll(t) \/ WaitStep(t)
      PROVE  timed' = timed
  BY <1>2, TimedKept, Zenon DEF Lock, Unlock, NotifyOne, NotifyAll
<1>3. CASE UNCHANGED cvVars
  BY <1>3, Zenon DEF cvVars, TimedIsBoolean
<1>4. CASE Next
  <2>1. (\E t \in Threads : Wait(t)) \/ timed' = timed
    BY <1>2, <1>4, Zenon DEF Next
  <2>2. QED
    BY <1>1, <2>1, Zenon DEF TimedIsBoolean
<1>5. QED
  BY <1>3, <1>4, Zenon

(* The slots, their flags, their tokens and n_waiters agree with the       *)
(* threads inside osal_condvar_wait whatever the callers do, so that no    *)
(* notification is lost before the take and none wakes a later user.       *)
THEOREM CondvarIsExact == Spec => []SlotsAndWakeupsAreExact
<1>1. CvIInv /\ TimedIsBoolean => SlotsAndWakeupsAreExact
  BY SlotsAreExact, Zenon DEF CvIInv, OwnersAreAwake
<1>2. QED
  BY <1>1, CvInitHolds, CvStepHolds, TimedStepHolds, PTL DEF Spec

-----------------------------------------------------------------------------
(* The state of a thread of the abstract condition variable, as a function *)
(* of where the thread is and whether its slot was signalled.              *)
Shown(pc, notified) ==
  IF pc = "out" THEN "out"
  ELSE IF pc = "release" THEN IF notified THEN "out" ELSE "leaving"
  ELSE IF notified THEN "notified"
  ELSE IF pc = "relock" THEN "expired" ELSE "waiting"

(* Reading the refinement mapping.                                         *)
LEMMA AbsStateIs ==
  ASSUME wpc \in [Threads -> WaitPcs]
  PROVE  AbsState = [t \in Threads |-> Shown(wpc[t], my_slot[t] \in signalled)]
<1>1. \A t \in Threads : AbsState[t] = Shown(wpc[t], my_slot[t] \in signalled)
  <2> SUFFICES ASSUME NEW t \in Threads
               PROVE  AbsState[t] = Shown(wpc[t], my_slot[t] \in signalled)
    BY Zenon
  <2>1. wpc[t] \in {"out", "unlock", "take", "relock", "release"}
    BY Zenon DEF WaitPcs
  <2>2. QED
    BY <2>1, Zenon DEF AbsState, Shown
<1>2. QED
  BY <1>1, Zenon DEF AbsState

(* The same in the state after a step.                                     *)
LEMMA AbsStateIsNext ==
  ASSUME wpc' \in [Threads -> WaitPcs]
  PROVE  AbsState' = [t \in Threads |-> Shown(wpc'[t], my_slot'[t] \in signalled')]
<1>1. \A t \in Threads : AbsState'[t] = Shown(wpc'[t], my_slot'[t] \in signalled')
  <2> SUFFICES ASSUME NEW t \in Threads
               PROVE  AbsState'[t] = Shown(wpc'[t], my_slot'[t] \in signalled')
    BY Zenon
  <2>1. wpc'[t] \in {"out", "unlock", "take", "relock", "release"}
    BY Zenon DEF WaitPcs
  <2>2. QED
    BY <2>1, Zenon DEF AbsState, Shown
<1>2. QED
  BY <1>1, Zenon DEF AbsState

(* The candidates of a notification are the waiters with a pending slot.   *)
LEMMA CandidatesArePending ==
  ASSUME SlotIInv
  PROVE  /\ Abstract!Candidates = {t \in Threads : InWait(t) /\ my_slot[t] \notin signalled}
         /\ \A s \in Pending : \E t \in Abstract!Candidates :
              \A u \in Threads : u = t <=> InWait(u) /\ my_slot[u] = s
         /\ \A t \in Abstract!Candidates : my_slot[t] \in Pending
<1>1. AbsState = [t \in Threads |-> Shown(wpc[t], my_slot[t] \in signalled)]
  BY AbsStateIs, Zenon DEF SlotIInv, SlotTypes
<1>2. Abstract!Candidates = {t \in Threads : InWait(t) /\ my_slot[t] \notin signalled}
  BY <1>1, Zenon DEF Abstract!Candidates, Shown, InWait
<1>3. \A s \in Pending : \E t \in Abstract!Candidates :
        \A u \in Threads : u = t <=> InWait(u) /\ my_slot[u] = s
  BY <1>2 DEF Pending, SlotIInv, SlotsMatchWaiters
<1>4. QED
  BY <1>2, <1>3, WaiterHasItsSlot, Zenon DEF Pending

(* Signalling the slots of a set of candidates is the abstract             *)
(* notification of that set.                                               *)
LEMMA SignalNotifies ==
  ASSUME CvIInv, NEW S, S \subseteq Pending, Signal(S), UNCHANGED mutex
  PROVE  Abstract!Notify({t \in Threads : InWait(t) /\ my_slot[t] \in S})
<1> DEFINE C == {t \in Threads : InWait(t) /\ my_slot[t] \in S}
<1>1. signalled' = signalled \cup S /\ UNCHANGED <<wpc, my_slot>>
  BY Zenon DEF Signal
<1>2. AbsState = [t \in Threads |-> Shown(wpc[t], my_slot[t] \in signalled)]
  BY AbsStateIs, Zenon DEF CvIInv, SlotIInv, SlotTypes
<1>3. AbsState' = [t \in Threads |-> Shown(wpc[t], my_slot[t] \in signalled \cup S)]
  <2>1. wpc' \in [Threads -> WaitPcs]
    BY <1>1, Zenon DEF CvIInv, SlotIInv, SlotTypes
  <2>2. QED
    BY <2>1, <1>1, AbsStateIsNext, Zenon
<1>4. ASSUME NEW t \in Threads
      PROVE  AbsState'[t] = CASE t \in C /\ AbsState[t] = "leaving" -> "out"
                              [] t \in C /\ AbsState[t] # "leaving" -> "notified"
                              [] t \notin C -> AbsState[t]
  <2>1. CASE t \in C
    <3>1. wpc[t] \in {"unlock", "take", "relock", "release"} /\ my_slot[t] \notin signalled
      BY <2>1, Zenon DEF CvIInv, SlotIInv, SlotTypes, WaitPcs, InWait, Pending
    <3>2. QED
      BY <1>2, <1>3, <2>1, <3>1, Zenon DEF Shown
  <2>2. CASE t \notin C
    BY <1>2, <1>3, <2>2, Zenon DEF Shown, InWait
  <2>3. QED
    BY <2>1, <2>2, Zenon
<1>5. AbsState' = [t \in Threads |->
                     CASE t \in C /\ AbsState[t] = "leaving" -> "out"
                       [] t \in C /\ AbsState[t] # "leaving" -> "notified"
                       [] t \notin C -> AbsState[t]]
  <2>1. AbsState' = [t \in Threads |-> AbsState'[t]]
    BY <1>3, Zenon
  <2>2. QED
    BY <1>4, <2>1, Zenon
<1>6. AbsMutex' = AbsMutex
  BY <1>1, Zenon DEF AbsMutex
<1>7. QED
  BY <1>5, <1>6, Zenon DEF Abstract!Notify

(* Each notification is the operation it is named after.                   *)
LEMMA NotifyImplements ==
  ASSUME CvIInv, NEW t \in Threads
  PROVE  /\ NotifyOne(t) => Abstract!NotifyOne \/ (Abstract!Candidates = {} /\ UNCHANGED Abstract!vars)
         /\ NotifyAll(t) => Abstract!NotifyAll
<1>1. SlotIInv
  BY Zenon DEF CvIInv
<1>2. ASSUME NotifyOne(t)
      PROVE  Abstract!NotifyOne \/ (Abstract!Candidates = {} /\ UNCHANGED Abstract!vars)
  <2>1. osal_condvar_notify_one /\ UNCHANGED mutex
    BY <1>2, Zenon DEF NotifyOne
  <2>2. CASE Pending = {} /\ Signal({})
    <3>1. Abstract!Candidates = {}
      BY <1>1, <2>2, CandidatesArePending, Zenon
    <3>2. UNCHANGED <<mutex, wpc, my_slot, signalled>>
      BY <2>1, <2>2, Zenon DEF Signal
    <3>3. UNCHANGED Abstract!vars
      BY <3>2 DEF Abstract!vars, AbsMutex, AbsState
    <3>4. QED
      BY <3>1, <3>3, Zenon
  <2>3. ASSUME NEW s \in Pending, Signal({s}) PROVE Abstract!NotifyOne
    <3>1. PICK c \in Abstract!Candidates :
            \A u \in Threads : u = c <=> InWait(u) /\ my_slot[u] = s
      BY <1>1, CandidatesArePending, Zenon
    <3>2. c \in Threads
      BY <1>1, CandidatesArePending, Zenon
    <3>3. {u \in Threads : InWait(u) /\ my_slot[u] \in {s}} = {c}
      BY <3>1, <3>2, Zenon
    <3>4. Abstract!Notify({u \in Threads : InWait(u) /\ my_slot[u] \in {s}})
      BY <2>1, <2>3, SignalNotifies, Zenon
    <3>5. Abstract!Notify({c})
      BY <3>3, <3>4, Zenon
    <3>6. QED
      BY <3>1, <3>5, Zenon DEF Abstract!NotifyOne
  <2>4. QED
    BY <1>1, <2>1, <2>2, <2>3, NotifyOneSignals, Zenon
<1>3. ASSUME NotifyAll(t) PROVE Abstract!NotifyAll
  <2>1. Signal(Pending) /\ UNCHANGED mutex
    BY <1>1, <1>3, NotifyAllSignals, Zenon DEF NotifyAll
  <2>2. {u \in Threads : InWait(u) /\ my_slot[u] \in Pending} = Abstract!Candidates
    BY <1>1, CandidatesArePending, WaiterHasItsSlot, Zenon DEF Pending
  <2>3. Abstract!Notify({u \in Threads : InWait(u) /\ my_slot[u] \in Pending})
    BY <2>1, SignalNotifies, Zenon
  <2>4. QED
    BY <2>2, <2>3, Zenon DEF Abstract!NotifyAll
<1>4. QED
  BY <1>2, <1>3, Zenon

(* The callers' lock and unlock are the abstract ones.                     *)
LEMMA LockImplements ==
  ASSUME CvIInv, NEW t \in Threads
  PROVE  (Lock(t) => Abstract!Lock(t)) /\ (Unlock(t) => Abstract!Unlock(t))
<1>1. AbsState[t] = Shown(wpc[t], my_slot[t] \in signalled)
  BY AbsStateIs, Zenon DEF CvIInv, SlotIInv, SlotTypes
<1>2. t # NoThread
  BY CondvarAssumption, Zenon
<1>3. ASSUME Lock(t) PROVE Abstract!Lock(t)
  <2>1. UNCHANGED <<wpc, my_slot, signalled>> /\ wpc[t] = "out" /\ mutex = NoThread /\ mutex' = t
    BY <1>3, Zenon DEF Lock, cvRest
  <2>2. QED
    BY <1>1, <1>2, <2>1 DEF Abstract!Lock, AbsMutex, AbsState, Shown
<1>4. ASSUME Unlock(t) PROVE Abstract!Unlock(t)
  <2>1. UNCHANGED <<wpc, my_slot, signalled>> /\ wpc[t] = "out" /\ mutex = t /\ mutex' = NoThread
    BY <1>4, Zenon DEF Unlock, cvRest
  <2>2. QED
    BY <1>1, <1>2, <2>1 DEF Abstract!Unlock, AbsMutex, AbsState, Shown
<1>5. QED
  BY <1>3, <1>4, Zenon

(* The claim of a slot is the abstract wait: from then on the mutex counts *)
(* as released.  Without a free slot nothing happens.                      *)
LEMMA WaitImplements ==
  ASSUME CvIInv, NEW t \in Threads, Wait(t)
  PROVE  Abstract!Wait(t) \/ (FreeSlots = {} /\ UNCHANGED Abstract!vars)
<1>1. mutex = t /\ mutex' = t /\ wpc[t] = "out" /\ t # NoThread
  BY CondvarAssumption, Zenon DEF Wait, WaitCall
<1>2. CASE FreeSlots = {}
  <2>1. UNCHANGED <<mutex, wpc, my_slot, signalled>>
    BY <1>2, Zenon DEF Wait, WaitCall
  <2>2. QED
    BY <1>2, <2>1 DEF Abstract!vars, AbsMutex, AbsState
<1>3. CASE FreeSlots # {}
  <2>1. PICK s \in Slots :
          /\ s \notin in_use
          /\ signalled' = signalled \ {s}
          /\ my_slot' = [my_slot EXCEPT ![t] = s]
          /\ wpc' = [wpc EXCEPT ![t] = "unlock"]
    BY <1>3, Zenon DEF Wait, WaitCall, Claim, IsLowest, FreeSlots, WaitGoto
  <2>2. /\ my_slot'[t] = s /\ wpc'[t] = "unlock" /\ wpc' \in [Threads -> WaitPcs]
        /\ \A u \in Threads \ {t} : my_slot'[u] = my_slot[u] /\ wpc'[u] = wpc[u]
    BY <2>1, Zenon DEF CvIInv, SlotIInv, SlotTypes, WaitPcs
  <2>3. \A u \in Threads \ {t} : InWait(u) => my_slot[u] # s
    BY <2>1, WaiterHasItsSlot, Zenon DEF CvIInv
  <2>4. AbsState = [u \in Threads |-> Shown(wpc[u], my_slot[u] \in signalled)]
    BY AbsStateIs, Zenon DEF CvIInv, SlotIInv, SlotTypes
  <2>5. AbsState' = [u \in Threads |-> Shown(wpc'[u], my_slot'[u] \in signalled')]
    BY <2>2, AbsStateIsNext, Zenon
  <2>6. AbsState'[t] = "waiting" /\ AbsState[t] = "out"
    BY <1>1, <2>1, <2>2, <2>4, <2>5 DEF Shown
  <2>7. \A u \in Threads \ {t} : AbsState'[u] = AbsState[u]
    BY <2>1, <2>2, <2>3, <2>4, <2>5 DEF Shown, InWait
  <2>8. AbsState' = [AbsState EXCEPT ![t] = "waiting"]
    BY <2>4, <2>5, <2>6, <2>7, Zenon
  <2>9. AbsMutex = t /\ AbsMutex' = NoThread
    BY <1>1, <2>2, Zenon DEF AbsMutex
  <2>10. QED
    BY <2>6, <2>8, <2>9, Zenon DEF Abstract!Wait
<1>4. QED
  BY <1>2, <1>3, Zenon

(* The later steps of a wait: its time-out, the lock and the release of a  *)
(* slot whose waiter was not notified are abstract steps, the others are   *)
(* not seen.                                                               *)
LEMMA WaitStepImplements ==
  ASSUME CvIInv, NEW t \in Threads, WaitStep(t)
  PROVE  \/ Abstract!Expire(t) \/ Abstract!Return(t) \/ Abstract!Leave(t)
         \/ UNCHANGED Abstract!vars
<1>1. UNCHANGED <<my_slot, signalled>> /\ InWait(t) /\ t # NoThread
  BY CondvarAssumption, Zenon
  DEF WaitStep, WaitUnlock, WaitTake, WaitTimeout, WaitRelock, WaitRelease, InWait
<1>2. PICK label \in WaitPcs : wpc' = [wpc EXCEPT ![t] = label]
  BY Zenon DEF WaitStep, WaitUnlock, WaitTake, WaitTimeout, WaitRelock, WaitRelease, WaitGoto, WaitPcs
<1>3. /\ wpc' \in [Threads -> WaitPcs] /\ wpc'[t] = label
      /\ \A u \in Threads \ {t} : wpc'[u] = wpc[u]
  BY <1>2, Zenon DEF CvIInv, SlotIInv, SlotTypes
<1>4. AbsState = [u \in Threads |-> Shown(wpc[u], my_slot[u] \in signalled)]
  BY AbsStateIs, Zenon DEF CvIInv, SlotIInv, SlotTypes
<1>5. AbsState' = [u \in Threads |-> Shown(wpc'[u], my_slot[u] \in signalled)]
  BY <1>1, <1>3, AbsStateIsNext, Zenon
<1>6. \A v : AbsState'[t] = v => AbsState' = [AbsState EXCEPT ![t] = v]
  BY <1>3, <1>4, <1>5, Zenon
<1>7. AbsState'[t] = AbsState[t] => AbsState' = AbsState
  BY <1>3, <1>4, <1>5, Zenon
<1>8. /\ AbsState[t] = Shown(wpc[t], my_slot[t] \in signalled)
      /\ AbsState'[t] = Shown(label, my_slot[t] \in signalled)
  BY <1>3, <1>4, <1>5, Zenon
<1>9. CASE WaitUnlock(t)
  <2>1. wpc[t] = "unlock" /\ label = "take" /\ mutex = t /\ mutex' = NoThread
    BY <1>3, <1>9, Zenon DEF WaitUnlock, WaitGoto, CvIInv, OwnersAreAwake, OwnerIsAThread, SlotIInv, SlotTypes
  <2>2. AbsState' = AbsState
    BY <1>7, <1>8, <2>1, Zenon DEF Shown
  <2>3. AbsMutex' = AbsMutex
    BY <1>1, <2>1, Zenon DEF AbsMutex
  <2>4. QED
    BY <2>2, <2>3, Zenon DEF Abstract!vars
<1>10. CASE WaitTake(t)
  <2>1. wpc[t] = "take" /\ label = "relock" /\ mutex' = mutex /\ my_slot[t] \in sem
    BY <1>3, <1>10, Zenon DEF WaitTake, WaitGoto, CvIInv, SlotIInv, SlotTypes
  <2>2. my_slot[t] \in signalled
    BY <1>1, <2>1, WaiterHasItsSlot, Zenon DEF CvIInv, SlotIInv, WakeupsAreExact, NoStaleWakeup
  <2>3. AbsState' = AbsState
    BY <1>7, <1>8, <2>1, <2>2, Zenon DEF Shown
  <2>4. mutex # t
    BY <2>1, Zenon DEF CvIInv, OwnersAreAwake, OwnerIsAThread
  <2>5. AbsMutex' = AbsMutex
    BY <1>3, <2>1, <2>4, Zenon DEF AbsMutex, CvIInv, OwnersAreAwake, OwnerIsAThread
  <2>6. QED
    BY <2>3, <2>5, Zenon DEF Abstract!vars
<1>11. CASE WaitTimeout(t)
  <2>1. wpc[t] = "take" /\ label = "relock" /\ mutex' = mutex /\ my_slot[t] \notin sem
    BY <1>3, <1>11, Zenon DEF WaitTimeout, WaitGoto, CvIInv, SlotIInv, SlotTypes
  <2>2. my_slot[t] \notin signalled
    BY <2>1, Zenon DEF CvIInv, SlotIInv, WakeupsAreExact, NoLostWakeup
  <2>3. AbsState[t] = "waiting" /\ AbsState' = [AbsState EXCEPT ![t] = "expired"]
    BY <1>6, <1>8, <2>1, <2>2, Zenon DEF Shown
  <2>4. mutex # t
    BY <2>1, Zenon DEF CvIInv, OwnersAreAwake, OwnerIsAThread
  <2>5. AbsMutex' = AbsMutex
    BY <1>3, <2>1, <2>4, Zenon DEF AbsMutex, CvIInv, OwnersAreAwake, OwnerIsAThread
  <2>6. QED
    BY <2>3, <2>5, Zenon DEF Abstract!Expire
<1>12. CASE WaitRelock(t)
  <2>1. wpc[t] = "relock" /\ label = "release" /\ mutex = NoThread /\ mutex' = t
    BY <1>3, <1>12, Zenon DEF WaitRelock, WaitGoto, CvIInv, SlotIInv, SlotTypes
  <2>2. AbsMutex = NoThread /\ AbsMutex' = t
    BY <1>1, <1>3, <2>1, Zenon DEF AbsMutex
  <2>3. /\ AbsState[t] = (IF my_slot[t] \in signalled THEN "notified" ELSE "expired")
        /\ AbsState'[t] = (IF my_slot[t] \in signalled THEN "out" ELSE "leaving")
    BY <1>8, <2>1, Zenon DEF Shown
  <2>4. AbsState' = [AbsState EXCEPT ![t] = IF @ = "notified" THEN "out" ELSE "leaving"]
    BY <1>6, <2>3, Zenon
  <2>5. QED
    BY <2>2, <2>3, <2>4, Zenon DEF Abstract!Return
<1>13. CASE WaitRelease(t)
  <2>1. wpc[t] = "release" /\ label = "out" /\ mutex' = mutex /\ mutex = t
    BY <1>3, <1>13, Zenon DEF WaitRelease, WaitGoto, CvIInv, OwnersAreAwake, OwnerIsAThread, SlotIInv, SlotTypes
  <2>2. AbsMutex' = AbsMutex
    BY <1>3, <2>1, Zenon DEF AbsMutex
  <2>3. /\ AbsState[t] = (IF my_slot[t] \in signalled THEN "out" ELSE "leaving")
        /\ AbsState'[t] = "out"
    BY <1>8, <2>1, Zenon DEF Shown
  <2>4. QED
    BY <1>6, <1>7, <2>2, <2>3, Zenon DEF Abstract!Leave, Abstract!vars
<1>14. QED
  BY <1>9, <1>10, <1>11, <1>12, <1>13, Zenon DEF WaitStep

(* osal_condvar_create makes an atomic condition variable, ...             *)
LEMMA AbstractInit == Init => Abstract!Init
<1> SUFFICES ASSUME Init PROVE Abstract!Init
  BY Zenon
<1>1. AbsState = [t \in Threads |-> "out"]
  BY Zenon DEF Init, CvInit, AbsState
<1>2. QED
  BY <1>1, Zenon DEF Init, CvInit, AbsMutex, Abstract!Init

(* ... and every step of a caller is a step of it or unseen.               *)
LEMMA AbstractStep ==
  ASSUME CvIInv, Next
  PROVE  Abstract!Next \/ UNCHANGED Abstract!vars
<1>1. PICK t \in Threads :
        Lock(t) \/ Unlock(t) \/ Wait(t) \/ NotifyOne(t) \/ NotifyAll(t) \/ WaitStep(t)
  BY Zenon DEF Next
<1>2. QED
  BY <1>1, LockImplements, WaitImplements, NotifyImplements, WaitStepImplements, Zenon
  DEF Abstract!Next

(* osal_condvar_wait, notify_one and notify_all implement the atomic       *)
(* condition variable: each call takes the step of the operation it is     *)
(* named after, and every other step is one of its steps or unseen.        *)
THEOREM CondvarRefines == Spec => ImplementsCondvar
<1>1. CvIInv /\ [Next]_cvVars => [Abstract!Next]_(Abstract!vars)
  <2> SUFFICES ASSUME CvIInv, [Next]_cvVars PROVE [Abstract!Next]_(Abstract!vars)
    BY Zenon
  <2>1. CASE UNCHANGED cvVars
    BY <2>1 DEF cvVars, Abstract!vars, AbsMutex, AbsState
  <2>2. QED
    BY <2>1, AbstractStep, Zenon
<1>2. CvIInv /\ [Next]_cvVars => [CallsAreOperations]_cvVars
  BY WaitImplements, NotifyImplements, Zenon DEF CallsAreOperations
<1>3. QED
  BY <1>1, <1>2, AbstractInit, CvInitHolds, CvStepHolds, PTL
  DEF Spec, ImplementsCondvar, Abstract!Spec

-----------------------------------------------------------------------------
(* The read-write lock.                                                    *)
RwTypes ==
  /\ reader_count \in Nat
  /\ writer_active \in BOOLEAN
  /\ rwPc \in [Threads -> {"idle"} \cup Kinds]
  /\ rwHeld \in [Threads -> {"nothing"} \cup Kinds]

(* A thread inside a lock call holds nothing yet, and a thread inside      *)
(* osal_condvar_wait is inside a lock call.                                *)
CallersHoldNothing ==
  \A t \in Threads :
    /\ rwPc[t] # "idle" => rwHeld[t] = "nothing"
    /\ InWait(t) => rwPc[t] # "idle"

RwIInv == RwTypes /\ CallersHoldNothing /\ Exclusion /\ WaitersHaveAReason /\ SlotIInv

-----------------------------------------------------------------------------
(* The readers can be counted.                                             *)
LEMMA HoldersFinite == \A kind : IsFiniteSet(Holders(kind))
<1> SUFFICES ASSUME NEW kind PROVE IsFiniteSet(Holders(kind))
  BY Zenon
<1>1. Holders(kind) \subseteq Threads
  BY Zenon DEF Holders
<1>2. QED
  BY <1>1, FS_Subset, CondvarAssumption, Zenon

(* osal_rwlock_create establishes the invariant.                           *)
LEMMA RwInitHolds == RwInit => RwIInv
<1> SUFFICES ASSUME RwInit PROVE RwIInv
  BY Zenon
<1>1. SlotIInv
  BY SlotInit, Zenon DEF RwInit
<1>2. RwTypes
  <2>1. writer_active \in BOOLEAN
    BY Zenon DEF RwInit
  <2>2. QED
    BY <2>1, Zenon DEF RwInit, RwTypes
<1>3. CallersHoldNothing /\ WaitersHaveAReason
  BY Zenon DEF RwInit, CvInit, CallersHoldNothing, WaitersHaveAReason, InWait
<1>4. Exclusion
  <2>1. Holders("read") = {} /\ Holders("write") = {} /\ reader_count = 0 /\ ~ writer_active
    BY Zenon DEF RwInit, Holders
  <2>2. QED
    BY <2>1, FS_EmptySet, Zenon DEF Exclusion
<1>5. QED
  BY <1>1, <1>2, <1>3, <1>4, Zenon DEF RwIInv

(* A thread that is let in: nobody writes, and for a writer nobody reads.  *)
LEMMA RwAcquireHolds ==
  ASSUME RwIInv, NEW t \in Threads, NEW kind \in Kinds,
         ~ MustWait(kind), Acquire(t, kind), rwHeld[t] = "nothing", ~ InWait(t)
  PROVE  RwIInv'
<1>1. /\ reader_count' = IF kind = "read" THEN reader_count + 1 ELSE reader_count
      /\ writer_active' = (writer_active \/ kind = "write")
      /\ rwHeld' = [rwHeld EXCEPT ![t] = kind]
      /\ rwPc' = [rwPc EXCEPT ![t] = "idle"]
      /\ UNCHANGED slotVars
  BY Zenon DEF Acquire, RwReturn, cvRest, slotVars
<1>2. SlotIInv'
  BY <1>1, SlotStutter, Zenon DEF RwIInv
<1>3. RwTypes'
  <2>1. writer_active' \in BOOLEAN
    BY <1>1, Zenon
  <2>2. QED
    BY <1>1, <2>1 DEF RwIInv, RwTypes, Kinds
<1>4. /\ \A u \in Threads : rwHeld'[u] = IF u = t THEN kind ELSE rwHeld[u]
      /\ \A u \in Threads : rwPc'[u] = IF u = t THEN "idle" ELSE rwPc[u]
      /\ \A u \in Threads : InWait(u)' <=> InWait(u)
  BY <1>1, Zenon DEF RwIInv, RwTypes, InWait, slotVars
<1>5. CallersHoldNothing'
  BY <1>4, Zenon DEF RwIInv, CallersHoldNothing
<1>6. ~ writer_active /\ Holders("write") = {}
  BY Zenon DEF MustWait, RwIInv, Exclusion
<1>7. Exclusion'
  <2>1. CASE kind = "read"
    <3>1. Holders("read")' = Holders("read") \cup {t} /\ t \notin Holders("read")
      BY <1>4, <2>1, Zenon DEF Holders
    <3>2. Cardinality(Holders("read")') = Cardinality(Holders("read")) + 1
      BY <3>1, HoldersFinite, FS_AddElement, Zenon
    <3>3. Holders("write")' = {}
      BY <1>4, <1>6, <2>1, Zenon DEF Holders
    <3>4. ~ writer_active'
      BY <1>1, <1>6, <2>1, Zenon
    <3>5. QED
      BY <1>1, <2>1, <3>2, <3>3, <3>4, Zenon DEF Exclusion, RwIInv
  <2>2. CASE kind = "write"
    <3>1. reader_count = 0 /\ Holders("read") = {}
      <4>1. reader_count = 0 /\ Cardinality(Holders("read")) = 0
        BY <2>2 DEF MustWait, RwIInv, RwTypes, Exclusion
      <4>2. QED
        BY <4>1, HoldersFinite, FS_EmptySet, Zenon
    <3>2. \A u \in Threads \ {t} : rwHeld'[u] = "nothing"
      BY <1>4, <1>6, <3>1, Zenon DEF Holders, RwIInv, RwTypes, Kinds
    <3>3. Holders("read")' = {} /\ Holders("write")' = {t}
      BY <1>4, <2>2, <3>2, Zenon DEF Holders
    <3>4. writer_active' /\ reader_count' = 0
      BY <1>1, <2>2, <3>1, Zenon
    <3>5. QED
      BY <3>2, <3>3, <3>4, FS_EmptySet, Zenon DEF Exclusion
  <2>3. QED
    BY <2>1, <2>2, Zenon DEF Kinds
<1>8. WaitersHaveAReason'
  <2>1. \A k : MustWait(k) => MustWait(k)'
    BY <1>1 DEF MustWait, RwIInv, RwTypes
  <2>2. QED
    BY <1>1, <1>4, <2>1, Zenon DEF WaitersHaveAReason, RwIInv, InWait, slotVars
<1>9. QED
  BY <1>2, <1>3, <1>5, <1>7, <1>8, Zenon DEF RwIInv

(* Steps that leave the lock's own state alone.                            *)
LEMMA SameLock ==
  ASSUME RwIInv, UNCHANGED <<reader_count, writer_active, rwHeld>>
  PROVE  Exclusion' /\ \A kind : MustWait(kind)' <=> MustWait(kind)
<1>1. \A kind : Holders(kind)' = Holders(kind)
  BY Zenon DEF Holders
<1>2. QED
  BY <1>1, Zenon DEF RwIInv, Exclusion, MustWait

(* A pass of the loop of read_lock or write_lock.                          *)
LEMMA AttemptHolds ==
  ASSUME RwIInv, NEW t \in Threads, NEW kind \in Kinds, NEW withTimeout \in BOOLEAN,
         Attempt(t, kind, withTimeout), rwHeld[t] = "nothing", ~ InWait(t)
  PROVE  RwIInv'
<1>1. CASE ~ MustWait(kind) /\ Acquire(t, kind)
  BY <1>1, RwAcquireHolds, Zenon
<1>2. CASE RwReturn(t) /\ UNCHANGED <<cvRest, reader_count, writer_active, rwHeld>>
  <2>1. UNCHANGED slotVars /\ rwPc' = [rwPc EXCEPT ![t] = "idle"]
    BY <1>2, Zenon DEF RwReturn, cvRest, slotVars
  <2>2. /\ \A u \in Threads : rwPc'[u] = IF u = t THEN "idle" ELSE rwPc[u]
        /\ \A u \in Threads : InWait(u)' <=> InWait(u)
    BY <2>1, Zenon DEF RwIInv, RwTypes, InWait, slotVars
  <2>3. RwTypes'
    <3>1. writer_active' \in BOOLEAN
      BY <1>2, Zenon DEF RwIInv, RwTypes
    <3>2. QED
      BY <1>2, <2>1, <3>1, Zenon DEF RwIInv, RwTypes
  <2>4. CallersHoldNothing'
    BY <1>2, <2>2, Zenon DEF RwIInv, CallersHoldNothing
  <2>5. WaitersHaveAReason'
    BY <1>2, <2>1, <2>2, SameLock, Zenon DEF RwIInv, WaitersHaveAReason, InWait, slotVars
  <2>6. QED
    BY <1>2, <2>1, <2>3, <2>4, <2>5, SameLock, SlotStutter, Zenon DEF RwIInv
<1>3. CASE /\ MustWait(kind)
           /\ WaitCall(t, withTimeout)
           /\ IF FreeSlots = {} THEN RwReturn(t)
                                ELSE mutex' = t /\ rwPc' = [rwPc EXCEPT ![t] = kind]
           /\ UNCHANGED <<reader_count, writer_active, rwHeld>>
  <2>1. SlotIInv'
    BY <1>3, SlotClaim, Zenon DEF RwIInv
  <2>2. Exclusion' /\ \A k : MustWait(k)' <=> MustWait(k)
    BY <1>3, SameLock, Zenon
  <2>3. PICK label \in {"idle", kind} : rwPc' = [rwPc EXCEPT ![t] = label]
    BY <1>3, Zenon DEF RwReturn
  <2>4. RwTypes'
    <3>1. writer_active' \in BOOLEAN
      BY <1>3, Zenon DEF RwIInv, RwTypes
    <3>2. QED
      BY <1>3, <2>3, <3>1, Zenon DEF RwIInv, RwTypes
  <2>5. \A u \in Threads : rwPc'[u] = IF u = t THEN label ELSE rwPc[u]
    BY <2>3, Zenon DEF RwIInv, RwTypes
  <2>6. CASE FreeSlots = {}
    <3>1. UNCHANGED <<wpc, my_slot, signalled>>
      BY <1>3, <2>6, Zenon DEF WaitCall
    <3>2. CallersHoldNothing'
      BY <1>3, <2>5, <3>1, Zenon DEF RwIInv, CallersHoldNothing, InWait
    <3>3. WaitersHaveAReason'
      BY <2>2, <2>5, <3>1, Zenon DEF RwIInv, WaitersHaveAReason, InWait
    <3>4. QED
      BY <2>1, <2>2, <2>4, <3>2, <3>3, Zenon DEF RwIInv
  <2>7. CASE FreeSlots # {}
    <3>1. PICK s \in Slots :
            /\ s \notin in_use
            /\ signalled' = signalled \ {s}
            /\ my_slot' = [my_slot EXCEPT ![t] = s]
            /\ wpc' = [wpc EXCEPT ![t] = "unlock"]
      BY <1>3, <2>7, Zenon DEF WaitCall, Claim, IsLowest, FreeSlots, WaitGoto
    <3>2. /\ \A u \in Threads : wpc'[u] = IF u = t THEN "unlock" ELSE wpc[u]
          /\ \A u \in Threads : my_slot'[u] = IF u = t THEN s ELSE my_slot[u]
      BY <3>1, Zenon DEF RwIInv, SlotIInv, SlotTypes
    <3>3. \A u \in Threads \ {t} : InWait(u) => my_slot[u] # s
      BY <3>1, WaiterHasItsSlot, Zenon DEF RwIInv
    <3>4. rwPc'[t] = kind /\ kind # "idle"
      BY <1>3, <2>7, Zenon DEF RwIInv, RwTypes, Kinds
    <3>5. CallersHoldNothing'
      BY <1>3, <2>5, <3>2, <3>4, Zenon DEF RwIInv, CallersHoldNothing, InWait
    <3>6. WaitersHaveAReason'
      BY <1>3, <2>2, <2>5, <3>1, <3>2, <3>3, <3>4 DEF RwIInv, WaitersHaveAReason, InWait
    <3>7. QED
      BY <2>1, <2>2, <2>4, <3>5, <3>6, Zenon DEF RwIInv
  <2>8. QED
    BY <2>6, <2>7, Zenon
<1>4. QED
  BY <1>1, <1>2, <1>3, Zenon DEF Attempt

-----------------------------------------------------------------------------
(* After a broadcast nobody waits unnotified.                              *)
LEMMA BroadcastReachesAll ==
  ASSUME RwIInv, osal_condvar_notify_all
  PROVE  /\ SlotIInv' /\ WaitersHaveAReason'
         /\ UNCHANGED wpc
<1>1. /\ SlotIInv' /\ UNCHANGED <<wpc, my_slot>>
      /\ \A u \in Threads : InWait(u) => my_slot[u] \in signalled'
  BY NotifyAllEffect, Zenon DEF RwIInv
<1>2. WaitersHaveAReason'
  BY <1>1, Zenon DEF WaitersHaveAReason, InWait
<1>3. QED
  BY <1>1, <1>2, Zenon

(* What every unlock leaves alone.                                         *)
LEMMA LetsGoHolds ==
  ASSUME RwIInv, NEW t \in Threads, Idle(t), LetsGo(t), UNCHANGED wpc,
         reader_count' \in Nat, writer_active' \in BOOLEAN
  PROVE  /\ RwTypes' /\ CallersHoldNothing'
         /\ \A u \in Threads : rwHeld'[u] = IF u = t THEN "nothing" ELSE rwHeld[u]
<1>1. rwHeld' = [rwHeld EXCEPT ![t] = "nothing"] /\ rwPc' = rwPc /\ rwPc[t] = "idle"
  BY Zenon DEF LetsGo, Idle
<1>2. \A u \in Threads : rwHeld'[u] = IF u = t THEN "nothing" ELSE rwHeld[u]
  BY <1>1, Zenon DEF RwIInv, RwTypes
<1>3. RwTypes'
  BY <1>1, Zenon DEF RwIInv, RwTypes
<1>4. CallersHoldNothing'
  BY <1>1, <1>2, Zenon DEF RwIInv, CallersHoldNothing, InWait
<1>5. QED
  BY <1>2, <1>3, <1>4, Zenon

(* The last reader broadcasts; while readers remain the writers that wait  *)
(* keep their reason.                                                      *)
LEMMA ReadUnlockHolds ==
  ASSUME RwIInv, NEW t \in Threads, ReadUnlock(t)
  PROVE  RwIInv'
<1>1. /\ Idle(t) /\ LetsGo(t) /\ UNCHANGED writer_active
      /\ reader_count' = IF reader_count = 0 THEN reader_count ELSE reader_count - 1
      /\ IF reader_count = 1 THEN osal_condvar_notify_all ELSE UNCHANGED cvRest
      /\ rwHeld[t] = "read" \/ (rwHeld[t] = "nothing" /\ reader_count = 0)
  BY Zenon DEF ReadUnlock, osal_rwlock_read_unlock
<1>2. reader_count' \in Nat /\ writer_active' \in BOOLEAN
  <2>1. writer_active' \in BOOLEAN
    BY <1>1, Zenon DEF RwIInv, RwTypes
  <2>2. QED
    BY <1>1, <2>1 DEF RwIInv, RwTypes
<1>3. UNCHANGED wpc
  BY <1>1, BroadcastReachesAll, Zenon DEF cvRest
<1>4. /\ RwTypes' /\ CallersHoldNothing'
      /\ \A u \in Threads : rwHeld'[u] = IF u = t THEN "nothing" ELSE rwHeld[u]
  BY <1>1, <1>2, <1>3, LetsGoHolds, Zenon
<1>5. Exclusion'
  <2>1. Holders("write")' = Holders("write")
    BY <1>1, <1>4, Zenon DEF Holders
  <2>2. reader_count' = Cardinality(Holders("read")')
    <3>1. CASE rwHeld[t] = "read"
      <4>1. Holders("read")' = Holders("read") \ {t} /\ t \in Holders("read")
        BY <1>4, <3>1, Zenon DEF Holders
      <4>2. Cardinality(Holders("read")') = Cardinality(Holders("read")) - 1
        BY <4>1, HoldersFinite, FS_RemoveElement, Zenon
      <4>3. reader_count = Cardinality(Holders("read")) /\ reader_count # 0
        BY <4>1, HoldersFinite, FS_EmptySet, Zenon DEF RwIInv, Exclusion
      <4>4. QED
        BY <1>1, <4>2, <4>3, Zenon
    <3>2. CASE rwHeld[t] = "nothing" /\ reader_count = 0
      <4>1. Holders("read")' = Holders("read")
        BY <1>4, <3>2, Zenon DEF Holders
      <4>2. QED
        BY <1>1, <3>2, <4>1, Zenon DEF RwIInv, Exclusion
    <3>3. QED
      BY <1>1, <3>1, <3>2, Zenon
  <2>3. QED
    BY <1>1, <1>4, <2>1, <2>2, Zenon DEF RwIInv, Exclusion, Holders
<1>6. SlotIInv' /\ WaitersHaveAReason'
  <2>1. CASE reader_count = 1
    BY <1>1, <2>1, BroadcastReachesAll, Zenon
  <2>2. CASE reader_count # 1
    <3>1. UNCHANGED slotVars /\ UNCHANGED rwPc
      BY <1>1, <2>2, Zenon DEF cvRest, slotVars, LetsGo
    <3>2. \A k : MustWait(k)' <=> MustWait(k)
      BY <1>1, <2>2 DEF MustWait, RwIInv, RwTypes
    <3>3. WaitersHaveAReason'
      BY <3>1, <3>2, Zenon DEF RwIInv, WaitersHaveAReason, slotVars
    <3>4. QED
      BY <3>1, <3>3, SlotStutter, Zenon DEF RwIInv
  <2>3. QED
    BY <2>1, <2>2, Zenon
<1>7. QED
  BY <1>4, <1>5, <1>6, Zenon DEF RwIInv

(* The writer always broadcasts.                                           *)
LEMMA WriteUnlockHolds ==
  ASSUME RwIInv, NEW t \in Threads, WriteUnlock(t)
  PROVE  RwIInv'
<1>1. /\ Idle(t) /\ LetsGo(t) /\ UNCHANGED reader_count
      /\ ~ writer_active'
      /\ writer_active' \in BOOLEAN
      /\ IF writer_active THEN osal_condvar_notify_all ELSE UNCHANGED cvRest
      /\ rwHeld[t] = "write" \/ (rwHeld[t] = "nothing" /\ ~ writer_active)
  BY Zenon DEF WriteUnlock, osal_rwlock_write_unlock
<1>2. reader_count' \in Nat
  BY <1>1, Zenon DEF RwIInv, RwTypes
<1>3. UNCHANGED wpc
  BY <1>1, BroadcastReachesAll, Zenon DEF cvRest
<1>4. /\ RwTypes' /\ CallersHoldNothing'
      /\ \A u \in Threads : rwHeld'[u] = IF u = t THEN "nothing" ELSE rwHeld[u]
  BY <1>1, <1>2, <1>3, LetsGoHolds, Zenon
<1>5. Exclusion'
  <2>1. Holders("read")' = Holders("read")
    BY <1>1, <1>4, Zenon DEF Holders
  <2>2. Holders("write")' = {}
    BY <1>1, <1>4, Zenon DEF Holders, RwIInv, Exclusion
  <2>3. QED
    BY <1>1, <2>1, <2>2, Zenon DEF RwIInv, Exclusion
<1>6. SlotIInv' /\ WaitersHaveAReason'
  <2>1. CASE writer_active
    BY <1>1, <2>1, BroadcastReachesAll, Zenon
  <2>2. CASE ~ writer_active
    <3>1. UNCHANGED slotVars /\ UNCHANGED rwPc
      BY <1>1, <2>2, Zenon DEF cvRest, slotVars, LetsGo
    <3>2. \A k : MustWait(k)' <=> MustWait(k)
      BY <1>1, <2>2, Zenon DEF MustWait
    <3>3. WaitersHaveAReason'
      BY <3>1, <3>2, Zenon DEF RwIInv, WaitersHaveAReason, slotVars
    <3>4. QED
      BY <3>1, <3>3, SlotStutter, Zenon DEF RwIInv
  <2>3. QED
    BY <2>1, <2>2, Zenon
<1>7. QED
  BY <1>4, <1>5, <1>6, Zenon DEF RwIInv

(* A thread that moves on inside osal_condvar_wait touches no flag.        *)
LEMMA RwWaitHolds ==
  ASSUME RwIInv, NEW t \in Threads, RwWaitStep(t)
  PROVE  RwIInv'
<1>1. WaitStep(t) /\ UNCHANGED <<reader_count, writer_active, rwPc, rwHeld>>
  BY Zenon DEF RwWaitStep, rwVars
<1>2. SlotIInv'
  BY <1>1, SlotWaitStep, Zenon DEF RwIInv
<1>3. Exclusion' /\ \A k : MustWait(k)' <=> MustWait(k)
  BY <1>1, SameLock, Zenon
<1>4. /\ UNCHANGED <<my_slot, signalled>> /\ InWait(t)
      /\ \E label \in {"take", "relock", "release", "out"} : wpc' = [wpc EXCEPT ![t] = label]
  BY <1>1, Zenon
  DEF WaitStep, WaitUnlock, WaitTake, WaitTimeout, WaitRelock, WaitRelease, WaitGoto, InWait
<1>5. \A u \in Threads : wpc'[u] \in {"unlock", "take"} => wpc[u] \in {"unlock", "take"}
  BY <1>1, <1>4, Zenon
  DEF WaitStep, WaitUnlock, WaitTake, WaitTimeout, WaitRelock, WaitRelease, WaitGoto,
      RwIInv, SlotIInv, SlotTypes
<1>6. \A u \in Threads : InWait(u)' => InWait(u)
  BY <1>4, Zenon DEF InWait, RwIInv, SlotIInv, SlotTypes
<1>7. RwTypes'
  <2>1. writer_active' \in BOOLEAN
    BY <1>1, Zenon DEF RwIInv, RwTypes
  <2>2. QED
    BY <1>1, <2>1, Zenon DEF RwIInv, RwTypes
<1>8. CallersHoldNothing' /\ WaitersHaveAReason'
  BY <1>1, <1>3, <1>4, <1>5, <1>6, Zenon DEF RwIInv, CallersHoldNothing, WaitersHaveAReason
<1>9. QED
  BY <1>2, <1>3, <1>7, <1>8, Zenon DEF RwIInv

(* Every step of every caller preserves the invariant.                     *)
LEMMA RwStepHolds == RwIInv /\ (timed \in [Threads -> BOOLEAN]) /\ [RwNext]_rwLockVars => RwIInv'
<1> SUFFICES ASSUME RwIInv, timed \in [Threads -> BOOLEAN], [RwNext]_rwLockVars
             PROVE  RwIInv'
  BY Zenon
<1>1. CASE UNCHANGED rwLockVars
  <2>1. UNCHANGED slotVars /\ UNCHANGED <<reader_count, writer_active, rwPc, rwHeld>>
    BY <1>1, Zenon DEF rwLockVars, cvVars, rwVars, slotVars
  <2>2. Exclusion' /\ \A k : MustWait(k)' <=> MustWait(k)
    BY <2>1, SameLock, Zenon
  <2>3. RwTypes'
    BY <2>1, Zenon DEF RwIInv, RwTypes
  <2>4. CallersHoldNothing' /\ WaitersHaveAReason'
    BY <2>1, <2>2, Zenon DEF RwIInv, CallersHoldNothing, WaitersHaveAReason, InWait, slotVars
  <2>5. QED
    BY <2>1, <2>2, <2>3, <2>4, SlotStutter, Zenon DEF RwIInv
<1>2. ASSUME NEW t \in Threads, NEW kind \in Kinds, LockCall(t, kind) PROVE RwIInv'
  <2>1. rwHeld[t] = "nothing" /\ ~ InWait(t)
    BY <1>2, Zenon DEF LockCall, RwIInv, CallersHoldNothing
  <2>2. \E b \in BOOLEAN : Attempt(t, kind, b)
    BY <1>2, Zenon DEF LockCall
  <2>3. QED
    BY <2>1, <2>2, AttemptHolds, Zenon
<1>3. ASSUME NEW t \in Threads, RwRecheck(t) PROVE RwIInv'
  <2>1. rwHeld[t] = "nothing" /\ ~ InWait(t) /\ rwPc[t] \in Kinds
    BY <1>3, Zenon DEF RwRecheck, RwIInv, RwTypes, CallersHoldNothing, InWait
  <2>2. Attempt(t, rwPc[t], timed[t]) /\ timed[t] \in BOOLEAN
    BY <1>3, Zenon DEF RwRecheck
  <2>3. QED
    BY <2>1, <2>2, AttemptHolds, Zenon
<1>4. QED
  BY <1>1, <1>2, <1>3, ReadUnlockHolds, WriteUnlockHolds, RwWaitHolds, Zenon
  DEF RwNext, osal_rwlock_read_lock, osal_rwlock_write_lock, Kinds

(* Who owns the guard, and whether a wait is timed.                        *)
RwRest == OwnerIsAThread /\ TimedIsBoolean

(* A pass of the loop leaves the guard free or with its caller.            *)
LEMMA AttemptRest ==
  ASSUME RwRest, NEW t \in Threads, NEW kind, NEW b \in BOOLEAN, Attempt(t, kind, b)
  PROVE  RwRest'
<1>1. mutex' \in {NoThread, t}
  BY Zenon DEF Attempt, Acquire, RwReturn
<1>2. (UNCHANGED cvRest) \/ WaitCall(t, b)
  BY Zenon DEF Attempt, Acquire
<1>3. TimedIsBoolean'
  <2>1. CASE UNCHANGED cvRest
    BY <2>1, Zenon DEF cvRest, RwRest, TimedIsBoolean
  <2>2. CASE WaitCall(t, b)
    BY <2>2, TimedWaitCall, Zenon DEF RwRest
  <2>3. QED
    BY <1>2, <2>1, <2>2, Zenon
<1>4. QED
  BY <1>1, <1>3, Zenon DEF RwRest, OwnerIsAThread

(* Every step of every caller keeps both.                                  *)
LEMMA RwRestHolds == RwRest /\ [RwNext]_rwLockVars => RwRest'
<1> SUFFICES ASSUME RwRest, [RwNext]_rwLockVars PROVE RwRest'
  BY Zenon
<1>1. CASE UNCHANGED rwLockVars
  BY <1>1, Zenon DEF rwLockVars, cvVars, RwRest, OwnerIsAThread, TimedIsBoolean
<1>2. ASSUME NEW t \in Threads, NEW kind, LockCall(t, kind) PROVE RwRest'
  BY <1>2, AttemptRest, Zenon DEF LockCall
<1>3. ASSUME NEW t \in Threads, RwRecheck(t) PROVE RwRest'
  <2>1. timed[t] \in BOOLEAN /\ Attempt(t, rwPc[t], timed[t])
    BY <1>3, Zenon DEF RwRecheck, RwRest, TimedIsBoolean
  <2>2. QED
    BY <2>1, AttemptRest, Zenon
<1>4. ASSUME NEW t \in Threads, ReadUnlock(t) \/ WriteUnlock(t) PROVE RwRest'
  <2>1. UNCHANGED mutex /\ (osal_condvar_notify_all \/ UNCHANGED cvRest)
    BY <1>4, Zenon DEF ReadUnlock, WriteUnlock, osal_rwlock_read_unlock, osal_rwlock_write_unlock, LetsGo
  <2>2. timed' = timed
    BY <2>1, TimedKept, Zenon
  <2>3. QED
    BY <2>1, <2>2, Zenon DEF RwRest, OwnerIsAThread, TimedIsBoolean
<1>5. ASSUME NEW t \in Threads, RwWaitStep(t) PROVE RwRest'
  <2>1. timed' = timed /\ OwnerIsAThread'
    BY <1>5, TimedKept, OwnerWaitStep, Zenon DEF RwWaitStep, RwRest
  <2>2. QED
    BY <2>1, Zenon DEF RwRest, TimedIsBoolean
<1>6. CASE RwNext
  <2>1. PICK t \in Threads :
          \/ LockCall(t, "read") \/ LockCall(t, "write") \/ RwRecheck(t)
          \/ ReadUnlock(t) \/ WriteUnlock(t) \/ RwWaitStep(t)
    BY <1>6, Zenon DEF RwNext, osal_rwlock_read_lock, osal_rwlock_write_lock
  <2>2. QED
    BY <1>2, <1>3, <1>4, <1>5, <2>1, Zenon
<1>7. QED
  BY <1>1, <1>6, Zenon

(* The invariant is what the runs check.                                   *)
LEMMA RwIInvSuffices == RwIInv /\ RwRest => ExclusionWithReason /\ SlotsAndWakeupsAreExact
<1> SUFFICES ASSUME RwIInv, RwRest PROVE ExclusionWithReason /\ SlotsAndWakeupsAreExact
  BY Zenon
<1>1. SlotsAndWakeupsAreExact
  BY SlotsAreExact, Zenon DEF RwIInv, RwRest
<1>2. reader_count \in 0 .. Cardinality(Threads)
  <2>1. Holders("read") \subseteq Threads
    BY Zenon DEF Holders
  <2>2. Cardinality(Holders("read")) <= Cardinality(Threads)
    BY <2>1, CondvarAssumption, FS_Subset, Zenon
  <2>3. Cardinality(Threads) \in Nat
    BY CondvarAssumption, FS_CardinalityType, Zenon
  <2>4. QED
    BY <2>2, <2>3 DEF RwIInv, RwTypes, Exclusion
<1>3. RwTypeOK
  BY <1>1, <1>2, Zenon DEF SlotsAndWakeupsAreExact, RwIInv, RwTypes, RwTypeOK
<1>4. QED
  BY <1>1, <1>3, Zenon DEF RwIInv, ExclusionWithReason

(* A writer is alone, reader_count and writer_active are exactly the       *)
(* holders, and every change that could let a waiter in was broadcast to   *)
(* it: read_lock and write_lock leave nobody asleep beside a lock it could *)
(* take, unless it has been notified.                                      *)
THEOREM RwLockIsSafe == RwSpec => []ExclusionWithReason
<1>1. RwInit => RwIInv /\ RwRest
  BY RwInitHolds, TimedInit, Zenon DEF RwInit, RwRest
<1>2. RwIInv /\ RwRest /\ [RwNext]_rwLockVars => RwIInv'
  BY RwStepHolds, Zenon DEF RwRest, TimedIsBoolean
<1>3. QED
  BY <1>1, <1>2, RwRestHolds, RwIInvSuffices, PTL DEF RwSpec

-----------------------------------------------------------------------------
(* The two users of the condition variable together, as they are checked:  *)
(* every behaviour is one of arbitrary callers or one of the lock.         *)
PartIInv ==
  /\ part \in {"callers", "rwlock"}
  /\ part = "callers" => CvIInv /\ TimedIsBoolean
  /\ part = "rwlock" => RwIInv /\ RwRest

(* It holds of the objects as they are created, and every step keeps it.   *)
LEMMA PartInit == MCInit => PartIInv
  BY CvInitHolds, RwInitHolds, TimedInit, Zenon DEF MCInit, RwInit, PartIInv, RwRest

(* Whichever part a behaviour is about, its steps keep that part's         *)
(* invariant.                                                              *)
LEMMA PartStep == PartIInv /\ [MCNext]_mcVars => PartIInv'
<1> SUFFICES ASSUME PartIInv, [MCNext]_mcVars PROVE PartIInv'
  BY Zenon
<1>1. UNCHANGED part
  BY Zenon DEF MCNext, mcVars
<1>2. CASE part = "callers"
  <2>1. [Next]_cvVars
    BY <1>2, Zenon DEF MCNext, mcVars, rwLockVars
  <2>2. QED
    BY <1>1, <1>2, <2>1, CvStepHolds, TimedStepHolds, Zenon DEF PartIInv
<1>3. CASE part = "rwlock"
  <2>1. [RwNext]_rwLockVars
    BY <1>3, Zenon DEF MCNext, mcVars
  <2>2. QED
    BY <1>1, <1>3, <2>1, RwStepHolds, RwRestHolds, Zenon DEF PartIInv, RwRest, TimedIsBoolean
<1>4. QED
  BY <1>2, <1>3, Zenon DEF PartIInv

(* Notifications are exact whoever waits, also when the waiters are those  *)
(* of the read-write lock, which lock the guard and claim a slot in one    *)
(* section and re-examine the lock whenever osal_condvar_wait returns.     *)
THEOREM WakeupsAreExactForAll == MCSpec => []SlotsAndWakeupsAreExact
<1>1. PartIInv => SlotsAndWakeupsAreExact
  BY SlotsAreExact, RwIInvSuffices, Zenon DEF PartIInv, CvIInv, OwnersAreAwake
<1>2. QED
  BY <1>1, PartInit, PartStep, PTL DEF MCSpec
=============================================================================
