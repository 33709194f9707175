--------------------------- MODULE CondvarClient ---------------------------
(***************************************************************************)
(* Arbitrary callers of the emulated condition variable: every thread may  *)
(* lock and unlock the mutex, wait with or without a timeout while it      *)
(* holds it, and notify with or without holding it (condvar.hpp).          *)
(***************************************************************************)
EXTENDS Condvar

Init == CvInit

(* osal_mutex_lock and osal_mutex_unlock of the callers' mutex.            *)
Lock(t) ==
  /\ wpc[t] = "out"
  /\ mutex = NoThread
  /\ mutex' = t
  /\ UNCHANGED cvRest

Unlock(t) ==
  /\ wpc[t] = "out"
  /\ mutex = t
  /\ mutex' = NoThread
  /\ UNCHANGED cvRest

(* condvar::wait and condvar::wait_for.                                    *)
Wait(t) ==
  /\ mutex = t
  /\ \E withTimeout \in BOOLEAN : WaitCall(t, withTimeout)
  /\ UNCHANGED mutex

(* condvar::notify_one and condvar::notify_all.                            *)
NotifyOne(t) == wpc[t] = "out" /\ osal_condvar_notify_one /\ UNCHANGED mutex
NotifyAll(t) == wpc[t] = "out" /\ osal_condvar_notify_all /\ UNCHANGED mutex

Next == \E t \in Threads :
  \/ Lock(t) \/ Unlock(t) \/ Wait(t) \/ NotifyOne(t) \/ NotifyAll(t)
  \/ WaitStep(t)

Spec == Init /\ [][Next]_cvVars

(* A thread that is not blocked runs on, and a semaphore that holds its    *)
(* token releases the thread that is blocked on it.                        *)
FairSpec == Spec /\ \A t \in Threads : WF_cvVars(WaitUnlock(t)) /\ WF_cvVars(WaitTake(t))

-----------------------------------------------------------------------------
(* A notified waiter leaves its semaphore.                                 *)
NotifiedWakes ==
  \A t \in Threads :
    (wpc[t] = "take" /\ my_slot[t] \in signalled) ~> wpc[t] # "take"

-----------------------------------------------------------------------------
(* Claiming the slot is the moment a thread waits, although it still owns  *)
(* the mutex until it has unlocked it.                                     *)
AbsMutex == IF mutex # NoThread /\ wpc[mutex] = "unlock" THEN NoThread ELSE mutex

AbsState ==
  [t \in Threads |->
     CASE wpc[t] = "out" -> "out"
       [] wpc[t] = "release" /\ my_slot[t] \in signalled -> "out"
       [] wpc[t] = "release" /\ my_slot[t] \notin signalled -> "leaving"
       [] wpc[t] \in {"unlock", "take", "relock"} /\ my_slot[t] \in signalled -> "notified"
       [] wpc[t] \in {"unlock", "take"} /\ my_slot[t] \notin signalled -> "waiting"
       [] wpc[t] = "relock" /\ my_slot[t] \notin signalled -> "expired"]

Abstract == INSTANCE AbstractCondvar WITH mutex <- AbsMutex, state <- AbsState

(* Each call implements the operation it is named after: the claim is the  *)
(* abstract wait, notify_one reaches exactly one candidate when there is   *)
(* one, and notify_all reaches every candidate.                            *)
CallsAreOperations ==
  \A t \in Threads :
    /\ Wait(t) => Abstract!Wait(t) \/ FreeSlots = {}
    /\ NotifyOne(t) => Abstract!NotifyOne \/ Abstract!Candidates = {}
    /\ NotifyAll(t) => Abstract!NotifyAll

(* The five steps of osal_condvar_wait and the guarded sections of notify  *)
(* implement the atomic condition variable of AbstractCondvar.             *)
ImplementsCondvar == Abstract!Spec /\ [][CallsAreOperations]_cvVars
=============================================================================
