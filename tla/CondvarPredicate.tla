-------------------------- MODULE CondvarPredicate --------------------------
(***************************************************************************)
(* The predicate waits of condvar.hpp, wait(m, pred) and wait_for(m,       *)
(* timeout, pred), over the emulated condition variable, in the pattern    *)
(* its documentation gives: producers change the state under the mutex,    *)
(* unlock it and then call notify_one; consumers wait until there is data. *)
(***************************************************************************)
EXTENDS Condvar

CONSTANT MaxData  \* bound on the items produced and not consumed

ASSUME MaxDataAssumption == MaxData \in Nat \ {0}

VARIABLES data,  \* items ready; the consumers' predicate is data > 0
          user     \* what each thread is doing

predicateVars == <<cvVars, data, user>>

PredInit == CvInit /\ data = 0 /\ user = [t \in Threads |-> "idle"]

PredGoto(t, label) == user' = [user EXCEPT ![t] = label]

(* The locals of osal_condvar_wait are dead once the loop has ended.       *)
LocalsDie(t) ==
  /\ my_slot' = [my_slot EXCEPT ![t] = 0]
  /\ timed' = [timed EXCEPT ![t] = FALSE]
  /\ r' = [r EXCEPT ![t] = "ok"]

(* The wait is over, by consuming an item or by giving up, and the caller  *)
(* unlocks the mutex.                                                      *)
Leave(t, items) ==
  /\ data' = data - items
  /\ mutex' = NoThread
  /\ PredGoto(t, "idle")
  /\ LocalsDie(t)
  /\ UNCHANGED <<in_use, signalled, sem, n_waiters, wpc>>

(* The caller holds the mutex and the predicate is false: another          *)
(* osal_condvar_wait.                                                      *)
WaitMore(t, kind) ==
  /\ WaitCall(t, kind = "wait_for")
  /\ mutex' = t
  /\ PredGoto(t, kind)
  /\ UNCHANGED data

(* A consumer locks the mutex and calls wait or wait_for.                  *)
Consume(t) ==
  /\ user[t] = "idle"
  /\ mutex = NoThread
  /\ IF data > 0
       THEN Leave(t, 1)
       ELSE \E kind \in {"wait", "wait_for"} : WaitMore(t, kind)

(* Variant: wait_for returns false after a timeout without looking again.  *)
PredRecheck_TimeoutIsFinal(t) ==
  /\ user[t] \in {"wait", "wait_for"}
  /\ wpc[t] = "out"
  /\ mutex = t
  /\ \/ user[t] = "wait_for" /\ r[t] = "timeout" /\ Leave(t, 0)
     \/ ~(user[t] = "wait_for" /\ r[t] = "timeout") /\ data > 0 /\ Leave(t, 1)
     \/ data = 0 /\ user[t] = "wait_for" /\ r[t] # "timeout" /\ Leave(t, 0)
     \/ data = 0 /\ (user[t] = "wait" \/ r[t] = "ok") /\ WaitMore(t, user[t])

(* osal_condvar_wait has returned and the loop looks at the predicate.     *)
(* wait ignores the result.  wait_for gives up when the call did not       *)
(* return ok or when its deadline has passed, and then returns pred().     *)
PredRecheck(t) ==
  /\ user[t] \in {"wait", "wait_for"}
  /\ wpc[t] = "out"
  /\ mutex = t
  /\ \/ data > 0 /\ Leave(t, 1)
     \/ data = 0 /\ user[t] = "wait_for" /\ Leave(t, 0)
     \/ data = 0 /\ (user[t] = "wait" \/ r[t] = "ok") /\ WaitMore(t, user[t])

(* A producer's section under the mutex ...                                *)
Produce(t) ==
  /\ user[t] = "idle"
  /\ mutex = NoThread
  /\ data < MaxData
  /\ data' = data + 1
  /\ PredGoto(t, "notify")
  /\ UNCHANGED cvVars

(* ... and its notification, after the unlock.                             *)
Notify(t) ==
  /\ user[t] = "notify"
  /\ osal_condvar_notify_one
  /\ PredGoto(t, "idle")
  /\ UNCHANGED <<mutex, data>>

PredWaitStep(t) == WaitStep(t) /\ UNCHANGED <<data, user>>

PredNext == \E t \in Threads :
  Consume(t) \/ PredRecheck(t) \/ Produce(t) \/ Notify(t) \/ PredWaitStep(t)

PredSpec == PredInit /\ [][PredNext]_predicateVars

(* A thread inside a call runs on when it is not blocked.                  *)
PredFairSpec == PredSpec /\ \A t \in Threads : WF_predicateVars(PredRecheck(t) \/ Notify(t) \/ PredWaitStep(t))

-----------------------------------------------------------------------------
(* A thread with nothing to do until another one acts.                     *)
AtRest(t) == user[t] = "idle" \/ (wpc[t] = "take" /\ my_slot[t] \notin sem)

(* When every call has come to rest, no consumer is left blocked beside an *)
(* item: a notification taken by a consumer that timed out, or by one that *)
(* finds the item gone, does not strand another.                           *)
NoStrandedConsumer ==
  (\A t \in Threads : AtRest(t)) /\ data > 0 => \A t \in Threads : user[t] = "idle"

(* condvar.hpp: "The mutex is atomically released during the wait": no     *)
(* consumer keeps the mutex for ever while it waits for its predicate.     *)
MutexIsReleased == []<>(mutex = NoThread)
=============================================================================
