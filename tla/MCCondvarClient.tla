-------------------------- MODULE MCCondvarClient --------------------------
(* Three threads and two slots, so that a waiter can find no slot: either  *)
(* arbitrary callers of a condition variable, or the read-write lock.      *)
EXTENDS CondvarClient, RwLock

CONSTANTS t1, t2, t3

MCThreads == {t1, t2, t3}

VARIABLE part

mcVars == <<part, rwLockVars>>

MCInit == part \in {"callers", "rwlock"} /\ Init /\ RwInit

MCNext ==
  /\ \/ part = "callers" /\ Next /\ UNCHANGED rwVars
     \/ part = "rwlock" /\ RwNext
  /\ UNCHANGED part

(* The fairness of FairSpec and of RwFairSpec.                             *)
MCSpec ==
  /\ MCInit /\ [][MCNext]_mcVars
  /\ \A t \in Threads :
       /\ WF_mcVars(part = "callers" /\ WaitUnlock(t) /\ UNCHANGED <<part, rwVars>>)
       /\ WF_mcVars(part = "callers" /\ WaitTake(t) /\ UNCHANGED <<part, rwVars>>)
       /\ WF_mcVars(part = "rwlock" /\ (RwRecheck(t) \/ RwWaitStep(t)) /\ UNCHANGED part)
-----------------------------------------------------------------------------
(* The calls of osal_condvar_wait, notify_one and notify_all implement the *)
(* atomic condition variable, each the operation it is named after.        *)
CallersImplementCondvar ==
  /\ Abstract!Init
  /\ [][part = "callers" => /\ Abstract!Next \/ UNCHANGED Abstract!vars
                            /\ CallsAreOperations]_mcVars

(* A notified waiter leaves its semaphore, and nobody stays inside         *)
(* read_lock or write_lock while the lock stays free.                      *)
WaitersAreServed == NotifiedWakes /\ NoWaitOnAFreeLock
=============================================================================
