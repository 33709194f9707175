------------------------------- MODULE RwLock -------------------------------
(***************************************************************************)
(* The emulated read-write lock of emulated_rwlock.inl over the emulated   *)
(* condition variable: reader_count and writer_active behind the mutex     *)
(* `guard` (the condvar's mutex), and one condvar on which blocked readers *)
(* and writers wait.  Every section under the guard is one step, up to     *)
(* the point where osal_condvar_wait gives the guard up.                   *)
(*                                                                         *)
(* Callers release what they hold; a thread holds the lock at most once.   *)
(***************************************************************************)
EXTENDS Condvar

VARIABLES reader_count,
          writer_active,
          rwPc,    \* the lock call each thread is blocked in
          rwHeld   \* what each caller holds

rwVars == <<reader_count, writer_active, rwPc, rwHeld>>
rwLockVars == <<cvVars, rwVars>>

Kinds == {"read", "write"}

RwTypeOK ==
  /\ CvTypeOK
  /\ reader_count \in 0 .. Cardinality(Threads)
  /\ writer_active \in BOOLEAN
  /\ rwPc \in [Threads -> {"idle"} \cup Kinds]
  /\ rwHeld \in [Threads -> {"nothing"} \cup Kinds]

RwInit ==
  /\ CvInit
  /\ reader_count = 0
  /\ writer_active = FALSE
  /\ rwPc = [t \in Threads |-> "idle"]
  /\ rwHeld = [t \in Threads |-> "nothing"]

(* The conditions of the while loops in read_lock and write_lock.          *)
MustWait(kind) == writer_active \/ (kind = "write" /\ reader_count > 0)

(* The call returns and the guard is unlocked.                             *)
RwReturn(t) ==
  /\ mutex' = NoThread
  /\ rwPc' = [rwPc EXCEPT ![t] = "idle"]

Acquire(t, kind) ==
  /\ reader_count' = IF kind = "read" THEN reader_count + 1 ELSE reader_count
  /\ writer_active' = (writer_active \/ kind = "write")
  /\ rwHeld' = [rwHeld EXCEPT ![t] = kind]
  /\ RwReturn(t)
  /\ UNCHANGED cvRest

(* One pass of the loop by a thread that has the guard: the lock is taken, *)
(* the deadline of a timed call has passed, or the thread waits on the     *)
(* condvar, which fails when the condvar has no free slot.                 *)
Attempt(t, kind, withTimeout) ==
  \/ /\ ~MustWait(kind)
     /\ Acquire(t, kind)
  \/ /\ MustWait(kind) /\ withTimeout
     /\ RwReturn(t)
     /\ UNCHANGED <<cvRest, reader_count, writer_active, rwHeld>>
  \/ /\ MustWait(kind)
     /\ WaitCall(t, withTimeout)
     /\ IF FreeSlots = {}
          THEN RwReturn(t)
          ELSE mutex' = t /\ rwPc' = [rwPc EXCEPT ![t] = kind]
     /\ UNCHANGED <<reader_count, writer_active, rwHeld>>

(* osal_rwlock_read_lock and osal_rwlock_write_lock, from the lock of the  *)
(* guard.                                                                  *)
LockCall(t, kind) ==
  /\ rwPc[t] = "idle" /\ rwHeld[t] = "nothing"
  /\ mutex = NoThread
  /\ \E withTimeout \in BOOLEAN : Attempt(t, kind, withTimeout)

osal_rwlock_read_lock(t) == LockCall(t, "read")
osal_rwlock_write_lock(t) == LockCall(t, "write")

(* Variant: a wait that was notified takes the lock without looking again. *)
RwRecheck_If(t) ==
  /\ rwPc[t] # "idle" /\ wpc[t] = "out"
  /\ mutex = t
  /\ Acquire(t, rwPc[t])

(* osal_condvar_wait has returned, notified or timed out, with the guard.  *)
RwRecheck(t) ==
  /\ rwPc[t] # "idle" /\ wpc[t] = "out"
  /\ mutex = t
  /\ Attempt(t, rwPc[t], timed[t])

-----------------------------------------------------------------------------
Idle(t) == rwPc[t] = "idle" /\ mutex = NoThread
LetsGo(t) == rwHeld' = [rwHeld EXCEPT ![t] = "nothing"] /\ UNCHANGED <<mutex, rwPc>>

(* Variant: the last reader leaves without a broadcast.                    *)
osal_rwlock_read_unlock_Silent(t) ==
  /\ Idle(t)
  /\ IF reader_count = 0
       THEN UNCHANGED reader_count
       ELSE reader_count' = reader_count - 1
  /\ LetsGo(t)
  /\ UNCHANGED <<cvRest, writer_active>>

(* The last reader broadcasts; without readers the call is refused.        *)
osal_rwlock_read_unlock(t) ==
  /\ Idle(t)
  /\ IF reader_count = 0
       THEN UNCHANGED reader_count
       ELSE reader_count' = reader_count - 1
  /\ IF reader_count = 1 THEN osal_condvar_notify_all ELSE UNCHANGED cvRest
  /\ LetsGo(t)
  /\ UNCHANGED writer_active

(* Variant: write_unlock wakes one waiter only.                            *)
osal_rwlock_write_unlock_One(t) ==
  /\ Idle(t)
  /\ writer_active' = FALSE
  /\ IF writer_active THEN osal_condvar_notify_one ELSE UNCHANGED cvRest
  /\ LetsGo(t)
  /\ UNCHANGED reader_count

(* A broadcast; without a writer the call is refused.                      *)
osal_rwlock_write_unlock(t) ==
  /\ Idle(t)
  /\ writer_active' = FALSE
  /\ IF writer_active THEN osal_condvar_notify_all ELSE UNCHANGED cvRest
  /\ LetsGo(t)
  /\ UNCHANGED reader_count

(* Callers unlock what they hold, or are refused because nobody holds it.  *)
ReadUnlock(t) ==
  /\ rwHeld[t] = "read" \/ (rwHeld[t] = "nothing" /\ reader_count = 0)
  /\ osal_rwlock_read_unlock(t)

WriteUnlock(t) ==
  /\ rwHeld[t] = "write" \/ (rwHeld[t] = "nothing" /\ ~writer_active)
  /\ osal_rwlock_write_unlock(t)

RwWaitStep(t) == WaitStep(t) /\ UNCHANGED rwVars

RwNext == \E t \in Threads :
  \/ osal_rwlock_read_lock(t)
  \/ osal_rwlock_write_lock(t)
  \/ RwRecheck(t)
  \/ ReadUnlock(t)
  \/ WriteUnlock(t)
  \/ RwWaitStep(t)

RwSpec == RwInit /\ [][RwNext]_rwLockVars

(* A thread inside a call runs on when it is not blocked.                  *)
RwFairSpec == RwSpec /\ \A t \in Threads : WF_rwLockVars(RwRecheck(t) \/ RwWaitStep(t))

-----------------------------------------------------------------------------
Holders(kind) == {t \in Threads : rwHeld[t] = kind}

(* A writer is alone, and the counters the code decides by are exactly the *)
(* holders.                                                                *)
Exclusion ==
  /\ reader_count = Cardinality(Holders("read"))
  /\ writer_active <=> Holders("write") # {}
  /\ \A t \in Holders("write") : \A u \in Threads \ {t} : rwHeld[u] = "nothing"

(* A thread that waits in read_lock or write_lock and has not been         *)
(* notified has a reason to wait: every change that could let it in was    *)
(* broadcast to it, although it waits on one condvar with waiters of the   *)
(* other kind.                                                             *)
WaitersHaveAReason ==
  \A t \in Threads :
    rwPc[t] # "idle" /\ wpc[t] \in {"unlock", "take"} /\ my_slot[t] \notin signalled
      => MustWait(rwPc[t])

(* Readers and writers exclude each other, the counters are the holders,   *)
(* and a waiter that has not been notified still has a reason to wait.     *)
ExclusionWithReason == RwTypeOK /\ Exclusion /\ WaitersHaveAReason

(* Nobody stays inside read_lock or write_lock while the lock stays free.  *)
NoWaitOnAFreeLock ==
  \A t \in Threads :
    ~ <>[](rwPc[t] # "idle" /\ ~writer_active /\ reader_count = 0)
=============================================================================
