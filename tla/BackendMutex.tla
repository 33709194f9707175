---------------------------- MODULE BackendMutex ----------------------------
(***************************************************************************)
(* osal_mutex_lock, try_lock and unlock of the fifteen backends, called    *)
(* through the checked operations of osal::mutex: one state machine, and   *)
(* for each backend the record of what its source asks of the kernel and   *)
(* how it maps the answers.  Creation and destruction are life cycles of   *)
(* BackendObjects.                                                         *)
(***************************************************************************)
EXTENDS Integers, Capabilities

CONSTANTS MtxTasks,
          MaxDepth,      \* bound on nested locks of one task
          NoTask

ASSUME MtxAssumption == MaxDepth \in Nat \ {0} /\ NoTask \notin MtxTasks

VARIABLES mtxOs,        \* the backend this build is for
          mtxRelock,    \* what the kernel makes of a lock by the owner
          mtxRobust,    \* mutex_config::robustness
          mtxOwner,
          mtxDepth,
          mtxHealth,    \* what a robust mutex knows of the data it protects
          mtxPc,
          mtxMode,      \* the timeout of the lock in progress
          mtxHeld,      \* the locks the caller has been told it holds
          mtxRes        \* what the last step returned to its caller, if it returned

mtxVars == <<mtxOs, mtxRelock, mtxRobust, mtxOwner, mtxDepth, mtxHealth,
             mtxPc, mtxMode, mtxHeld, mtxRes>>

MtxModes == {"forever", "timed", "no_wait"}

(* recursive, normal: what a lock by the owner may do, by the type that    *)
(* mutex_config asks for: it nests ("counts"), it nests but the caller is  *)
(* told otherwise ("unreported"), it is told of the deadlock               *)
(* ("deadlock_detected"), it deadlocks ("waits"), or the kernel's refusal  *)
(* is taken for a success ("unheeded").                                    *)
(* busy, late: a lock that found the mutex taken, without and with a       *)
(* timeout.  aborted: a wait the kernel ended.  stranger: an unlock by a   *)
(* task that does not hold the mutex ("undefined": not detected).          *)
Mutex(recursive, normal, busy, aborted, stranger) ==
  [recursive |-> recursive, normal |-> normal, busy |-> busy, late |-> "timeout",
   aborted |-> aborted, stranger |-> stranger]

(* FreeRTOS lets a task give a normal mutex that another one holds.         *)
freertos_mutex == Mutex({"counts"}, {"waits"}, "timeout", "timeout", "undefined")
cmsis_rtos2_mutex == Mutex({"counts"}, {"waits"}, "would_block", "timeout", "unknown")

(* The flag is ignored where the kernel's mutex is always recursive.       *)
zephyr_mutex == Mutex({"counts"}, {"counts"}, "unknown", "unknown", "not_owner")
embos_mutex == Mutex({"counts"}, {"counts"}, "would_block", "none", "undefined")
px5_mutex == Mutex({"counts"}, {"counts"}, "timeout", "timeout", "not_owner")
threadx_mutex == Mutex({"counts"}, {"counts"}, "timeout", "timeout", "not_owner")
cmsis_rtos_mutex == Mutex({"counts"}, {"counts"}, "would_block", "timeout", "unknown")
vxworks_mutex == Mutex({"counts"}, {"counts"}, "timeout", "timeout", "not_owner")

(* OSMutexPend nests and answers OS_ERR_MUTEX_OWNER, which becomes unknown. *)
micrium_mutex == Mutex({"unreported"}, {"unreported"}, "would_block", "unknown", "not_owner")

(* PTHREAD_MUTEX_ERRORCHECK, through pthread_mutex_status.                 *)
posix_mutex == Mutex({"counts"}, {"deadlock_detected"}, "would_block", "none", "not_owner")
linux_mutex == Mutex({"counts"}, {"deadlock_detected"}, "would_block", "none", "not_owner")

(* QNX drops the result of pthread_mutex_lock, EDEADLK of a mutex of the   *)
(* default type included.                                                  *)
qnx_mutex == Mutex({"counts"}, {"unheeded", "waits"}, "would_block", "none", "not_owner")

(* Not recursive, whatever is asked for; ChibiOS can be configured to be.  *)
nuttx_mutex == Mutex({"waits"}, {"waits"}, "would_block", "unknown", "not_owner")
chibios_mutex == Mutex({"counts", "waits"}, {"counts", "waits"}, "would_block", "none", "undefined")
bare_metal_mutex == Mutex({"waits"}, {"waits"}, "would_block", "none", "undefined")

MutexOf ==
  [freertos |-> freertos_mutex, zephyr |-> zephyr_mutex, posix |-> posix_mutex,
   linux |-> linux_mutex, nuttx |-> nuttx_mutex, chibios |-> chibios_mutex,
   embos |-> embos_mutex, cmsis_rtos2 |-> cmsis_rtos2_mutex, bare_metal |-> bare_metal_mutex,
   micrium |-> micrium_mutex, px5 |-> px5_mutex, cmsis_rtos |-> cmsis_rtos_mutex,
   qnx |-> qnx_mutex, threadx |-> threadx_mutex, vxworks |-> vxworks_mutex]

Mtx == MutexOf[mtxOs]
Nests == {"counts", "unreported"}

(* osal_mutex_create_config passes robustness on to pthread_mutexattr_setrobust *)
(* and refuses it everywhere else.                                         *)
RobustOn(os) == IF os \in {"posix", "linux"} THEN BOOLEAN ELSE {FALSE}

MtxInit(os) ==
  /\ mtxOs = os
  /\ mtxRelock \in MutexOf[os].recursive \cup MutexOf[os].normal
  /\ mtxRobust \in RobustOn(os)
  /\ mtxOwner = NoTask
  /\ mtxDepth = 0
  /\ mtxHealth = "sound"
  /\ mtxPc = [t \in MtxTasks |-> "idle"]
  /\ mtxMode = [t \in MtxTasks |-> "no_wait"]
  /\ mtxHeld = [t \in MtxTasks |-> 0]
  /\ mtxRes = "none"

mtxConfig == <<mtxOs, mtxRelock, mtxRobust>>
mtxLock == <<mtxOwner, mtxDepth, mtxHealth>>

(* The end of checked_lock; checked_lock_guard takes ok and owner_died to  *)
(* mean that the mutex is held.                                            *)
LockReturn(t, result) ==
  /\ mtxPc' = [mtxPc EXCEPT ![t] = "idle"]
  /\ mtxMode' = [mtxMode EXCEPT ![t] = "no_wait"]
  /\ mtxHeld' = [mtxHeld EXCEPT ![t] = IF result \in {"ok", "owner_died"} THEN @ + 1 ELSE @]
  /\ mtxRes' = result
  /\ UNCHANGED mtxConfig

(* checked_lock_guard::unlock: a guard whose unlock was refused keeps owns_. *)
UnlockReturn(t, result) ==
  /\ mtxHeld' = [mtxHeld EXCEPT ![t] = IF result = "ok" /\ @ > 0 THEN @ - 1 ELSE @]
  /\ mtxRes' = result
  /\ UNCHANGED <<mtxConfig, mtxPc, mtxMode>>

-----------------------------------------------------------------------------
(* checked_lock: a timeout above zero is refused without has_timed_mutex.  *)
checked_lock(t) ==
  /\ mtxPc[t] = "idle"
  /\ mtxHeld[t] < MaxDepth /\ (mtxOwner = t => mtxDepth < MaxDepth)
  /\ \E m \in MtxModes :
        IF m = "timed" /\ "timed_mutex" \notin Capabilities[mtxOs]
        THEN LockReturn(t, "not_supported")
        ELSE /\ mtxMode' = [mtxMode EXCEPT ![t] = m]
             /\ mtxPc' = [mtxPc EXCEPT ![t] = "lock"]
             /\ mtxRes' = "none"
             /\ UNCHANGED <<mtxConfig, mtxHeld>>
  /\ UNCHANGED mtxLock

(* The kernel grants a free mutex.                                         *)
LockGranted(t) ==
  /\ mtxPc[t] = "lock" /\ mtxOwner = NoTask /\ mtxHealth = "sound"
  /\ mtxOwner' = t /\ mtxDepth' = 1
  /\ LockReturn(t, "ok")
  /\ UNCHANGED mtxHealth

LockNested_NotCounted(t) ==
  /\ mtxPc[t] = "lock" /\ mtxOwner = t /\ mtxRelock \in Nests
  /\ LockReturn(t, IF mtxRelock = "counts" THEN "ok" ELSE "unknown")
  /\ UNCHANGED mtxLock

LockNested(t) ==
  /\ mtxPc[t] = "lock" /\ mtxOwner = t /\ mtxRelock \in Nests
  /\ mtxDepth' = mtxDepth + 1
  /\ LockReturn(t, IF mtxRelock = "counts" THEN "ok" ELSE "unknown")
  /\ UNCHANGED <<mtxOwner, mtxHealth>>

(* osal_mutex_lock of QNX without a timeout returns ok whatever it got.    *)
LockUnheeded(t) ==
  /\ mtxPc[t] = "lock" /\ mtxOwner = t /\ mtxRelock = "unheeded"
  /\ mtxMode[t] = "forever"
  /\ LockReturn(t, "ok")
  /\ UNCHANGED mtxLock

(* An error-checking mutex tells its owner; trylock reports EBUSY instead. *)
LockDeadlock(t) ==
  /\ mtxPc[t] = "lock" /\ mtxOwner = t /\ mtxRelock = "deadlock_detected"
  /\ mtxMode[t] # "no_wait"
  /\ LockReturn(t, "deadlock_detected")
  /\ UNCHANGED mtxLock

LockBusy(t) ==
  /\ mtxPc[t] = "lock" /\ mtxOwner # NoTask /\ mtxMode[t] # "forever"
  /\ mtxOwner = t => mtxRelock \notin Nests
  /\ LockReturn(t, IF mtxMode[t] = "no_wait" THEN Mtx.busy ELSE Mtx.late)
  /\ UNCHANGED mtxLock

LockAborted(t) ==
  /\ mtxPc[t] = "lock" /\ mtxOwner # NoTask /\ mtxMode[t] # "no_wait"
  /\ mtxOwner = t => mtxRelock \notin Nests
  /\ Mtx.aborted # "none"
  /\ LockReturn(t, Mtx.aborted)
  /\ UNCHANGED mtxLock

(* EOWNERDEAD: the mutex is acquired, and the data are to be repaired.     *)
LockOwnerDied(t) ==
  /\ mtxPc[t] = "lock" /\ mtxOwner = NoTask /\ mtxHealth = "orphaned"
  /\ mtxOwner' = t /\ mtxDepth' = 1 /\ mtxHealth' = "inconsistent"
  /\ LockReturn(t, "owner_died")

LockNotRecoverable(t) ==
  /\ mtxPc[t] = "lock" /\ mtxHealth = "lost"
  /\ LockReturn(t, "not_recoverable")
  /\ UNCHANGED mtxLock

(* checked_unlock by the owner: the last one releases the mutex, for good  *)
(* if the data were not marked consistent.  Micrium reports the others     *)
(* (OS_ERR_MUTEX_NESTING) as not_owner.                                    *)
checked_unlock(t) ==
  /\ mtxPc[t] = "idle" /\ mtxOwner = t
  /\ mtxDepth' = mtxDepth - 1
  /\ IF mtxDepth = 1
     THEN /\ mtxOwner' = NoTask
          /\ mtxHealth' = IF mtxHealth = "inconsistent" THEN "lost" ELSE mtxHealth
     ELSE UNCHANGED <<mtxOwner, mtxHealth>>
  /\ UnlockReturn(t, IF mtxDepth > 1 /\ mtxRelock = "unreported" THEN "not_owner" ELSE "ok")

(* checked_unlock by another task, where the kernel detects it.            *)
UnlockStranger(t) ==
  /\ mtxPc[t] = "idle" /\ mtxOwner # t /\ Mtx.stranger # "undefined"
  /\ UnlockReturn(t, Mtx.stranger)
  /\ UNCHANGED mtxLock

(* osal_mutex_consistent.                                                  *)
consistent(t) ==
  /\ mtxPc[t] = "idle" /\ mtxOwner = t /\ mtxHealth = "inconsistent"
  /\ mtxHealth' = "sound"
  /\ mtxRes' = "ok"
  /\ UNCHANGED <<mtxConfig, mtxOwner, mtxDepth, mtxPc, mtxMode, mtxHeld>>

(* A thread ends while it holds a robust mutex; another one, which holds   *)
(* nothing, may later go by the same name.                                 *)
OwnerDies(t) ==
  /\ mtxPc[t] = "idle" /\ mtxOwner = t /\ mtxRobust
  /\ mtxOwner' = NoTask /\ mtxDepth' = 0 /\ mtxHealth' = "orphaned"
  /\ mtxHeld' = [mtxHeld EXCEPT ![t] = 0]
  /\ mtxRes' = "none"
  /\ UNCHANGED <<mtxConfig, mtxPc, mtxMode>>

MtxGrant(t) == LockGranted(t) \/ LockNested(t) \/ LockUnheeded(t) \/ LockDeadlock(t)
               \/ LockOwnerDied(t) \/ LockNotRecoverable(t)

MtxNext ==
  \E t \in MtxTasks :
     \/ checked_lock(t) \/ MtxGrant(t) \/ LockBusy(t) \/ LockAborted(t)
     \/ checked_unlock(t) \/ UnlockStranger(t) \/ consistent(t) \/ OwnerDies(t)

MtxSpec == (\E os \in DOMAIN MutexOf : MtxInit(os)) /\ [][MtxNext]_mtxVars
-----------------------------------------------------------------------------
MtxTypeOK ==
  /\ mtxOs \in DOMAIN MutexOf
  /\ mtxRelock \in Mtx.recursive \cup Mtx.normal
  /\ mtxRobust \in BOOLEAN
  /\ mtxOwner \in MtxTasks \cup {NoTask}
  /\ mtxDepth \in 0 .. MaxDepth
  /\ mtxHealth \in {"sound", "orphaned", "inconsistent", "lost"}
  /\ mtxPc \in [MtxTasks -> {"idle", "lock"}]
  /\ mtxMode \in [MtxTasks -> MtxModes]
  /\ mtxHeld \in [MtxTasks -> Nat]

(* The locks that the kernel counts for a task.                            *)
DepthOf(t) == IF mtxOwner = t THEN mtxDepth ELSE 0

(* What a caller was told is what the kernel did.  No task believes in     *)
(* more locks than it has, so no two tasks are inside at once, and no      *)
(* unlock of an inner scope lets another task into the outer one: on every *)
(* backend but QNX, where the lock of a normal mutex by its owner may be   *)
(* answered with ok and no lock.  No task has more locks than it was told  *)
(* of, so none stays locked behind its back: on every backend but Micrium, *)
(* where a nested lock is answered with unknown.                           *)
MtxToldTheTruth ==
  /\ MtxTypeOK
  /\ \A t \in MtxTasks :
        /\ mtxRelock # "unheeded" => mtxHeld[t] <= DepthOf(t)
        /\ mtxRelock # "unreported" => mtxHeld[t] >= DepthOf(t)
=============================================================================
