-------------------------- MODULE BackendSemaphore --------------------------
(***************************************************************************)
(* osal_semaphore_give and osal_semaphore_take of the fifteen backends:    *)
(* one state machine, and for each backend the record of what its source   *)
(* does.  Three designs keep the count:                                    *)
(*   "kernel"  the kernel object has a ceiling and one call does the work; *)
(*   "cas"     the count is an atomic that give and take compare-and-swap; *)
(*   "shadow"  the kernel object has no ceiling, so the backend keeps a    *)
(*             second count beside it: give reserves a unit there before   *)
(*             it posts, take settles it after the kernel's wait returns.  *)
(* The handle checks and the arguments of create belong to the life cycle  *)
(* of the object (BackendObjects).                                         *)
(***************************************************************************)
EXTENDS Integers, FiniteSets

CONSTANTS SemTasks,
          Maximum,   \* max_count
          Attempts   \* the 32 attempts of a bounded reserve()

ASSUME SemAssumption ==
  /\ IsFiniteSet(SemTasks)
  /\ Maximum \in Nat \ {0}
  /\ Attempts \in Nat \ {0}

VARIABLES semOs,    \* the backend this build is for
          semValue, \* the count of the kernel object (of the atomic, for "cas")
          semCount, \* the shadow count
          semPc,
          semSeen,  \* the caller's copy of the count it compares and swaps
          semTries,
          semMode,  \* the timeout of the take in progress
          semRes    \* what the last step returned to its caller, if it returned

semVars == <<semOs, semValue, semCount, semPc, semSeen, semTries, semMode, semRes>>

Modes == {"forever", "timed", "no_wait"}

(* keeper: the design.  full: what a give beyond the maximum returns.      *)
(* bounded: reserve() gives up after Attempts.  refused: what a give       *)
(* returns when the kernel refuses the post ("ignored": not looked at).    *)
(* busy, late: a take that found nothing, without and with a timeout.      *)
(* aborted: a wait ended by a signal or by the kernel, by its timeout.     *)
Kernel(full, busy, aborted) ==
  [keeper |-> "kernel", full |-> full, bounded |-> FALSE, refused |-> "ignored",
   busy |-> busy, late |-> "timeout", aborted |-> aborted]

Shadow(bounded, refused, busy, aborted) ==
  [keeper |-> "shadow", full |-> "overflow", bounded |-> bounded, refused |-> refused,
   busy |-> busy, late |-> "timeout", aborted |-> aborted]

Never == [forever |-> "none", timed |-> "none"]
Retried == [forever |-> "retry", timed |-> "retry"]
Reported(r) == [forever |-> r, timed |-> r]

(* k_sem_give saturates at the limit and has no result.                    *)
freertos_semaphore == Kernel("overflow", "timeout", Reported("timeout"))
zephyr_semaphore == Kernel("ok", "timeout", Reported("timeout"))
chibios_semaphore == Kernel("overflow", "would_block", Reported("timeout"))
cmsis_rtos2_semaphore == Kernel("unknown", "would_block", Reported("timeout"))
threadx_semaphore == Kernel("overflow", "timeout", Reported("timeout"))

posix_semaphore == Shadow(FALSE, "unknown", "would_block", Retried)
linux_semaphore == Shadow(FALSE, "unknown", "would_block", Retried)
qnx_semaphore == Shadow(FALSE, "unknown", "would_block", Retried)

(* Only the untimed wait of NuttX is repeated after a signal.              *)
nuttx_semaphore ==
  Shadow(TRUE, "unknown", "would_block", [forever |-> "retry", timed |-> "unknown"])

embos_semaphore == Shadow(TRUE, "ignored", "would_block", Never)
micrium_semaphore == Shadow(TRUE, "overflow", "would_block", Reported("unknown"))
px5_semaphore == Shadow(TRUE, "unknown", "timeout", Reported("timeout"))
cmsis_rtos_semaphore == Shadow(TRUE, "unknown", "would_block", Reported("timeout"))
vxworks_semaphore == Shadow(TRUE, "unknown", "timeout", Reported("timeout"))

bare_metal_semaphore ==
  [keeper |-> "cas", full |-> "overflow", bounded |-> FALSE, refused |-> "ignored",
   busy |-> "would_block", late |-> "timeout", aborted |-> Never]

Semaphore ==
  [freertos |-> freertos_semaphore, zephyr |-> zephyr_semaphore, posix |-> posix_semaphore,
   linux |-> linux_semaphore, nuttx |-> nuttx_semaphore, chibios |-> chibios_semaphore,
   embos |-> embos_semaphore, cmsis_rtos2 |-> cmsis_rtos2_semaphore,
   bare_metal |-> bare_metal_semaphore, micrium |-> micrium_semaphore,
   px5 |-> px5_semaphore, cmsis_rtos |-> cmsis_rtos_semaphore, qnx |-> qnx_semaphore,
   threadx |-> threadx_semaphore, vxworks |-> vxworks_semaphore]

Sem == Semaphore[semOs]
Shadowed == Sem.keeper = "shadow"

SemInit(os) ==
  /\ semOs = os
  /\ semValue \in 0 .. Maximum
  /\ semCount = semValue
  /\ semPc = [t \in SemTasks |-> "idle"]
  /\ semSeen = [t \in SemTasks |-> 0]
  /\ semTries = [t \in SemTasks |-> 0]
  /\ semMode = [t \in SemTasks |-> "no_wait"]
  /\ semRes = "none"

At(t, here) == semPc[t] = here
Goto(t, there) ==
  /\ semPc' = [semPc EXCEPT ![t] = there]
  /\ semRes' = "none"
SemReturn(t, result) ==
  /\ semPc' = [semPc EXCEPT ![t] = "idle"]
  /\ semRes' = result
  /\ semTries' = [semTries EXCEPT ![t] = 0]
  /\ semSeen' = [semSeen EXCEPT ![t] = 0]
  /\ semMode' = [semMode EXCEPT ![t] = "no_wait"]

locals == <<semSeen, semTries, semMode>>

-----------------------------------------------------------------------------
(* osal_semaphore_give and osal_semaphore_give_isr.                        *)

(* The kernel's own bounded give.                                          *)
GiveKernel(t) ==
  /\ Sem.keeper = "kernel" /\ At(t, "idle")
  /\ IF semValue < Maximum
     THEN semValue' = semValue + 1 /\ SemReturn(t, "ok")
     ELSE semValue' = semValue /\ SemReturn(t, Sem.full)
  /\ UNCHANGED <<semOs, semCount>>

(* The word that give compares and swaps, and its first load.              *)
Word == IF Shadowed THEN semCount ELSE semValue

GiveLoad(t) ==
  /\ Sem.keeper # "kernel" /\ At(t, "idle")
  /\ semSeen' = [semSeen EXCEPT ![t] = Word]
  /\ Goto(t, "reserve")
  /\ UNCHANGED <<semOs, semValue, semCount, semTries, semMode>>

GiveFull(t) ==
  /\ At(t, "reserve") /\ semSeen[t] >= Maximum
  /\ SemReturn(t, Sem.full)
  /\ UNCHANGED <<semOs, semValue, semCount>>

(* compare_exchange_weak succeeds: a unit is reserved in the shadow count, *)
(* or, where the atomic is the semaphore, given.                           *)
GiveSwap_NoCompare(t) ==
  /\ Shadowed /\ At(t, "reserve") /\ semSeen[t] < Maximum
  /\ semCount' = semCount + 1
  /\ Goto(t, "post")
  /\ UNCHANGED <<semOs, semValue, locals>>

GiveSwap(t) ==
  /\ At(t, "reserve") /\ semSeen[t] < Maximum /\ semSeen[t] = Word
  /\ IF Shadowed
     THEN /\ semCount' = semCount + 1
          /\ Goto(t, "post")
          /\ UNCHANGED <<semValue, locals>>
     ELSE /\ semValue' = semValue + 1
          /\ SemReturn(t, "ok")
          /\ UNCHANGED semCount
  /\ UNCHANGED semOs

(* It fails, for another caller changed the word or for no reason at all,  *)
(* and the loop goes round with the value it found.                        *)
GiveSwapFails(t) ==
  /\ At(t, "reserve") /\ semSeen[t] < Maximum
  /\ IF Sem.bounded /\ semTries[t] + 1 = Attempts
     THEN SemReturn(t, "would_block")
     ELSE /\ semSeen' = [semSeen EXCEPT ![t] = Word]
          /\ semTries' = [semTries EXCEPT ![t] = IF Sem.bounded THEN @ + 1 ELSE @]
          /\ Goto(t, "reserve")
          /\ UNCHANGED semMode
  /\ UNCHANGED <<semOs, semValue, semCount>>

GivePost(t) ==
  /\ At(t, "post")
  /\ semValue' = semValue + 1
  /\ SemReturn(t, "ok")
  /\ UNCHANGED <<semOs, semCount>>

(* The kernel refuses the post, and the reservation is taken back.         *)
GiveRefused(t) ==
  /\ At(t, "post") /\ Sem.refused # "ignored"
  /\ Goto(t, "undo")
  /\ UNCHANGED <<semOs, semValue, semCount, locals>>

GiveUndo_Forgotten(t) ==
  /\ At(t, "undo")
  /\ SemReturn(t, Sem.refused)
  /\ UNCHANGED <<semOs, semValue, semCount>>

GiveUndo(t) ==
  /\ At(t, "undo")
  /\ semCount' = semCount - 1
  /\ SemReturn(t, Sem.refused)
  /\ UNCHANGED <<semOs, semValue>>

-----------------------------------------------------------------------------
(* osal_semaphore_take and osal_semaphore_try_take.                        *)

TakeCall(t) ==
  /\ At(t, "idle")
  /\ \E m \in Modes : semMode' = [semMode EXCEPT ![t] = m]
  /\ Goto(t, "wait")
  /\ UNCHANGED <<semOs, semValue, semCount, semSeen, semTries>>

(* The kernel's wait obtains a unit; a shadow count is settled afterwards. *)
TakeUnit(t) ==
  /\ Sem.keeper # "cas" /\ At(t, "wait") /\ semValue > 0
  /\ semValue' = semValue - 1
  /\ IF Shadowed
     THEN Goto(t, "settle") /\ UNCHANGED locals
     ELSE SemReturn(t, "ok")
  /\ UNCHANGED <<semOs, semCount>>

TakeSettle(t) ==
  /\ At(t, "settle")
  /\ semCount' = semCount - 1
  /\ SemReturn(t, "ok")
  /\ UNCHANGED <<semOs, semValue>>

(* The bare-metal loop: load, and swap if the count is still what it was;  *)
(* a failed swap starts the loop again.                                    *)
TakeLoad(t) ==
  /\ Sem.keeper = "cas" /\ At(t, "wait") /\ semValue > 0
  /\ semSeen' = [semSeen EXCEPT ![t] = semValue]
  /\ Goto(t, "swap")
  /\ UNCHANGED <<semOs, semValue, semCount, semTries, semMode>>

TakeSwap(t) ==
  /\ At(t, "swap") /\ semValue = semSeen[t]
  /\ semValue' = semValue - 1
  /\ SemReturn(t, "ok")
  /\ UNCHANGED <<semOs, semCount>>

TakeSwapFails(t) ==
  /\ At(t, "swap")
  /\ semSeen' = [semSeen EXCEPT ![t] = 0]
  /\ Goto(t, "wait")
  /\ UNCHANGED <<semOs, semValue, semCount, semTries, semMode>>

(* Nothing there: the end of a call with a timeout, or of one without.     *)
TakeNothing(t) ==
  /\ At(t, "wait") /\ semValue = 0 /\ semMode[t] # "forever"
  /\ SemReturn(t, IF semMode[t] = "no_wait" THEN Sem.busy ELSE Sem.late)
  /\ UNCHANGED <<semOs, semValue, semCount>>

(* A signal or the kernel ends the wait; a retried wait just goes on.      *)
TakeAborted(t) ==
  /\ At(t, "wait") /\ semMode[t] # "no_wait"
  /\ Sem.aborted[semMode[t]] \notin {"none", "retry"}
  /\ SemReturn(t, Sem.aborted[semMode[t]])
  /\ UNCHANGED <<semOs, semValue, semCount>>

SemStep(t) ==
  \/ GiveFull(t) \/ GiveSwap(t) \/ GivePost(t) \/ GiveUndo(t)
  \/ TakeUnit(t) \/ TakeSettle(t) \/ TakeLoad(t) \/ TakeSwap(t)

SemNext ==
  \E t \in SemTasks :
     \/ GiveKernel(t) \/ GiveLoad(t) \/ TakeCall(t)
     \/ GiveSwapFails(t) \/ GiveRefused(t) \/ TakeSwapFails(t)
     \/ TakeNothing(t) \/ TakeAborted(t)
     \/ SemStep(t)

(* Calls are made freely; a task inside one goes on (SF on the steps that  *)
(* wait for a unit or for a compare-and-swap, which others may win).       *)
SemFairness ==
  \A t \in SemTasks : WF_semVars(SemStep(t)) /\ SF_semVars(TakeUnit(t) \/ TakeSwap(t) \/ GiveSwap(t))

SemSpec == (\E os \in DOMAIN Semaphore : SemInit(os)) /\ [][SemNext]_semVars
-----------------------------------------------------------------------------
SemTypeOK ==
  /\ semOs \in DOMAIN Semaphore
  /\ semValue \in Int
  /\ semCount \in Int
  /\ semPc \in [SemTasks -> {"idle", "reserve", "post", "undo", "wait", "settle", "swap"}]
  /\ semSeen \in [SemTasks -> Int]
  /\ semTries \in [SemTasks -> 0 .. Attempts]
  /\ semMode \in [SemTasks -> Modes]

Inside(pcs) == {t \in SemTasks : semPc[t] \in pcs}

(* The maximum is enforced on every backend, and where the kernel does not *)
(* do it the shadow count is exactly the permits in the kernel object plus *)
(* those a give has reserved and not posted and those a take has obtained  *)
(* and not settled.                                                        *)
SemBounded ==
  /\ SemTypeOK
  /\ semValue \in 0 .. Maximum
  /\ Shadowed => /\ semCount = semValue + Cardinality(Inside({"post", "undo", "settle"}))
                 /\ semCount <= Maximum

(* A task that waits for ever while permits are there gets one, unless     *)
(* others take them all or its wait is ended.                              *)
SemTakerServed ==
  \A t \in SemTasks :
     (At(t, "wait") /\ semMode[t] = "forever" /\ semValue > 0)
        ~> (semValue = 0 \/ ~At(t, "wait"))

(* try_give returns false only "if already at max_count": when a give      *)
(* reads a count that leaves it no room, the permits in the semaphore and  *)
(* those that other gives have reserved are Maximum.                       *)
OverflowMeansFull ==
  [][\A t \in SemTasks :
        (semPc'[t] = "reserve" /\ semSeen'[t] >= Maximum)
           => semValue + Cardinality(Inside({"post", "undo"})) >= Maximum]_semVars
=============================================================================
