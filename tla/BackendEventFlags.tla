------------------------- MODULE BackendEventFlags -------------------------
(***************************************************************************)
(* Event flags on the eight backends that have them natively: one state    *)
(* machine, and a record of how each backend waits and clears.  The        *)
(* emulation of the others is EventFlags.  A kernel call is one step.      *)
(***************************************************************************)
EXTENDS Integers, FiniteSets

CONSTANTS EvtTasks, EvtBits,
          EvtRequests   \* [bits, all, clear] that tasks wait with

ASSUME EvtAssumption == \A r \in EvtRequests : r.bits \subseteq EvtBits /\ {r.all, r.clear} \subseteq BOOLEAN

VARIABLES evtOs,
          evtFlags,
          evtPended,   \* bits that an ISR has handed to the timer daemon
          evtPc,       \* "idle", "look", "wait" (blocked), "sleep" (between two polls), "clear"
          evtReq,
          evtGot,      \* the bits a task was told of and has yet to clear
          evtUnseen    \* ghost: bits set since a wait was last told of them

evtVars == <<evtOs, evtFlags, evtPended, evtPc, evtReq, evtGot, evtUnseen>>

(* clear: the kernel's own option, when it has released every task that    *)
(* the set satisfies ("kernel"), or task by task ("in_turn") or when the   *)
(* released task runs ("resumed"); under the guard of a polling loop; or a *)
(* second call once the wait has returned ("after").  isr: set_isr sets,   *)
(* or asks the daemon to.                                                  *)
Flags(clear, isr) == [clear |-> clear, isr |-> isr]

freertos_event_flags == Flags("kernel", "daemon")
zephyr_event_flags == Flags("after", "direct")
chibios_event_flags == Flags("polled", "direct")
embos_event_flags == Flags("after", "direct")
px5_event_flags == Flags("kernel", "direct")
threadx_event_flags == Flags("kernel", "direct")

(* OSFlagPost releases; OSFlagPend consumes when its task goes on.         *)
micrium_event_flags == Flags("resumed", "direct")

(* CMSIS-RTOS2 does not say if a set serves all or each in its turn.       *)
cmsis_rtos2_event_flags == Flags("in_turn", "direct")

FlagsOf ==
  [freertos |-> freertos_event_flags, zephyr |-> zephyr_event_flags,
   chibios |-> chibios_event_flags, embos |-> embos_event_flags,
   cmsis_rtos2 |-> cmsis_rtos2_event_flags, micrium |-> micrium_event_flags,
   px5 |-> px5_event_flags, threadx |-> threadx_event_flags]

Evt == FlagsOf[evtOs]
NoRequest == [bits |-> {}, all |-> FALSE, clear |-> FALSE]
EvtGoto(t, there) == evtPc' = [evtPc EXCEPT ![t] = there]
Satisfied(r, flags) == IF r.all THEN r.bits \subseteq flags ELSE r.bits \cap flags # {}

(* The bits that the tasks of R are told of, of the flags as they are.     *)
Told(R, flags) == UNION {evtReq[t].bits \cap flags : t \in R}
Clearing(R) == {t \in R : evtReq[t].clear}

EvtInit(os) ==
  /\ evtOs = os
  /\ evtFlags = {} /\ evtPended = {} /\ evtUnseen = {}
  /\ evtPc = [t \in EvtTasks |-> "idle"]
  /\ evtReq = [t \in EvtTasks |-> NoRequest]
  /\ evtGot = [t \in EvtTasks |-> {}]
-----------------------------------------------------------------------------
(* The waits of R return with what they match of flags; what they ask to   *)
(* be cleared is cleared now, for all of them at once, or is left to a     *)
(* step of each.  unseen is what nobody had been told of before.           *)
Deliver(R, flags, unseen, now) ==
  LET later == IF now THEN {} ELSE Clearing(R)
  IN  /\ evtFlags' = IF now THEN flags \ Told(Clearing(R), flags) ELSE flags
      /\ evtUnseen' = unseen \ Told(R, flags)
      /\ evtPc' = [t \in EvtTasks |-> IF t \in later THEN "clear" ELSE IF t \in R THEN "idle" ELSE evtPc[t]]
      /\ evtGot' = [t \in EvtTasks |-> IF t \in later THEN evtReq[t].bits \cap flags ELSE evtGot[t]]
      /\ evtReq' = [t \in EvtTasks |-> IF t \in R \ later THEN NoRequest ELSE evtReq[t]]

(* The bits about to be cleared: a set of one of them is lost, on the      *)
(* backends whose clear is a step of its own.                              *)
Doomed ==
  IF evtOs \in {"zephyr", "embos", "micrium"}
  THEN UNION {evtGot[t] : t \in {u \in EvtTasks : evtPc[u] = "clear"}} ELSE {}

(* The set releases every blocked task that it satisfies; in_turn may keep *)
(* those for which the tasks before them left too little.                  *)
Set(bits) ==
  LET flags == evtFlags \cup bits
      satisfied == {t \in EvtTasks : evtPc[t] = "wait" /\ Satisfied(evtReq[t], flags)}
  IN  \E R \in SUBSET satisfied :
         /\ \A t \in satisfied \ R : Evt.clear = "in_turn" /\ ~Satisfied(evtReq[t], flags \ Told(Clearing(R), flags))
         /\ Deliver(R, flags, evtUnseen \cup (bits \ Doomed), Evt.clear \notin {"after", "resumed"})

osal_event_flags_set(bits) == Set(bits) /\ UNCHANGED <<evtOs, evtPended>>

(* set_isr on FreeRTOS: the daemon sets the bits later, or never if its    *)
(* queue is full, which the code does not look at.                         *)
SetPended(bits) ==
  /\ Evt.isr = "daemon"
  /\ evtPended' \in {evtPended \cup bits, evtPended}
  /\ UNCHANGED <<evtOs, evtFlags, evtPc, evtReq, evtGot, evtUnseen>>

DaemonSets ==
  /\ evtPended # {}
  /\ Set(evtPended)
  /\ evtPended' = {}
  /\ UNCHANGED evtOs

osal_event_flags_clear(bits) ==
  /\ evtFlags' = evtFlags \ bits
  /\ evtUnseen' = evtUnseen \ bits
  /\ UNCHANGED <<evtOs, evtPended, evtPc, evtReq, evtGot>>
-----------------------------------------------------------------------------
(* wait_any, wait_all.  (ChibiOS refuses an empty mask.)                   *)
WaitCall(t, r) ==
  /\ evtPc[t] = "idle"
  /\ evtReq' = [evtReq EXCEPT ![t] = r]
  /\ EvtGoto(t, "look")
  /\ UNCHANGED <<evtOs, evtFlags, evtPended, evtGot, evtUnseen>>

(* The flags are there: the wait returns at once.                          *)
LookMatches(t) ==
  /\ evtPc[t] = "look" /\ Satisfied(evtReq[t], evtFlags)
  /\ Deliver({t}, evtFlags, evtUnseen, Evt.clear # "after")
  /\ UNCHANGED <<evtOs, evtPended>>

(* Else the kernel blocks the task; ch_event_wait_impl sleeps for a tick   *)
(* and looks again.                                                        *)
LookFails(t) ==
  /\ evtPc[t] = "look" /\ ~Satisfied(evtReq[t], evtFlags)
  /\ EvtGoto(t, IF Evt.clear = "polled" THEN "sleep" ELSE "wait")
  /\ UNCHANGED <<evtOs, evtFlags, evtPended, evtReq, evtGot, evtUnseen>>

PollAgain(t) ==
  /\ evtPc[t] = "sleep"
  /\ EvtGoto(t, "look")
  /\ UNCHANGED <<evtOs, evtFlags, evtPended, evtReq, evtGot, evtUnseen>>

ClearAfter_Requested(t) ==
  /\ evtPc[t] = "clear"
  /\ evtFlags' = evtFlags \ evtReq[t].bits
  /\ evtReq' = [evtReq EXCEPT ![t] = NoRequest]
  /\ evtGot' = [evtGot EXCEPT ![t] = {}]
  /\ EvtGoto(t, "idle")
  /\ UNCHANGED <<evtOs, evtPended, evtUnseen>>

(* k_event_clear, OS_EVENT_ResetMask, and the consumption of OSFlagPend.   *)
ClearAfter(t) ==
  /\ evtPc[t] = "clear"
  /\ evtFlags' = evtFlags \ evtGot[t]
  /\ evtReq' = [evtReq EXCEPT ![t] = NoRequest]
  /\ evtGot' = [evtGot EXCEPT ![t] = {}]
  /\ EvtGoto(t, "idle")
  /\ UNCHANGED <<evtOs, evtPended, evtUnseen>>

(* A wait that may not wait, or no longer.                                 *)
WaitTimesOut(t) ==
  /\ evtPc[t] \in {"look", "wait"} /\ ~Satisfied(evtReq[t], evtFlags)
  /\ EvtGoto(t, "idle")
  /\ evtReq' = [evtReq EXCEPT ![t] = NoRequest]
  /\ UNCHANGED <<evtOs, evtFlags, evtPended, evtGot, evtUnseen>>
-----------------------------------------------------------------------------
EvtStep(t) == LookMatches(t) \/ LookFails(t) \/ PollAgain(t) \/ ClearAfter(t)

EvtNext ==
  \/ DaemonSets
  \/ \E bits \in SUBSET EvtBits \ {{}} :
        osal_event_flags_set(bits) \/ SetPended(bits) \/ osal_event_flags_clear(bits)
  \/ \E t \in EvtTasks : EvtStep(t) \/ WaitTimesOut(t) \/ \E r \in EvtRequests : WaitCall(t, r)

EvtSpec == (\E os \in DOMAIN FlagsOf : EvtInit(os)) /\ [][EvtNext]_evtVars

EvtFairness == WF_evtVars(DaemonSets) /\ \A t \in EvtTasks : WF_evtVars(EvtStep(t))
-----------------------------------------------------------------------------
EvtTypeOK ==
  /\ evtOs \in DOMAIN FlagsOf
  /\ evtFlags \subseteq EvtBits /\ evtPended \subseteq EvtBits
  /\ evtPc \in [EvtTasks -> {"idle", "look", "wait", "sleep", "clear"}]
  /\ evtReq \in [EvtTasks -> EvtRequests \cup {NoRequest}]
  /\ evtGot \in [EvtTasks -> SUBSET EvtBits]

(* No set is swallowed: a flag that clear_on_exit takes away has been in   *)
(* the answer of a wait since it was set, though other tasks set, clear    *)
(* and are released at the same time.  The one exception is a flag set     *)
(* again while a task that was told of it has yet to clear it, where that  *)
(* is a step of its own: on Zephyr and embOS a second call of the backend, *)
(* on Micrium inside OSFlagPend.                                           *)
NoSetSwallowed == EvtTypeOK /\ evtUnseen \subseteq evtFlags

(* A task whose flags are set and stay set does return from its wait.      *)
EvtServed ==
  \A t \in EvtTasks : []<>(evtPc[t] = "idle" \/ ~Satisfied(evtReq[t], evtFlags))
=============================================================================
