----------------------------- MODULE BackendTimer -----------------------------
(*****************************************************************************)
(* Timers of the fourteen backends other than FreeRTOS (FreeRtosTimer):      *)
(* osal_timer_start, _stop, _reset, _set_period, _destroy and the code that  *)
(* runs when a timer expires.  One timer, one task that uses it, its callback*)
(* (which may call the same operations) and the engine that expires it: a    *)
(* watcher thread (POSIX, QNX, Linux), the kernel's timer context, or the    *)
(* tick (bare metal).                                                        *)
(*                                                                           *)
(* Time is abstract: timDue says that a full period has passed since the     *)
(* timer was armed, so periods need no value.                                *)
(*****************************************************************************)
EXTENDS Integers

CONSTANT TimBackends   \* the backends a run is about

VARIABLES timOs,        \* the backend
          timAuto,      \* periodic or one-shot
          timHandle,    \* handle->native is set
          timLive,      \* the context or slot is still the timer's
          timArmed,     \* the kernel timer, timerfd or active flag that expires
          timDue,       \* ... and a period has passed since it was armed
          timActive,    \* the active flag the gated backends keep beside it
          timEver,      \* ever_started
          timGate,      \* callback_gate: "open" or who closed it
          timShut,      \* shutdown, or running cleared
          timSelf,      \* release_from_watcher
          timStale,     \* armed again since the watcher began its wait
          timEngine,    \* where the watcher or the kernel's timer context is
          timPc,        \* where the task and the callback are
          timFired,     \* ghost: expiries taken since start or reset, up to 2
          timOwed,      \* ghost: a start or reset succeeded; its expiry is due
          timQuiet      \* ghost: a stop succeeded and nothing armed the timer since

timVars == <<timOs, timAuto, timHandle, timLive, timArmed, timDue, timActive, timEver,
             timGate, timShut, timSelf, timStale, timEngine, timPc, timFired, timOwed,
             timQuiet>>

-------------------------------------------------------------------------------
(* What a backend does:                                                      *)
(*   engine   "cond" (watcher on a condition variable), "fd" (watcher on a   *)
(*            timerfd), "kernel", "gate" (kernel, callback behind a gate),   *)
(*            "isr" (kernel, masked by irq_lock) or "tick"                   *)
(*   start    "arms", "unless_running" or "once"                             *)
(*   flag     the backend keeps an active flag of its own                    *)
(*   reset    "arms", or "stops" and then starts; "insists" if it starts     *)
(*            whatever the stop said                                         *)
(*   period   set_period: "locked", "check" then arm, "unless_active",       *)
(*            "before_start" or "deadline"                                   *)
(*   revised  the watcher compares arm_revision                              *)
TimerDesign(engine, start, flag, reset, period) ==
    [engine |-> engine, start |-> start, flag |-> flag, reset |-> reset,
     period |-> period, revised |-> FALSE]

posix_timer == TimerDesign("cond", "arms", FALSE, "arms", "locked")

qnx_timer_NoRevision == TimerDesign("cond", "arms", FALSE, "insists", "locked")

qnx_timer == [TimerDesign("cond", "arms", FALSE, "insists", "locked")
                 EXCEPT !.revised = TRUE]

linux_timer == TimerDesign("fd", "arms", FALSE, "stops", "check")

zephyr_timer == TimerDesign("isr", "arms", FALSE, "arms", "locked")

cmsis_rtos2_timer == TimerDesign("kernel", "arms", FALSE, "insists", "check")

cmsis_rtos_timer == TimerDesign("kernel", "arms", TRUE, "insists", "unless_active")

micrium_timer == TimerDesign("kernel", "arms", FALSE, "stops", "before_start")

px5_timer == TimerDesign("kernel", "unless_running", FALSE, "stops", "check")

threadx_timer == TimerDesign("kernel", "unless_running", FALSE, "stops", "check")

nuttx_timer == TimerDesign("gate", "once", TRUE, "stops", "unless_active")

chibios_timer == TimerDesign("gate", "once", TRUE, "stops", "unless_active")

embos_timer == TimerDesign("gate", "once", TRUE, "stops", "unless_active")

vxworks_timer == TimerDesign("gate", "once", TRUE, "stops", "unless_active")

bare_metal_timer == TimerDesign("tick", "arms", FALSE, "insists", "deadline")

TimerOf ==
    [posix |-> posix_timer, qnx |-> qnx_timer, linux |-> linux_timer,
     zephyr |-> zephyr_timer, cmsis_rtos2 |-> cmsis_rtos2_timer,
     cmsis_rtos |-> cmsis_rtos_timer, micrium |-> micrium_timer, px5 |-> px5_timer,
     threadx |-> threadx_timer, nuttx |-> nuttx_timer, chibios |-> chibios_timer,
     embos |-> embos_timer, vxworks |-> vxworks_timer, bare_metal |-> bare_metal_timer]

ASSUME TimAssumption == TimBackends \subseteq DOMAIN TimerOf

Tim == TimerOf[timOs]
Watched == Tim.engine \in {"cond", "fd"}
Users == {"task", "callback"}

(* Who can take a step of a call: the callback while it runs, the task       *)
(* unless the callback has interrupted it.                                   *)
CanRun(c) ==
    IF c = "callback" THEN timEngine = "running"
    ELSE Tim.engine \in {"isr", "tick"} => timEngine = "waiting"

Calling(c) == CanRun(c) /\ timPc[c] = "idle" /\ timHandle

TimGoto(c, pc) == timPc' = [timPc EXCEPT ![c] = pc]

(* The kernel (or the active flag) is armed for a full period.               *)
Arm == timArmed' = TRUE /\ timDue' = FALSE /\ timStale' = TRUE

(* ... by a start or reset that will return ok.                              *)
ArmForUser == Arm /\ timFired' = 0 /\ timOwed' = TRUE /\ timQuiet' = FALSE

Disarm == timArmed' = FALSE /\ timDue' = FALSE /\ UNCHANGED timStale

GhostsUnchanged == UNCHANGED <<timFired, timOwed, timQuiet>>
ArmUnchanged == UNCHANGED <<timArmed, timDue, timStale>> /\ GhostsUnchanged
FixedUnchanged == UNCHANGED <<timOs, timAuto>>
LifeUnchanged == UNCHANGED <<timHandle, timLive, timShut, timSelf>>

-------------------------------------------------------------------------------
(* osal_timer_start; pc "restart" is its call from osal_timer_reset.         *)
Starting(c) == CanRun(c) /\ timHandle /\ timPc[c] \in {"idle", "restart"}

(* One kernel call, or one critical section, arms the timer; the first start *)
(* on POSIX and Linux creates the watcher.                                   *)
timer_start(c) ==
    /\ Starting(c)
    /\ Tim.start = "arms"
    /\ ~Tim.flag
    /\ Tim.engine # "cond" \/ Tim.revised \/ ~timShut
    /\ Tim.engine = "fd" => ~timShut
    /\ ArmForUser
    /\ timEver' = TRUE
    /\ timEngine' = IF timEngine = "none" THEN "waiting" ELSE timEngine
    /\ TimGoto(c, "idle")
    /\ FixedUnchanged /\ LifeUnchanged
    /\ UNCHANGED <<timActive, timGate>>

(* ChibiOS, embOS, NuttX, VxWorks: the first start only.                     *)
StartOnce(c) ==
    /\ Starting(c)
    /\ Tim.start = "once"
    /\ ~timEver
    /\ ArmForUser
    /\ timActive' = TRUE
    /\ timEver' = TRUE
    /\ TimGoto(c, "idle")
    /\ FixedUnchanged /\ LifeUnchanged
    /\ UNCHANGED <<timGate, timEngine>>

(* The flag (CMSIS-RTOS) or the test (PX5, ThreadX) that comes first.        *)
StartFirst(c) ==
    /\ Starting(c)
    /\ \/ /\ Tim.start = "arms"
          /\ Tim.flag
          /\ timActive' = TRUE
          /\ timEver' = TRUE
          /\ TimGoto(c, "start")
       \/ /\ Tim.start = "unless_running"
          /\ ~timArmed
          /\ timEver' = TRUE
          /\ TimGoto(c, "start")
          /\ UNCHANGED timActive
       \/ /\ Tim.start = "unless_running"
          /\ timArmed
          /\ TimGoto(c, "idle")
          /\ UNCHANGED <<timActive, timEver>>
    /\ ArmUnchanged /\ FixedUnchanged /\ LifeUnchanged
    /\ UNCHANGED <<timGate, timEngine>>

StartSecond(c) ==
    /\ CanRun(c)
    /\ timPc[c] = "start"
    /\ ArmForUser
    /\ TimGoto(c, "idle")
    /\ FixedUnchanged /\ LifeUnchanged
    /\ UNCHANGED <<timActive, timEver, timGate, timEngine>>

(* pthread_create or the kernel call fails, the timer is being destroyed, or *)
(* it was started before and cannot be again.                                *)
StartFails(c) ==
    /\ CanRun(c)
    /\ timHandle
    /\ \/ /\ timPc[c] \in {"idle", "restart"}
          /\ \/ Tim.engine = "cond" /\ ~Tim.revised /\ (timShut \/ timEngine = "none")
             \/ Tim.engine = "fd"
             \/ Tim.start = "once" /\ timEver
          /\ UNCHANGED <<timEver, timActive>>
       \/ /\ timPc[c] \in {"idle", "restart"}
          /\ \/ Tim.engine = "kernel" /\ Tim.start = "arms" /\ ~Tim.flag
             \/ timOs \in {"nuttx", "vxworks"} /\ ~timEver
          /\ timEver' = TRUE
          /\ UNCHANGED timActive
       \/ /\ timPc[c] = "start"
          /\ timActive' = FALSE
          /\ UNCHANGED timEver
    /\ TimGoto(c, "idle")
    /\ ArmUnchanged /\ FixedUnchanged /\ LifeUnchanged
    /\ UNCHANGED <<timGate, timEngine>>

-------------------------------------------------------------------------------
(* osal_timer_stop, and the stop osal_timer_reset begins with: after it the  *)
(* call returns ("idle") or goes on to start ("restart").                    *)
AfterStop == {"idle"} \cup (IF Tim.reset = "arms" THEN {} ELSE {"restart"})

timer_stop(c) ==
    /\ Calling(c)
    /\ Tim.engine # "gate"
    /\ Tim.engine = "cond" /\ ~Tim.revised => ~timShut
    /\ Disarm
    /\ timActive' = FALSE
    /\ timOwed' = FALSE
    /\ timQuiet' = TRUE
    /\ \E pc \in AfterStop : TimGoto(c, pc)
    /\ FixedUnchanged /\ LifeUnchanged
    /\ UNCHANGED <<timFired, timEver, timGate, timEngine>>

(* The kernel refuses; CMSIS-RTOS and CMSIS-RTOS2 start nevertheless.        *)
StopFails(c) ==
    /\ Calling(c)
    /\ Tim.engine \in {"kernel", "fd"} \/ (Tim.engine = "cond" /\ ~Tim.revised /\ timShut)
    /\ \/ Tim.reset = "insists" /\ TimGoto(c, "restart")
       \/ TimGoto(c, "idle")
    /\ ArmUnchanged /\ FixedUnchanged /\ LifeUnchanged
    /\ UNCHANGED <<timEver, timActive, timGate, timEngine>>

(* The gated backends close the gate first; a callback in progress or        *)
(* starting means not_supported, and so does the stop inside the callback.   *)
StopGate_Skipped(c) ==
    /\ Calling(c)
    /\ Tim.engine = "gate"
    /\ timGate' = timGate
    /\ TimGoto(c, "stop")
    /\ ArmUnchanged /\ FixedUnchanged /\ LifeUnchanged
    /\ UNCHANGED <<timEver, timActive, timEngine>>

StopGate(c) ==
    /\ Calling(c)
    /\ Tim.engine = "gate"
    /\ timGate = "open"
    /\ timGate' = c
    /\ TimGoto(c, "stop")
    /\ ArmUnchanged /\ FixedUnchanged /\ LifeUnchanged
    /\ UNCHANGED <<timEver, timActive, timEngine>>

(* ... then clear the flag, cancel the kernel timer and open the gate.       *)
StopGated(c) ==
    /\ CanRun(c)
    /\ timPc[c] = "stop"
    /\ Disarm
    /\ timActive' = FALSE
    /\ timOwed' = FALSE
    /\ timQuiet' = TRUE
    /\ timGate' = "open"
    /\ \E pc \in AfterStop : TimGoto(c, pc)
    /\ FixedUnchanged /\ LifeUnchanged
    /\ UNCHANGED <<timFired, timEver, timEngine>>

-------------------------------------------------------------------------------
(* osal_timer_set_period.                                                    *)

(* POSIX and QNX under the mutex, Zephyr with interrupts masked; bare metal  *)
(* moves the deadline.                                                       *)
timer_set_period(c) ==
    /\ Calling(c)
    /\ Tim.period \in {"locked", "deadline"}
    /\ Tim.engine = "cond" /\ ~Tim.revised => ~timShut
    /\ IF timArmed THEN Arm ELSE UNCHANGED <<timArmed, timDue, timStale>>
    /\ GhostsUnchanged
    /\ FixedUnchanged /\ LifeUnchanged
    /\ UNCHANGED <<timEver, timActive, timGate, timEngine, timPc>>

(* Linux, CMSIS-RTOS2, PX5, ThreadX: ask whether it runs ...                 *)
PeriodCheck(c) ==
    /\ Calling(c)
    /\ Tim.period = "check"
    /\ TimGoto(c, IF timArmed THEN "rearm" ELSE "keep")
    /\ ArmUnchanged /\ FixedUnchanged /\ LifeUnchanged
    /\ UNCHANGED <<timEver, timActive, timGate, timEngine>>

(* ... and then arm it with the new period if it did; PX5 and ThreadX        *)
(* deactivate it in either case.                                             *)
PeriodChange(c) ==
    /\ CanRun(c)
    /\ \/ timPc[c] = "rearm" /\ Arm
       \/ timPc[c] = "keep" /\ IF timOs \in {"px5", "threadx"} THEN Disarm
                               ELSE UNCHANGED <<timArmed, timDue, timStale>>
    /\ TimGoto(c, "idle")
    /\ GhostsUnchanged
    /\ FixedUnchanged /\ LifeUnchanged
    /\ UNCHANGED <<timEver, timActive, timGate, timEngine>>

(* The gated backends store the period of an inactive timer behind the gate. *)
PeriodGate(c) ==
    /\ Calling(c)
    /\ Tim.engine = "gate"
    /\ ~timActive
    /\ timGate = "open"
    /\ timGate' = c
    /\ TimGoto(c, "period")
    /\ ArmUnchanged /\ FixedUnchanged /\ LifeUnchanged
    /\ UNCHANGED <<timEver, timActive, timEngine>>

PeriodGated(c) ==
    /\ CanRun(c)
    /\ timPc[c] = "period"
    /\ timGate' = "open"
    /\ TimGoto(c, "idle")
    /\ ArmUnchanged /\ FixedUnchanged /\ LifeUnchanged
    /\ UNCHANGED <<timEver, timActive, timEngine>>

-------------------------------------------------------------------------------
(* osal_timer_destroy.  timer::close asks that nobody else is in a call, and *)
(* the callback may destroy its own timer where a watcher runs it.           *)
Destroying(c) ==
    /\ Calling(c)
    /\ \A d \in Users \ {c} : timPc[d] = "idle"
    /\ timEngine # "running" \/ c = "callback" \/ Watched

Release == timLive' = FALSE /\ timHandle' = FALSE

(* Not watched: the slot goes back at once, but never after a start attempt  *)
(* (other than Zephyr, with interrupts masked, and bare metal).              *)
timer_destroy_AfterStart(c) ==
    /\ Destroying(c)
    /\ ~Watched
    /\ c = "task"
    /\ Disarm
    /\ timActive' = FALSE
    /\ Release
    /\ timOwed' = FALSE
    /\ FixedUnchanged
    /\ UNCHANGED <<timEver, timGate, timShut, timSelf, timEngine, timPc, timFired, timQuiet>>

timer_destroy(c) ==
    /\ Destroying(c)
    /\ ~Watched
    /\ c = "task"
    /\ Tim.engine \in {"kernel", "gate"} => ~timEver
    /\ Disarm
    /\ timActive' = FALSE
    /\ Release
    /\ timOwed' = FALSE
    /\ FixedUnchanged
    /\ UNCHANGED <<timEver, timGate, timShut, timSelf, timEngine, timPc, timFired, timQuiet>>

(* Watched: disarm and shut down; without a watcher the context goes back,   *)
(* in the callback the watcher will release it, otherwise join the watcher.  *)
DestroyShut(c) ==
    /\ Destroying(c)
    /\ Watched
    /\ timShut' = TRUE
    /\ Disarm
    /\ timOwed' = FALSE
    /\ \/ /\ timEngine = "none"
          /\ Release
          /\ UNCHANGED <<timSelf, timPc>>
       \/ /\ timEngine # "none"
          /\ c = "callback"
          /\ timSelf' = TRUE
          /\ timHandle' = FALSE
          /\ UNCHANGED <<timLive, timPc>>
       \/ /\ timEngine # "none"
          /\ c = "task"
          /\ TimGoto(c, "join")
          /\ UNCHANGED <<timHandle, timLive, timSelf>>
    /\ FixedUnchanged
    /\ UNCHANGED <<timActive, timEver, timGate, timEngine, timFired, timQuiet>>

DestroyJoin_NoWait(c) ==
    /\ timPc[c] = "join"
    /\ Release
    /\ TimGoto(c, "idle")
    /\ ArmUnchanged /\ FixedUnchanged
    /\ UNCHANGED <<timShut, timSelf, timActive, timEver, timGate, timEngine>>

DestroyJoin(c) ==
    /\ timPc[c] = "join"
    /\ timEngine = "exited"
    /\ Release
    /\ TimGoto(c, "idle")
    /\ ArmUnchanged /\ FixedUnchanged
    /\ UNCHANGED <<timShut, timSelf, timActive, timEver, timGate, timEngine>>

(* pthread_join fails on Linux or QNX: the handle stays.                     *)
DestroyJoinFails(c) ==
    /\ timPc[c] = "join"
    /\ timOs \in {"linux", "qnx"}
    /\ TimGoto(c, "idle")
    /\ ArmUnchanged /\ FixedUnchanged /\ LifeUnchanged
    /\ UNCHANGED <<timActive, timEver, timGate, timEngine>>

-------------------------------------------------------------------------------
(* The engine.                                                               *)
EngineUnchanged ==
    /\ FixedUnchanged
    /\ UNCHANGED <<timHandle, timShut, timSelf, timEver, timPc>>

EngineGoto(pc) == timEngine' = pc

(* A period passes.  A timerfd that does not repeat is disarmed by it.       *)
Elapse ==
    /\ timArmed
    /\ ~timDue
    /\ timLive
    /\ timDue' = TRUE
    /\ timArmed' = (Tim.engine = "fd" => timAuto)
    /\ GhostsUnchanged
    /\ EngineUnchanged
    /\ UNCHANGED <<timLive, timActive, timGate, timStale, timEngine>>

(* An expiry is taken for the callback.  It is the one the last start or     *)
(* reset is owed, unless the timer was armed again after it.                 *)
Spend(again) ==
    /\ timFired' = IF timFired < 2 THEN timFired + 1 ELSE 2
    /\ timOwed' = (timOwed /\ again)
    /\ UNCHANGED timQuiet

(* The watcher's wait or poll ends.                                          *)
WatcherWakes ==
    /\ Watched
    /\ timStale' = FALSE
    /\ GhostsUnchanged
    /\ UNCHANGED <<timArmed, timDue>>

(* The kernel takes the timer off its list, and puts a periodic one back.    *)
KernelExpires ==
    /\ Tim.engine \in {"kernel", "isr"}
    /\ timArmed' = timAuto
    /\ timDue' = FALSE
    /\ Spend(FALSE)
    /\ UNCHANGED timStale

(* A one-shot watchdog, virtual timer or work item comes up.                 *)
WatchdogFires ==
    /\ Tim.engine = "gate"
    /\ timArmed' = FALSE
    /\ timDue' = FALSE
    /\ GhostsUnchanged
    /\ UNCHANGED timStale

(* bm_advance_timers finds the deadline passed.                              *)
TickFinds ==
    /\ Tim.engine = "tick"
    /\ Spend(FALSE)
    /\ UNCHANGED <<timArmed, timDue, timStale>>

Expire ==
    /\ timEngine = "waiting"
    /\ timLive
    /\ timDue
    /\ EngineGoto("expired")
    /\ WatcherWakes \/ KernelExpires \/ WatchdogFires \/ TickFinds
    /\ EngineUnchanged
    /\ UNCHANGED <<timLive, timActive, timGate>>

(* posix_timer_watcher, qnx_timer_watcher: under the mutex again.            *)
CondExpired ==
    /\ timEngine = "expired"
    /\ Tim.engine = "cond"
    /\ IF timShut \/ ~timArmed \/ (Tim.revised /\ timStale)
       THEN /\ EngineGoto("waiting")
            /\ GhostsUnchanged
            /\ UNCHANGED timArmed
       ELSE /\ timArmed' = timAuto
            /\ EngineGoto("running")
            /\ Spend(timStale)
    /\ EngineUnchanged
    /\ UNCHANGED <<timLive, timActive, timGate, timDue, timStale>>

(* linux_timer_watcher reads the timerfd: the expiry is there unless the     *)
(* timer was set meanwhile; then it calls.                                   *)
FdRead ==
    /\ timEngine = "expired"
    /\ Tim.engine = "fd"
    /\ \/ timDue /\ EngineGoto("read") /\ Spend(FALSE)
       \/ ~timDue /\ EngineGoto("waiting") /\ GhostsUnchanged
    /\ timDue' = FALSE
    /\ EngineUnchanged
    /\ UNCHANGED <<timLive, timActive, timGate, timArmed, timStale>>

(* The trampolines that just call; CMSIS-RTOS clears its flag first.         *)
Dispatch ==
    /\ \/ timEngine = "expired" /\ Tim.engine \in {"kernel", "isr", "tick"}
       \/ timEngine = "read"
    /\ EngineGoto("running")
    /\ timActive' = (timActive /\ timAuto)
    /\ GhostsUnchanged
    /\ EngineUnchanged
    /\ UNCHANGED <<timLive, timGate, timArmed, timDue, timStale>>

(* The gated trampolines: a closed gate drops the expiry ...                 *)
GateTaken ==
    /\ timEngine = "expired"
    /\ Tim.engine = "gate"
    /\ IF timGate = "open"
       THEN timGate' = "engine" /\ EngineGoto("gated")
       ELSE EngineGoto("waiting") /\ UNCHANGED timGate
    /\ GhostsUnchanged
    /\ EngineUnchanged
    /\ UNCHANGED <<timLive, timActive, timArmed, timDue, timStale>>

(* ... and so does an inactive timer, which opens it again.                  *)
GateExpired ==
    /\ timEngine = "gated"
    /\ \/ /\ ~timActive
          /\ timGate' = "open"
          /\ EngineGoto("waiting")
          /\ GhostsUnchanged
          /\ UNCHANGED timActive
       \/ /\ timActive
          /\ timActive' = timAuto
          /\ EngineGoto("read")
          /\ Spend(FALSE)
          /\ UNCHANGED timGate
    /\ EngineUnchanged
    /\ UNCHANGED <<timLive, timArmed, timDue, timStale>>

(* What follows the callback: the watcher waits again, with the old expiry   *)
(* forgotten; the gated trampoline arms a periodic timer that is still       *)
(* active and opens the gate; the tick puts a deadline off or ends it.       *)
WatcherGoesOn ==
    /\ Tim.engine = "cond"
    /\ timDue' = (timDue /\ Tim.revised /\ (timStale \/ ~timAuto))
    /\ UNCHANGED <<timArmed, timStale, timGate>>

TrampolineEnds ==
    /\ Tim.engine \in {"fd", "kernel", "isr"}
    /\ UNCHANGED <<timArmed, timDue, timStale, timGate>>

GateOpens ==
    /\ Tim.engine = "gate"
    /\ timArmed' = (timArmed \/ (timAuto /\ timActive))
    /\ timDue' = FALSE
    /\ timGate' = "open"
    /\ UNCHANGED timStale

TickGoesOn ==
    /\ Tim.engine = "tick"
    /\ timArmed' = (timArmed /\ timAuto)
    /\ timDue' = FALSE
    /\ UNCHANGED <<timStale, timGate>>

CallbackReturns ==
    /\ timEngine = "running"
    /\ timPc["callback"] = "idle"
    /\ EngineGoto("waiting")
    /\ WatcherGoesOn \/ TrampolineEnds \/ GateOpens \/ TickGoesOn
    /\ GhostsUnchanged
    /\ EngineUnchanged
    /\ UNCHANGED <<timLive, timActive>>

(* The watcher sees the shutdown and exits; after a destroy in the callback  *)
(* it releases the context.                                                  *)
WatcherExits ==
    /\ timEngine = "waiting"
    /\ timShut
    /\ EngineGoto("exited")
    /\ timLive' = (timLive /\ ~timSelf)
    /\ ArmUnchanged
    /\ EngineUnchanged
    /\ UNCHANGED <<timActive, timGate>>

-------------------------------------------------------------------------------
TimInit(os) ==
    /\ timOs = os
    /\ timAuto \in BOOLEAN
    /\ timHandle = TRUE
    /\ timLive = TRUE
    /\ timEngine = IF os \in {"posix", "linux"} THEN "none" ELSE "waiting"
    /\ timArmed = FALSE /\ timDue = FALSE /\ timActive = FALSE /\ timEver = FALSE
    /\ timGate = "open" /\ timShut = FALSE /\ timSelf = FALSE /\ timStale = FALSE
    /\ timPc = [c \in Users |-> "idle"]
    /\ timFired = 0 /\ timOwed = FALSE /\ timQuiet = FALSE

TimCall(c) ==
    \/ timer_start(c) \/ StartOnce(c) \/ StartFirst(c) \/ StartSecond(c) \/ StartFails(c)
    \/ timer_stop(c) \/ StopFails(c) \/ StopGate(c) \/ StopGated(c)
    \/ timer_set_period(c) \/ PeriodCheck(c) \/ PeriodChange(c)
    \/ PeriodGate(c) \/ PeriodGated(c)
    \/ timer_destroy(c) \/ DestroyShut(c) \/ DestroyJoin(c) \/ DestroyJoinFails(c)

TimEngine ==
    \/ Elapse \/ Expire \/ CondExpired \/ FdRead \/ Dispatch \/ GateTaken \/ GateExpired
    \/ CallbackReturns \/ WatcherExits

TimNext == (\E c \in Users : TimCall(c)) \/ TimEngine

TimSpec == (\E os \in TimBackends : TimInit(os)) /\ [][TimNext]_timVars

-------------------------------------------------------------------------------
TimTypeOK ==
    /\ timOs \in TimBackends
    /\ {timAuto, timHandle, timLive, timArmed, timDue, timActive, timEver, timShut,
        timSelf, timStale, timOwed, timQuiet} \subseteq BOOLEAN
    /\ timGate \in Users \cup {"open", "engine"}
    /\ timEngine \in {"none", "waiting", "expired", "gated", "read", "running", "exited"}
    /\ timPc \in [Users -> {"idle", "restart", "start", "stop", "rearm", "keep",
                             "period", "join"}]
    /\ timFired \in 0 .. 2

(* Nothing that runs on behalf of the timer outlives its context: when the   *)
(* context or slot has gone back, no expiry is on its way to the callback,   *)
(* the callback is not running and no watcher is left, and the handle is     *)
(* cleared.  This is why osal_timer_destroy refuses after a start attempt,   *)
(* joins its watcher, or masks interrupts.                                   *)
TimClosedIsQuiet ==
    /\ TimTypeOK
    /\ ~timLive =>
          /\ ~timHandle
          /\ timEngine \in IF Watched THEN {"none", "exited"} ELSE {"waiting"}

(* Once a stop has returned ok, no callback begins until the timer is armed  *)
(* again, on the backends whose callback re-reads the active flag behind the *)
(* gate or the mutex, or runs with the task interrupted.  (On the others an  *)
(* expiry the kernel has already dispatched still comes.)                    *)
StopHolds ==
    timQuiet /\ Tim.engine \in {"gate", "cond", "isr", "tick"}
        => ~(timEngine # "running" /\ timEngine' = "running")

(* A one-shot timer expires at most once for a start or reset ("Fires once   *)
(* and stops").                                                              *)
OneShotFiresOnce == ~timAuto => timFired < 2

(* A start or reset that returned ok is not forgotten: until the callback    *)
(* that ends its period, or a stop or destroy, the timer is armed, or its    *)
(* expiry is on the way, or a stop is in progress.                           *)
Pending ==
    \/ timArmed \/ timDue
    \/ timEngine \in {"expired", "gated", "read"}
    \/ timEngine = "running" /\ timAuto
    \/ \E c \in Users : timPc[c] = "stop"
StartedTimerExpires == timOwed /\ ~timShut => Pending

(* A start is answered by one expiry, not two and not none.  At most one on  *)
(* every backend whose set_period is atomic with the expiry (the others:     *)
(* OneShotFiresOnce); not forgotten on every backend but POSIX, bare metal,  *)
(* PX5 and ThreadX (StartedTimerExpires).                                    *)
TimOncePerStart ==
    /\ Tim.period # "check" => OneShotFiresOnce
    /\ timOs \notin {"posix", "bare_metal", "px5", "threadx"} => StartedTimerExpires

===============================================================================
