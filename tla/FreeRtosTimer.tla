---------------------------- MODULE FreeRtosTimer ----------------------------
(****************************************************************************)
(* Timers of the FreeRTOS backend: every operation is a command to the      *)
(* timer daemon, which takes commands in order and runs the callbacks       *)
(* between them.  osal_timer_destroy and osal_timer_set_period wait for the *)
(* daemon with fr_timer_fence, a pended function behind their commands; the *)
(* suppress flag covers the moment in which xTimerChangePeriod has started  *)
(* a timer that was not running.                                            *)
(*                                                                          *)
(* One timer, one task and the timer's callback, which may send start and   *)
(* stop commands too (close() asks the caller to see to it that it does not *)
(* while the timer is destroyed).                                           *)
(****************************************************************************)
EXTENDS Integers, Sequences

CONSTANT QueueLength   \* configTIMER_QUEUE_LENGTH

ASSUME FrtAssumption == QueueLength \in Nat \ {0}

VARIABLES frtAuto,      \* periodic or one-shot
          frtLive,      \* the pair and the timer storage are in use
          frtCmds,      \* commands on their way to the daemon
          frtArmed, frtDue,
          frtDaemon,    \* "idle" or "running" the callback
          frtSuppress,  \* fr_cb_pair::suppress
          frtActive,    \* what set_period read
          frtDone,      \* the fence's semaphore has been given
          frtPc,        \* where the task is
          frtAsked      \* ghost: started, or running when set_period looked

frtVars == <<frtAuto, frtLive, frtCmds, frtArmed, frtDue, frtDaemon, frtSuppress,
             frtActive, frtDone, frtPc, frtAsked>>

Room == Len(frtCmds) < QueueLength
Send(cmd) == Room /\ frtCmds' = Append(frtCmds, cmd)
KernelUnchanged == UNCHANGED <<frtAuto, frtArmed, frtDue, frtDaemon, frtAsked>>

------------------------------------------------------------------------------
(* osal_timer_start, _reset and _stop: a command sent without waiting; with *)
(* a full queue they return unknown.                                        *)
FrtCommand ==
    /\ frtLive
    /\ \/ frtPc = "idle"
       \/ frtDaemon = "running" /\ frtPc \notin {"delete", "delete_fence", "delete_wait"}
    /\ \E cmd \in {"start", "stop"} : Send(cmd)
    /\ KernelUnchanged
    /\ UNCHANGED <<frtLive, frtSuppress, frtActive, frtDone, frtPc>>

(* fr_timer_fence: pend a function behind the commands sent so far ...      *)
Fence(from, to) ==
    /\ frtPc = from
    /\ Send("fence")
    /\ frtDone' = FALSE
    /\ frtPc' = to
    /\ KernelUnchanged
    /\ UNCHANGED <<frtLive, frtSuppress, frtActive>>

(* osal_timer_destroy.                                                      *)
DestroyDelete ==
    /\ frtPc = "idle"
    /\ frtLive
    /\ frtPc' = "delete"
    /\ KernelUnchanged
    /\ UNCHANGED <<frtLive, frtCmds, frtSuppress, frtActive, frtDone>>

DestroySend ==
    /\ frtPc = "delete"
    /\ Send("delete")
    /\ frtPc' = "delete_fence"
    /\ KernelUnchanged
    /\ UNCHANGED <<frtLive, frtSuppress, frtActive, frtDone>>

DestroyFence == Fence("delete_fence", "delete_wait")

DestroyRelease_NoFence ==
    /\ frtPc \in {"delete_fence", "delete_wait"}
    /\ frtLive' = FALSE
    /\ frtPc' = "idle"
    /\ KernelUnchanged
    /\ UNCHANGED <<frtCmds, frtSuppress, frtActive, frtDone>>

(* ... and take its semaphore: the timer is gone, the slots go back.        *)
DestroyRelease ==
    /\ frtPc = "delete_wait"
    /\ frtDone
    /\ frtLive' = FALSE
    /\ frtPc' = "idle"
    /\ KernelUnchanged
    /\ UNCHANGED <<frtCmds, frtSuppress, frtActive, frtDone>>

(* osal_timer_set_period: fence, so that earlier commands have taken effect.*)
PeriodFence ==
    /\ frtLive
    /\ Fence("idle", "read_wait")

PeriodRead_NoSuppress ==
    /\ frtPc = "read_wait"
    /\ frtDone
    /\ frtActive' = frtArmed
    /\ frtPc' = "change"
    /\ KernelUnchanged
    /\ UNCHANGED <<frtLive, frtCmds, frtSuppress, frtDone>>

(* xTimerIsTimerActive, and suppress the callback of an inactive timer.     *)
PeriodRead ==
    /\ frtPc = "read_wait"
    /\ frtDone
    /\ frtActive' = frtArmed
    /\ frtSuppress' = ~frtArmed
    /\ frtPc' = "change"
    /\ KernelUnchanged
    /\ UNCHANGED <<frtLive, frtCmds, frtDone>>

(* xTimerChangePeriod; for an inactive timer a stop follows it.             *)
FrtPeriodChange ==
    /\ frtPc = "change"
    /\ Send("change")
    /\ frtPc' = IF frtActive THEN "change_fence" ELSE "change_stop"
    /\ KernelUnchanged
    /\ UNCHANGED <<frtLive, frtSuppress, frtActive, frtDone>>

PeriodStop ==
    /\ frtPc = "change_stop"
    /\ Send("stop")
    /\ frtPc' = "change_fence"
    /\ KernelUnchanged
    /\ UNCHANGED <<frtLive, frtSuppress, frtActive, frtDone>>

PeriodSettle == Fence("change_fence", "change_wait")

PeriodDone ==
    /\ frtPc = "change_wait"
    /\ frtDone
    /\ frtSuppress' = FALSE
    /\ frtPc' = "idle"
    /\ KernelUnchanged
    /\ UNCHANGED <<frtLive, frtCmds, frtActive, frtDone>>

(* The queue stayed full for portMAX_DELAY where that is finite: destroy    *)
(* and set_period give up before they have changed anything.                *)
SendGivesUp ==
    /\ frtPc \in {"delete", "change"}
    /\ ~Room
    /\ frtSuppress' = FALSE
    /\ frtPc' = "idle"
    /\ KernelUnchanged
    /\ UNCHANGED <<frtLive, frtCmds, frtActive, frtDone>>

------------------------------------------------------------------------------
(* The daemon (external): one command at a time, in order.                  *)
DaemonCommand ==
    /\ frtDaemon = "idle"
    /\ frtCmds # <<>>
    /\ frtCmds' = Tail(frtCmds)
    /\ LET cmd == Head(frtCmds)
       IN  /\ frtArmed' = CASE cmd \in {"start", "change"} -> TRUE
                            [] cmd \in {"stop", "delete"} -> FALSE
                            [] OTHER -> frtArmed
           /\ frtDue' = (frtDue /\ cmd = "fence")
           /\ frtDone' = (frtDone \/ cmd = "fence")
           /\ frtAsked' = CASE cmd = "start" -> TRUE
                            [] cmd = "change" -> frtAsked \/ frtActive
                            [] cmd = "stop" -> FALSE
                            [] OTHER -> frtAsked
    /\ UNCHANGED <<frtAuto, frtLive, frtDaemon, frtSuppress, frtActive, frtPc>>

DaemonElapse ==
    /\ frtArmed
    /\ ~frtDue
    /\ frtDue' = TRUE
    /\ UNCHANGED <<frtAuto, frtLive, frtCmds, frtArmed, frtDaemon, frtSuppress, frtActive,
                   frtDone, frtPc, frtAsked>>

(* fr_callback, called by the daemon for an expired timer.                  *)
DaemonExpire ==
    /\ frtDaemon = "idle"
    /\ frtArmed
    /\ frtDue
    /\ frtArmed' = frtAuto
    /\ frtDue' = FALSE
    /\ frtDaemon' = IF frtSuppress THEN "idle" ELSE "running"
    /\ frtAsked' = (frtAsked /\ (frtAuto \/ frtSuppress))
    /\ UNCHANGED <<frtAuto, frtLive, frtCmds, frtSuppress, frtActive, frtDone, frtPc>>

FrtCallbackReturns ==
    /\ frtDaemon = "running"
    /\ frtDaemon' = "idle"
    /\ UNCHANGED <<frtAuto, frtLive, frtCmds, frtArmed, frtDue, frtSuppress, frtActive,
                   frtDone, frtPc, frtAsked>>

------------------------------------------------------------------------------
FrtInit ==
    /\ frtAuto \in BOOLEAN
    /\ frtLive = TRUE
    /\ frtCmds = <<>>
    /\ frtArmed = FALSE /\ frtDue = FALSE
    /\ frtDaemon = "idle"
    /\ frtSuppress = FALSE /\ frtActive = FALSE /\ frtDone = FALSE
    /\ frtPc = "idle"
    /\ frtAsked = FALSE

FrtTask == \/ DestroySend \/ DestroyFence \/ DestroyRelease
           \/ PeriodRead \/ FrtPeriodChange \/ PeriodStop \/ PeriodSettle \/ PeriodDone
FrtDaemon == DaemonCommand \/ DaemonExpire \/ FrtCallbackReturns

FrtNext == FrtCommand \/ DestroyDelete \/ PeriodFence \/ FrtTask \/ SendGivesUp
           \/ FrtDaemon \/ DaemonElapse

(* The daemon runs, and empties its queue between one expiry and the next;  *)
(* a task waiting for room in the queue is woken by the command that makes  *)
(* some.                                                                    *)
FrtFairness == WF_frtVars(FrtDaemon) /\ SF_frtVars(DaemonCommand) /\ SF_frtVars(FrtTask)

FrtSpec == FrtInit /\ [][FrtNext]_frtVars

------------------------------------------------------------------------------
FrtTypeOK ==
    /\ {frtAuto, frtLive, frtArmed, frtDue, frtSuppress, frtActive, frtDone, frtAsked}
          \subseteq BOOLEAN
    /\ frtCmds \in Seq({"start", "stop", "change", "delete", "fence"})
    /\ Len(frtCmds) <= QueueLength
    /\ frtDaemon \in {"idle", "running"}
    /\ frtPc \in {"idle", "delete", "delete_fence", "delete_wait", "read_wait", "change",
                  "change_stop", "change_fence", "change_wait"}

(* When osal_timer_destroy has given the slots back, the daemon holds no    *)
(* command for the timer, does not run its callback and will not: the fence *)
(* ran after the delete.                                                    *)
FrtClosedIsQuiet ==
    /\ FrtTypeOK
    /\ ~frtLive => frtCmds = <<>> /\ frtDaemon = "idle" /\ ~frtArmed

(* A callback runs only on a timer that somebody started, or that was       *)
(* running when osal_timer_set_period looked: changing the period of an     *)
(* inactive timer calls nobody back ("An inactive timer remains inactive"), *)
(* although xTimerChangePeriod starts it.                                   *)
OnlyIfAsked == frtDaemon = "idle" /\ frtDaemon' = "running" => frtAsked

==============================================================================
