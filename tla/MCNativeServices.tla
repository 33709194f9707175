-------------------------- MODULE MCNativeServices --------------------------
(* What runs on its own: timers, work queues on kernel workers, stop       *)
(* requests and the waits they end.  A behaviour is one of one of these on *)
(* one backend.                                                            *)
EXTENDS BackendTimer, FreeRtosTimer, NativeWorkQueue, WaitSignal

CONSTANT Parts   \* those explored

VARIABLE part

mcVars == <<part, timVars, frtVars, wkqVars, wsgVars>>

(* What a behaviour is not about stays as it began.                        *)
Of(this, all) == IF part = this THEN all ELSE {CHOOSE os \in all : TRUE}

MCInit ==
  /\ part \in Parts
  /\ \E os \in Of("timer", TimBackends) : TimInit(os) /\ (part # "timer" => timAuto)
  /\ FrtInit /\ (part # "freertos_timer" => frtAuto)
  /\ \E os \in Of("work_queue", WkqOses) : WkqInit(os)
  /\ WsgInit

MCNext ==
  /\ \/ part = "timer" /\ TimNext /\ UNCHANGED <<frtVars, wkqVars, wsgVars>>
     \/ part = "freertos_timer" /\ FrtNext /\ UNCHANGED <<timVars, wkqVars, wsgVars>>
     \/ part = "work_queue" /\ WkqNext /\ UNCHANGED <<timVars, frtVars, wsgVars>>
     \/ part = "wait_signal" /\ WsgNext /\ UNCHANGED <<timVars, frtVars, wkqVars>>
  /\ UNCHANGED part

MCSpec == MCInit /\ [][MCNext]_mcVars /\ FrtFairness /\ WkqFairness /\ WsgFairness
-----------------------------------------------------------------------------
(* When close of a timer or of a stop callback has returned, the callback  *)
(* does not run and will not, and neither the engine nor the list of       *)
(* request_stop refers to what close has released.                         *)
ClosedIsQuiet == TimClosedIsQuiet /\ FrtClosedIsQuiet /\ StpClosedIsQuiet

(* A stopped timer enters no callback until it is started again, and a     *)
(* change of period starts no timer that was not running; and a flush      *)
(* returns ok with everything done that was submitted before it.           *)
ServicesObey == [][StopHolds /\ OnlyIfAsked /\ FlushedMeansDone]_mcVars

(* The calls of the FreeRTOS timer return, since the fence they wait for   *)
(* is executed; so do destroy and flush of a work queue; and a wait ends   *)
(* that is stopped or satisfied: no notification is lost between its check *)
(* and its sleep, whatever the generation wraps to.  What a behaviour is   *)
(* not about is at rest throughout.                                        *)
ServicesReturn ==
  \A t \in WkqTasks, o \in Waiters :
     (frtPc # "idle" \/ WkqMustReturn(t) \/ WsgMustEnd(o))
        ~> (frtPc = "idle" /\ wkqPc[t] = "idle" /\ WaitOver(o))
=============================================================================
