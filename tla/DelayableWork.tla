--------------------------- MODULE DelayableWork ---------------------------
(***************************************************************************)
(* The class delayable_work of delayable_work.hpp: one work item whose     *)
(* state and generation share an atomic word.  Callers change it under the *)
(* mutex; the timer's callback and the queue's worker change it without.   *)
(* Callbacks run between any two accesses of a caller, a callback of a     *)
(* timer that was stopped meanwhile and of a delay that was replaced       *)
(* included.  Two accesses are one step only where nobody can tell: the    *)
(* load and the exchange of compare_exchange_state, the error's code and   *)
(* flag, the two times.                                                    *)
(*                                                                         *)
(* The timer and the work queue are modelled by their contracts: any call  *)
(* to them may fail, a timer fires no earlier than its period after start, *)
(* and a stop does not wait for a callback that is already on its way.     *)
(***************************************************************************)
EXTENDS Integers, FiniteSets

CONSTANTS Threads,      \* callers
          NoThread,
          Callbacks,    \* contexts in which the timer's callback can run
          Delays,       \* the delays callers ask for; 0 enqueues at once
          MaxTime,      \* bound on the clock
          MaxArms       \* bound on the number of times the item is armed

ASSUME DelayableWorkAssumption ==
  /\ NoThread \notin Threads
  /\ Delays \subseteq Nat /\ MaxTime \in Nat /\ MaxArms \in Nat

VARIABLES st, gen,        \* state_: the state and the generation
          start, delay,   \* start_low_/high_ and delay_low_/high_
          dispatch_error, \* dispatch_error_: "ok" or the error of submit
          dispatch_failed,
          mtx,            \* owner of mtx_
          pc, arg,        \* where each caller is, and the delay it passes
          cb,             \* the timer callbacks: pc and the locals of on_timer
          worker,         \* the worker: pc and the generation it loaded
          now,            \* osal_clock_monotonic_ms
          due,            \* when the timer fires, or Never
          expiries,       \* expiries whose callback has not begun
          thunks,         \* copies of work_thunk in the queue
          arm,            \* ghost: time and delay of the last arm, and
                          \* FALSE once its start has failed
          quiet,          \* ghost: cancel returned ok, nothing called since
          unreported,     \* ghost: an expiry could not submit and no caller
                          \* has been told
          owed,           \* ghost: unreported when this flush saw idle
          lost            \* ghost: cancel_all took a thunk, or a stop failed

wordVars == <<st, gen>>
timeVars == <<start, delay>>
errorVars == <<dispatch_error, dispatch_failed>>
envVars == <<now, due, expiries, thunks>>
flushGhosts == <<unreported, owed>>
vars == <<wordVars, timeVars, errorVars, mtx, pc, arg, cb, worker, envVars,
          arm, quiet, flushGhosts, lost>>

Never == MaxTime + 1 + MaxTime
States == {"idle", "armed", "queued", "running", "stopping"}
OpPcs == {"sched_go", "resched_cas", "resched_stop", "cancel_cas", "cancel_stop",
          "arm_period", "arm_times", "arm_publish", "arm_start", "enqueue", "submit"}
Pcs == OpPcs \cup {"out", "flush", "consume", "consumed"}

TypeOK ==
  /\ st \in States /\ gen \in 0 .. MaxArms
  /\ start \in 0 .. MaxTime /\ delay \in Delays \cup {0}
  /\ dispatch_error \in {"ok", "error"} /\ dispatch_failed \in BOOLEAN
  /\ mtx \in Threads \cup {NoThread}
  /\ pc \in [Threads -> Pcs]
  /\ \A t \in Threads : pc[t] \in OpPcs <=> mtx = t
  /\ expiries \in 0 .. MaxArms /\ thunks \in Nat

Init ==
  /\ st = "idle" /\ gen = 0
  /\ start = 0 /\ delay = 0
  /\ dispatch_error = "ok" /\ dispatch_failed = FALSE
  /\ mtx = NoThread
  /\ pc = [t \in Threads |-> "out"]
  /\ arg = [t \in Threads |-> [delay |-> 0, sampled |-> 0]]
  /\ cb = [c \in Callbacks |-> [pc |-> "none", gen |-> 0]]
  /\ worker = [pc |-> "none", gen |-> 0]
  /\ now = 0 /\ due = Never /\ expiries = 0 /\ thunks = 0
  /\ arm = [at |-> 0, delay |-> 0, accepted |-> FALSE]
  /\ quiet = FALSE
  /\ unreported = FALSE /\ owed = [t \in Threads |-> FALSE]
  /\ lost = FALSE

Goto(t, label) == pc' = [pc EXCEPT ![t] = label]

(* The lock_guard leaves its scope.                                        *)
Return(t) == Goto(t, "out") /\ mtx' = NoThread

(* A caller is told of the failure, or takes over the item.                *)
Reported == unreported' = FALSE /\ owed' = [t \in Threads |-> FALSE]

(* clear_dispatch_error_locked and set_dispatch_error.                     *)
clear_dispatch_error_locked ==
  /\ dispatch_error' = "ok" /\ dispatch_failed' = FALSE
  /\ Reported

set_dispatch_error == dispatch_error' = "error" /\ dispatch_failed' = TRUE

-----------------------------------------------------------------------------
Locks(t) == pc[t] = "out" /\ mtx = NoThread

(* Variant: schedule does not lock.                                        *)
Schedule_Unlocked(t, d) ==
  /\ pc[t] = "out" /\ st = "idle"
  /\ arg' = [arg EXCEPT ![t].delay = d]
  /\ clear_dispatch_error_locked
  /\ Goto(t, "sched_go")
  /\ quiet' = FALSE
  /\ UNCHANGED <<wordVars, timeVars, mtx, cb, worker, envVars, arm, lost>>

(* schedule: refused unless idle.                                          *)
Schedule(t, d) ==
  /\ Locks(t)
  /\ quiet' = FALSE
  /\ IF st # "idle"
       THEN UNCHANGED <<mtx, pc, arg, errorVars, flushGhosts>>
       ELSE /\ mtx' = t
            /\ arg' = [arg EXCEPT ![t].delay = d]
            /\ clear_dispatch_error_locked
            /\ Goto(t, "sched_go")
  /\ UNCHANGED <<wordVars, timeVars, cb, worker, envVars, arm, lost>>

(* schedule and reschedule end with enqueue_locked or arm_locked.          *)
Proceed(t) ==
  /\ pc[t] = "sched_go"
  /\ Goto(t, IF arg[t].delay = 0 THEN "enqueue" ELSE "arm_period")
  /\ UNCHANGED <<wordVars, timeVars, errorVars, mtx, arg, cb, worker, envVars, arm,
                 quiet, flushGhosts, lost>>

(* reschedule: the load of the state ...                                   *)
Reschedule(t, d) ==
  /\ Locks(t)
  /\ quiet' = FALSE
  /\ IF st \in {"queued", "running", "stopping"}
       THEN UNCHANGED <<mtx, pc, arg, errorVars, flushGhosts>>
       ELSE /\ mtx' = t
            /\ arg' = [arg EXCEPT ![t].delay = d]
            /\ IF st = "armed"
                 THEN Goto(t, "resched_cas") /\ UNCHANGED <<errorVars, flushGhosts>>
                 ELSE Goto(t, "sched_go") /\ clear_dispatch_error_locked
  /\ UNCHANGED <<wordVars, timeVars, cb, worker, envVars, arm, lost>>

(* ... the exchange of armed for stopping ...                              *)
RescheduleCas(t) ==
  /\ pc[t] = "resched_cas"
  /\ IF st = "armed"
       THEN st' = "stopping" /\ Goto(t, "resched_stop") /\ UNCHANGED mtx
       ELSE Return(t) /\ UNCHANGED st
  /\ UNCHANGED <<gen, timeVars, errorVars, arg, cb, worker, envVars, arm, quiet, flushGhosts, lost>>

(* ... and the stop of the timer, which may fail and leave it running.     *)
RescheduleStop(t) ==
  /\ pc[t] = "resched_stop"
  /\ \/ /\ due' = Never /\ st' = "idle"
        /\ clear_dispatch_error_locked
        /\ Goto(t, "sched_go") /\ UNCHANGED <<mtx, lost>>
     \/ /\ st' = "armed" /\ lost' = TRUE
        /\ Return(t) /\ UNCHANGED <<due, errorVars, flushGhosts>>
  /\ UNCHANGED <<gen, timeVars, arg, cb, worker, now, expiries, thunks, arm, quiet>>

(* cancel: the load of the state, the exchange and the stop.               *)
Cancel(t) ==
  /\ Locks(t)
  /\ IF st = "idle"
       THEN clear_dispatch_error_locked /\ quiet' = TRUE /\ UNCHANGED <<mtx, pc>>
       ELSE mtx' = t /\ Goto(t, "cancel_cas") /\ UNCHANGED <<errorVars, quiet, flushGhosts>>
  /\ UNCHANGED <<wordVars, timeVars, arg, cb, worker, envVars, arm, lost>>

(* Variant: whatever is not running yet counts as cancelled.               *)
CancelCas_Queued(t) ==
  /\ pc[t] = "cancel_cas"
  /\ IF st = "armed"
       THEN st' = "stopping" /\ Goto(t, "cancel_stop") /\ UNCHANGED <<mtx, quiet>>
       ELSE Return(t) /\ quiet' = (st # "running") /\ UNCHANGED st
  /\ UNCHANGED <<gen, timeVars, errorVars, arg, cb, worker, envVars, arm, flushGhosts, lost>>

CancelCas(t) ==
  /\ pc[t] = "cancel_cas"
  /\ IF st = "armed"
       THEN st' = "stopping" /\ Goto(t, "cancel_stop") /\ UNCHANGED <<mtx, quiet>>
       ELSE Return(t) /\ quiet' = (st = "idle") /\ UNCHANGED st
  /\ UNCHANGED <<gen, timeVars, errorVars, arg, cb, worker, envVars, arm, flushGhosts, lost>>

CancelStop(t) ==
  /\ pc[t] = "cancel_stop"
  /\ \/ /\ due' = Never /\ st' = "idle" /\ quiet' = TRUE
        /\ clear_dispatch_error_locked
        /\ UNCHANGED lost
     \/ /\ st' = "armed" /\ lost' = TRUE
        /\ UNCHANGED <<due, quiet, errorVars, flushGhosts>>
  /\ Return(t)
  /\ UNCHANGED <<gen, timeVars, arg, cb, worker, now, expiries, thunks, arm>>

-----------------------------------------------------------------------------
(* arm_locked: the clock is read and the period set, which may fail; the   *)
(* times are stored; the word is published with the next generation; the   *)
(* timer is started, which may fail.                                       *)
ArmPeriod(t) ==
  /\ pc[t] = "arm_period"
  /\ \/ /\ gen < MaxArms
        /\ arg' = [arg EXCEPT ![t].sampled = now]
        /\ Goto(t, "arm_times") /\ UNCHANGED mtx
     \/ Return(t) /\ UNCHANGED arg
  /\ UNCHANGED <<wordVars, timeVars, errorVars, cb, worker, envVars, arm, quiet, flushGhosts, lost>>

ArmTimes(t) ==
  /\ pc[t] = "arm_times"
  /\ start' = arg[t].sampled /\ delay' = arg[t].delay
  /\ Goto(t, "arm_publish")
  /\ UNCHANGED <<wordVars, errorVars, mtx, arg, cb, worker, envVars, arm, quiet, flushGhosts, lost>>

(* Variant: the generation is not advanced.                                *)
ArmPublish_SameGeneration(t) ==
  /\ pc[t] = "arm_publish"
  /\ st' = "armed"
  /\ arm' = [at |-> arg[t].sampled, delay |-> arg[t].delay, accepted |-> TRUE]
  /\ Goto(t, "arm_start")
  /\ UNCHANGED <<gen, timeVars, errorVars, mtx, arg, cb, worker, envVars, quiet, flushGhosts, lost>>

ArmPublish(t) ==
  /\ pc[t] = "arm_publish"
  /\ st' = "armed" /\ gen' = gen + 1
  /\ arm' = [at |-> arg[t].sampled, delay |-> arg[t].delay, accepted |-> TRUE]
  /\ Goto(t, "arm_start")
  /\ UNCHANGED <<timeVars, errorVars, mtx, arg, cb, worker, envVars, quiet, flushGhosts, lost>>

ArmStart(t) ==
  /\ pc[t] = "arm_start"
  /\ \/ due' = now + arg[t].delay /\ UNCHANGED <<st, arm, flushGhosts>>
     \/ /\ st' = "idle" /\ UNCHANGED due
        /\ arm' = [arm EXCEPT !.accepted = FALSE] /\ Reported
  /\ Return(t)
  /\ UNCHANGED <<gen, timeVars, errorVars, arg, cb, worker, now, expiries, thunks, quiet, lost>>

(* enqueue_locked.                                                         *)
Enqueue(t) ==
  /\ pc[t] = "enqueue"
  /\ st' = "queued"
  /\ Goto(t, "submit")
  /\ UNCHANGED <<gen, timeVars, errorVars, mtx, arg, cb, worker, envVars, arm, quiet, flushGhosts, lost>>

EnqueueSubmit(t) ==
  /\ pc[t] = "submit"
  /\ \/ thunks' = thunks + 1 /\ UNCHANGED <<st, errorVars>>
     \/ st' = "idle" /\ set_dispatch_error /\ UNCHANGED thunks
  /\ Return(t)
  /\ UNCHANGED <<gen, timeVars, arg, cb, worker, now, due, expiries, arm, quiet, flushGhosts, lost>>

-----------------------------------------------------------------------------
(* flush polls until idle or until its timeout, then takes the error: the  *)
(* flag first, the code after it.                                          *)
Flush(t) ==
  /\ pc[t] = "out"
  /\ Goto(t, "flush")
  /\ UNCHANGED <<wordVars, timeVars, errorVars, mtx, arg, cb, worker, envVars, arm, quiet,
                 flushGhosts, lost>>

FlushPolls(t) ==
  /\ pc[t] = "flush"
  /\ \/ /\ st = "idle"
        /\ Goto(t, "consume")
        /\ owed' = [owed EXCEPT ![t] = unreported]
     \/ /\ st # "idle"
        /\ Goto(t, "out")
        /\ UNCHANGED owed
  /\ UNCHANGED <<wordVars, timeVars, errorVars, mtx, arg, cb, worker, envVars, arm, quiet,
                 unreported, lost>>

ConsumeFlag(t) ==
  /\ pc[t] = "consume"
  /\ dispatch_failed' = FALSE
  /\ IF dispatch_failed
       THEN /\ Goto(t, "consumed")
            /\ unreported' = FALSE
            /\ owed' = [u \in Threads |-> u = t /\ owed[t]]
       ELSE Goto(t, "out") /\ UNCHANGED flushGhosts
  /\ UNCHANGED <<wordVars, timeVars, dispatch_error, mtx, arg, cb, worker, envVars, arm, quiet, lost>>

ConsumeCode(t) ==
  /\ pc[t] = "consumed"
  /\ dispatch_error' = "ok"
  /\ Goto(t, "out")
  /\ IF dispatch_error = "error" THEN Reported ELSE UNCHANGED flushGhosts
  /\ UNCHANGED <<wordVars, timeVars, dispatch_failed, mtx, arg, cb, worker, envVars, arm, quiet, lost>>

-----------------------------------------------------------------------------
(* on_timer: the load of the word ...                                      *)
CbGoto(c, label) == cb' = [cb EXCEPT ![c].pc = label]

OnTimer(c) ==
  /\ cb[c].pc = "none"
  /\ expiries > 0
  /\ expiries' = expiries - 1
  /\ cb' = [cb EXCEPT ![c] = [pc |-> IF st = "armed" THEN "times" ELSE "none", gen |-> gen]]
  /\ UNCHANGED <<wordVars, timeVars, errorVars, mtx, pc, arg, worker, now, due, thunks, arm,
                 quiet, flushGhosts, lost>>

(* ... of the times and the clock; a premature expiry is dropped ...       *)
OnTimerTimes(c) ==
  /\ cb[c].pc = "times"
  /\ CbGoto(c, IF now - start < delay THEN "none" ELSE "cas")
  /\ UNCHANGED <<wordVars, timeVars, errorVars, mtx, pc, arg, worker, envVars, arm, quiet,
                 flushGhosts, lost>>

(* ... the exchange of the word that was loaded ...                        *)
OnTimerCas(c) ==
  /\ cb[c].pc = "cas"
  /\ IF st = "armed" /\ gen = cb[c].gen
       THEN st' = "queued" /\ CbGoto(c, "submit")
       ELSE CbGoto(c, "none") /\ UNCHANGED st
  /\ UNCHANGED <<gen, timeVars, errorVars, mtx, pc, arg, worker, envVars, arm, quiet, flushGhosts, lost>>

(* Variant: idle is stored before the error is.                            *)
OnTimerSubmit_ErrorLast(c) ==
  /\ cb[c].pc = "submit"
  /\ \/ thunks' = thunks + 1 /\ CbGoto(c, "none") /\ UNCHANGED <<st, unreported>>
     \/ CbGoto(c, "error") /\ unreported' = (arm.accepted /\ cb[c].gen = gen) /\ st' = "idle" /\ UNCHANGED thunks
  /\ UNCHANGED <<gen, timeVars, errorVars, mtx, pc, arg, worker, now, due, expiries, arm,
                 quiet, owed, lost>>

(* ... the submission, and when it fails the error and, after it, idle,    *)
(* which store_state merges with the generation it has loaded.             *)
OnTimerSubmit(c) ==
  /\ cb[c].pc = "submit"
  /\ \/ thunks' = thunks + 1 /\ CbGoto(c, "none") /\ UNCHANGED unreported
     \/ CbGoto(c, "error") /\ unreported' = (arm.accepted /\ cb[c].gen = gen) /\ UNCHANGED thunks
  /\ UNCHANGED <<wordVars, timeVars, errorVars, mtx, pc, arg, worker, now, due, expiries, arm,
                 quiet, owed, lost>>

(* Variant: the error path forgets the state.                              *)
OnTimerError_NoIdle(c) ==
  /\ cb[c].pc = "error"
  /\ set_dispatch_error
  /\ CbGoto(c, "none")
  /\ UNCHANGED <<wordVars, timeVars, mtx, pc, arg, worker, envVars, arm, quiet, flushGhosts, lost>>

OnTimerError(c) ==
  /\ cb[c].pc = "error"
  /\ set_dispatch_error
  /\ CbGoto(c, "load")
  /\ UNCHANGED <<wordVars, timeVars, mtx, pc, arg, worker, envVars, arm, quiet, flushGhosts, lost>>

OnTimerLoad(c) ==
  /\ cb[c].pc = "load"
  /\ cb' = [cb EXCEPT ![c] = [pc |-> "store", gen |-> gen]]
  /\ UNCHANGED <<wordVars, timeVars, errorVars, mtx, pc, arg, worker, envVars, arm, quiet,
                 flushGhosts, lost>>

OnTimerStore(c) ==
  /\ cb[c].pc = "store"
  /\ st' = "idle" /\ gen' = cb[c].gen
  /\ CbGoto(c, "none")
  /\ UNCHANGED <<timeVars, errorVars, mtx, pc, arg, worker, envVars, arm, quiet, flushGhosts, lost>>

CallbackStep(c) ==
  \/ OnTimer(c) \/ OnTimerTimes(c) \/ OnTimerCas(c) \/ OnTimerSubmit(c)
  \/ OnTimerError(c) \/ OnTimerLoad(c) \/ OnTimerStore(c)

-----------------------------------------------------------------------------
(* run_work: the load and the exchange of queued for running, the callback *)
(* and the exchange of running for idle.                                   *)
WorkerTakes ==
  /\ worker.pc = "none"
  /\ thunks > 0
  /\ thunks' = thunks - 1
  /\ worker' = [pc |-> IF st = "queued" THEN "cas" ELSE "none", gen |-> gen]
  /\ UNCHANGED <<wordVars, timeVars, errorVars, mtx, pc, arg, cb, now, due, expiries, arm,
                 quiet, flushGhosts, lost>>

WorkerStarts ==
  /\ worker.pc = "cas"
  /\ IF st = "queued" /\ gen = worker.gen
       THEN st' = "running" /\ worker' = [worker EXCEPT !.pc = "func"]
       ELSE worker' = [worker EXCEPT !.pc = "none"] /\ UNCHANGED st
  /\ UNCHANGED <<gen, timeVars, errorVars, mtx, pc, arg, cb, envVars, arm, quiet, flushGhosts, lost>>

WorkerEnds ==
  /\ worker.pc = "func"
  /\ st' = IF st = "running" THEN "idle" ELSE st
  /\ worker' = [worker EXCEPT !.pc = "none"]
  /\ UNCHANGED <<gen, timeVars, errorVars, mtx, pc, arg, cb, envVars, arm, quiet, flushGhosts, lost>>

WorkerStep == WorkerTakes \/ WorkerStarts \/ WorkerEnds

-----------------------------------------------------------------------------
(* The clock, the timer, and cancel_all on the target queue.               *)
Tick ==
  /\ now < MaxTime
  /\ now' = now + 1
  /\ UNCHANGED <<wordVars, timeVars, errorVars, mtx, pc, arg, cb, worker, due, expiries, thunks,
                 arm, quiet, flushGhosts, lost>>

Expire ==
  /\ due <= now
  /\ due' = Never
  /\ expiries' = expiries + 1
  /\ UNCHANGED <<wordVars, timeVars, errorVars, mtx, pc, arg, cb, worker, now, thunks, arm,
                 quiet, flushGhosts, lost>>

CancelAll ==
  /\ thunks > 0
  /\ thunks' = 0 /\ lost' = TRUE
  /\ UNCHANGED <<wordVars, timeVars, errorVars, mtx, pc, arg, cb, worker, now, due, expiries,
                 arm, quiet, flushGhosts>>

(* The steps of a call that has the mutex, or of a flush.                  *)
InCall(t) ==
  \/ Proceed(t) \/ RescheduleCas(t) \/ RescheduleStop(t) \/ CancelCas(t) \/ CancelStop(t)
  \/ ArmPeriod(t) \/ ArmTimes(t) \/ ArmPublish(t) \/ ArmStart(t)
  \/ Enqueue(t) \/ EnqueueSubmit(t) \/ ConsumeFlag(t) \/ ConsumeCode(t)

Calls(t) ==
  \/ \E d \in Delays : Schedule(t, d) \/ Reschedule(t, d)
  \/ Cancel(t) \/ Flush(t) \/ FlushPolls(t)

Next ==
  \/ \E t \in Threads : Calls(t) \/ InCall(t)
  \/ \E c \in Callbacks : CallbackStep(c)
  \/ WorkerStep
  \/ Tick \/ Expire \/ CancelAll

Spec == Init /\ [][Next]_vars

(* Callers finish what they began, time passes, a timer that is due fires, *)
(* its callback runs and the worker runs what is queued.                   *)
FairSpec ==
  /\ Spec
  /\ \A t \in Threads : WF_vars(InCall(t))
  /\ \A c \in Callbacks : WF_vars(CallbackStep(c))
  /\ WF_vars(WorkerStep) /\ WF_vars(Tick) /\ WF_vars(Expire)

-----------------------------------------------------------------------------
(* An expiry moves the item to the queue only when the delay of the arm in *)
(* force has passed: the expiry of a delay that was cancelled or replaced, *)
(* however late and wherever its callback was interrupted, never does.     *)
(* (Every state a step starts from is well typed.)                         *)
NeverEarly ==
  [][/\ TypeOK
     /\ \A c \in Callbacks : cb[c].pc = "cas" /\ st = "armed" /\ st' = "queued"
          => now - arm.at >= arm.delay]_vars

(* After a cancel that returned ok, the callback is not entered until      *)
(* somebody schedules the item again.                                      *)
CancelledStaysCancelled == [][quiet => ~(worker.pc = "cas" /\ worker'.pc = "func")]_vars

(* A flush that found the item idle after an expiry of the arm in force    *)
(* could not submit it, and before anybody cleared or took the error, does *)
(* not return ok: the error is stored before idle is.                      *)
FlushReportsFailure ==
  [][\A t \in Threads :
       /\ pc[t] = "consume" /\ pc'[t] = "out" => ~owed[t]
       /\ pc[t] = "consumed" /\ pc'[t] = "out" => dispatch_error = "error" \/ ~owed[t]]_vars

(* A pending item does not stay pending, so that schedule is accepted and  *)
(* flush can return again, unless cancel_all took its thunk or the timer   *)
(* refused a stop.  (A timer that is due after MaxTime never fires here.)  *)
PendingEnds ==
  ~ <>[](~lost /\ st # "idle" /\ ~(MaxTime < due /\ due < Never))
=============================================================================
