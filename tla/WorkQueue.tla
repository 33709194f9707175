----------------------------- MODULE WorkQueue -----------------------------
(***************************************************************************)
(* The emulated work queue of emulated_work_queue.inl: a ring of work      *)
(* items behind the mutex `mtx`, a counting semaphore `not_empty` for the  *)
(* worker thread, and a condition variable (module Condvar, whose mutex is *)
(* `mtx`) on which flush waits.                                            *)
(*                                                                         *)
(* A section under mtx is one step; the worker's take of the semaphore is  *)
(* a step of its own.  cancel_all empties the ring but can miss the token  *)
(* the worker has already taken, so tokens and items drift apart by one.   *)
(* A work item is its sequence number.                                     *)
(***************************************************************************)
EXTENDS Condvar

CONSTANTS Depth,       \* capacity of the ring
          MaxSubmits,  \* bound on the items ever accepted
          JoinKind     \* what the backend's osal_thread_join does

ASSUME WorkQueueAssumption ==
  /\ Depth \in Nat \ {0}
  /\ MaxSubmits \in Nat
  /\ JoinKind \in {"waits", "terminates", "not_supported"}

VARIABLES ring, head, tail, count,
          not_empty,            \* the semaphore's count, at most Depth + 1
          submitted_sequence,
          completed_sequence,
          active_sequence,
          stop,
          worker,               \* where the worker thread is
          phase,                \* of osal_work_queue_destroy
          pc,                   \* whether each client is inside flush
          target,               \* its local target_sequence
          called,               \* the last item submitted when it called flush
          left,                 \* live items that a flush which returned ok has missed
          executed,             \* items whose function has returned
          cancelled             \* items discarded by cancel_all

queueVars == <<ring, head, tail, count, not_empty, submitted_sequence>>
workVars == <<completed_sequence, active_sequence, stop, worker, phase>>
flushVars == <<pc, target, called, left>>
ghostVars == <<executed, cancelled>>
wqVars == <<queueVars, workVars, flushVars, ghostVars>>
vars == <<cvVars, wqVars>>

Indices == 0 .. Depth - 1
SequenceNumbers == 0 .. MaxSubmits

TypeOK ==
  /\ CvTypeOK
  /\ ring \in [Indices -> SequenceNumbers]
  /\ head \in Indices
  /\ tail \in Indices
  /\ count \in 0 .. Depth
  /\ not_empty \in 0 .. Depth + 1
  /\ submitted_sequence \in SequenceNumbers
  /\ completed_sequence \in SequenceNumbers
  /\ active_sequence \in SequenceNumbers
  /\ stop \in BOOLEAN
  /\ worker \in {"take", "took", "run", "done"}
  /\ phase \in {"up", "joining", "destroyed"}
  /\ pc \in [Threads -> {"idle", "flush"}]
  /\ target \in [Threads -> SequenceNumbers]
  /\ called \in [Threads -> SequenceNumbers]
  /\ left \in SUBSET SequenceNumbers
  /\ executed \in SUBSET SequenceNumbers
  /\ cancelled \in SUBSET SequenceNumbers

(* osal_work_queue_create.                                                 *)
Init ==
  /\ CvInit
  /\ ring = [i \in Indices |-> 0]
  /\ head = 0 /\ tail = 0 /\ count = 0
  /\ not_empty = 0
  /\ submitted_sequence = 0 /\ completed_sequence = 0 /\ active_sequence = 0
  /\ stop = FALSE
  /\ worker = "take"
  /\ phase = "up"
  /\ pc = [t \in Threads |-> "idle"]
  /\ target = [t \in Threads |-> 0]
  /\ called = [t \in Threads |-> 0]
  /\ left = {}
  /\ executed = {} /\ cancelled = {}

emu_wq_advance_index(index) == IF index + 1 = Depth THEN 0 ELSE index + 1
emu_wq_retreat_index(index) == IF index = 0 THEN Depth - 1 ELSE index - 1

(* A give at the maximal count, Depth + 1, is an overflow the code ignores.*)
Give == not_empty' = IF not_empty <= Depth THEN not_empty + 1 ELSE not_empty

(* The i-th queued item, the items queued and the one being executed.      *)
Item(i) == ring[(head + i) % Depth]
Queued == {Item(i) : i \in 0 .. count - 1}
Running == IF worker = "run" THEN {active_sequence} ELSE {}

(* A client about to make a call; producers are quiesced before destroy.   *)
Idle(t) == pc[t] = "idle" /\ mutex = NoThread /\ phase = "up"

-----------------------------------------------------------------------------
(* Variant: the ring accepts one item too many.                            *)
osal_work_queue_submit_OffByOne(t) ==
  /\ Idle(t)
  /\ count <= Depth /\ submitted_sequence < MaxSubmits
  /\ submitted_sequence' = submitted_sequence + 1
  /\ ring' = [ring EXCEPT ![tail] = submitted_sequence']
  /\ tail' = emu_wq_advance_index(tail)
  /\ count' = count + 1
  /\ Give
  /\ UNCHANGED <<cvVars, head, workVars, flushVars, ghostVars>>

(* A full ring refuses the item with overflow and changes nothing.         *)
osal_work_queue_submit(t) ==
  /\ Idle(t)
  /\ count < Depth /\ submitted_sequence < MaxSubmits
  /\ submitted_sequence' = submitted_sequence + 1
  /\ ring' = [ring EXCEPT ![tail] = submitted_sequence']
  /\ tail' = emu_wq_advance_index(tail)
  /\ count' = count + 1
  /\ Give
  /\ UNCHANGED <<cvVars, head, workVars, flushVars, ghostVars>>

(* Variant: tail is left where it was.                                     *)
osal_work_queue_cancel_all_KeepsTail(t) ==
  /\ Idle(t)
  /\ cancelled' = cancelled \cup Queued
  /\ head' = 0 /\ count' = 0
  /\ not_empty' = IF not_empty > count THEN not_empty - count ELSE 0
  /\ UNCHANGED <<cvVars, ring, tail, submitted_sequence, workVars, flushVars, executed>>

(* Variant: the semaphore is not drained.                                  *)
osal_work_queue_cancel_all_NoDrain(t) ==
  /\ Idle(t)
  /\ cancelled' = cancelled \cup Queued
  /\ head' = 0 /\ tail' = 0 /\ count' = 0
  /\ UNCHANGED <<cvVars, ring, not_empty, submitted_sequence, workVars, flushVars, executed>>

(* The ring is emptied and the semaphore taken once for each item, without *)
(* blocking.                                                               *)
osal_work_queue_cancel_all(t) ==
  /\ Idle(t)
  /\ cancelled' = cancelled \cup Queued
  /\ head' = 0 /\ tail' = 0 /\ count' = 0
  /\ not_empty' = IF not_empty > count THEN not_empty - count ELSE 0
  /\ UNCHANGED <<cvVars, ring, submitted_sequence, workVars, flushVars, executed>>

-----------------------------------------------------------------------------
(* Variant: the item that is being executed is forgotten.                  *)
FlushTarget_IgnoresActive ==
  IF count # 0 THEN ring[emu_wq_retreat_index(tail)] ELSE completed_sequence

(* The last live item when flush is called: the last queued one, else the  *)
(* one being executed.                                                     *)
FlushTarget ==
  IF count # 0 THEN ring[emu_wq_retreat_index(tail)]
  ELSE IF worker = "run" THEN active_sequence
  ELSE completed_sequence

Return(t) ==
  /\ mutex' = NoThread
  /\ pc' = [pc EXCEPT ![t] = "idle"]
  /\ target' = [target EXCEPT ![t] = 0]
  /\ called' = [called EXCEPT ![t] = 0]

(* One pass of flush's loop by a thread that holds mtx: the target has     *)
(* been reached, the deadline of a timed call has passed, or the thread    *)
(* waits on the condvar, which fails when the condvar has no free slot.    *)
FlushLoop(t, goal, last, withTimeout) ==
  \/ /\ completed_sequence >= goal
     /\ left' = left \cup {s \in Queued \cup Running : s <= last}
     /\ Return(t)
     /\ UNCHANGED cvRest
  \/ /\ completed_sequence < goal /\ withTimeout
     /\ Return(t)
     /\ UNCHANGED <<cvRest, left>>
  \/ /\ completed_sequence < goal
     /\ WaitCall(t, withTimeout)
     /\ IF FreeSlots = {}
          THEN Return(t)
          ELSE /\ mutex' = t
               /\ pc' = [pc EXCEPT ![t] = "flush"]
               /\ target' = [target EXCEPT ![t] = goal]
               /\ called' = [called EXCEPT ![t] = last]
     /\ UNCHANGED left

osal_work_queue_flush(t) ==
  /\ Idle(t)
  /\ \E withTimeout \in BOOLEAN : FlushLoop(t, FlushTarget, submitted_sequence, withTimeout)
  /\ UNCHANGED <<queueVars, workVars, ghostVars>>

(* osal_condvar_wait has returned, notified or timed out.                  *)
FlushResumes(t) ==
  /\ pc[t] = "flush" /\ wpc[t] = "out"
  /\ mutex = t
  /\ FlushLoop(t, target[t], called[t], timed[t])
  /\ UNCHANGED <<queueVars, workVars, ghostVars>>

InWaitStep(t) == WaitStep(t) /\ UNCHANGED wqVars

-----------------------------------------------------------------------------
(* wq_worker_entry blocks on the semaphore ...                             *)
WorkerTakes ==
  /\ worker = "take"
  /\ not_empty > 0
  /\ not_empty' = not_empty - 1
  /\ worker' = "took"
  /\ UNCHANGED <<cvVars, ring, head, tail, count, submitted_sequence>>
  /\ UNCHANGED <<completed_sequence, active_sequence, stop, phase, flushVars, ghostVars>>

(* Variant: the worker leaves as soon as it sees the request to stop.      *)
WorkerLooks_StopFirst ==
  /\ worker = "took"
  /\ mutex = NoThread
  /\ IF count = 0 \/ stop
       THEN /\ worker' = IF stop THEN "done" ELSE "take"
            /\ UNCHANGED <<head, count, active_sequence>>
       ELSE /\ active_sequence' = ring[head]
            /\ head' = emu_wq_advance_index(head)
            /\ count' = count - 1
            /\ worker' = "run"
  /\ UNCHANGED <<cvVars, ring, tail, not_empty, submitted_sequence>>
  /\ UNCHANGED <<completed_sequence, stop, phase, flushVars, ghostVars>>

(* ... and, under mtx, leaves, goes back to sleep or dequeues an item.     *)
WorkerLooks ==
  /\ worker = "took"
  /\ mutex = NoThread
  /\ IF count = 0
       THEN /\ worker' = IF stop THEN "done" ELSE "take"
            /\ UNCHANGED <<head, count, active_sequence>>
       ELSE /\ active_sequence' = ring[head]
            /\ head' = emu_wq_advance_index(head)
            /\ count' = count - 1
            /\ worker' = "run"
  /\ UNCHANGED <<cvVars, ring, tail, not_empty, submitted_sequence>>
  /\ UNCHANGED <<completed_sequence, stop, phase, flushVars, ghostVars>>

(* Variant: waiters in flush are not told.                                 *)
WorkerCompletes_Silent ==
  /\ worker = "run"
  /\ mutex = NoThread
  /\ completed_sequence' = active_sequence
  /\ active_sequence' = 0
  /\ executed' = executed \cup {active_sequence}
  /\ worker' = "take"
  /\ UNCHANGED <<cvVars, queueVars, stop, phase, flushVars, cancelled>>

(* The item's function has returned.                                       *)
WorkerCompletes ==
  /\ worker = "run"
  /\ mutex = NoThread
  /\ completed_sequence' = active_sequence
  /\ active_sequence' = 0
  /\ executed' = executed \cup {active_sequence}
  /\ osal_condvar_notify_all
  /\ worker' = "take"
  /\ UNCHANGED <<mutex, queueVars, stop, phase, flushVars, cancelled>>

WorkerStep == WorkerTakes \/ WorkerLooks \/ WorkerCompletes

-----------------------------------------------------------------------------
(* Variant: the worker is asked to stop and not woken.                     *)
DestroyStops_NoGive ==
  /\ phase = "up" /\ mutex = NoThread
  /\ \A t \in Threads : pc[t] = "idle"
  /\ stop' = TRUE
  /\ phase' = "joining"
  /\ UNCHANGED <<cvVars, queueVars, completed_sequence, active_sequence, worker, flushVars, ghostVars>>

(* osal_work_queue_destroy asks the worker to stop ...                     *)
DestroyStops ==
  /\ phase = "up" /\ mutex = NoThread
  /\ \A t \in Threads : pc[t] = "idle"
  /\ stop' = TRUE
  /\ Give
  /\ phase' = "joining"
  /\ UNCHANGED <<cvVars, ring, head, tail, count, submitted_sequence>>
  /\ UNCHANGED <<completed_sequence, active_sequence, worker, flushVars, ghostVars>>

(* Variant: join does not wait.                                            *)
JoinWaits_Returns == UNCHANGED worker

(* osal_thread_join on the backends: it waits for the thread's function to *)
(* return (FreeRTOS, CMSIS-RTOS2, QNX, bare metal), it terminates the      *)
(* thread wherever it is (ThreadX, PX5, Micrium, embOS, VxWorks), or it    *)
(* returns not_supported at once (CMSIS-RTOS).                             *)
JoinWaits == worker = "done" /\ UNCHANGED worker
JoinTerminates == worker' = "done"
JoinNotSupported == UNCHANGED worker

osal_thread_join ==
  CASE JoinKind = "waits" -> JoinWaits
    [] JoinKind = "terminates" -> JoinTerminates
    [] JoinKind = "not_supported" -> JoinNotSupported

(* ... joins it, whatever the join returns, and destroys the condvar, the  *)
(* semaphore and the mutex.                                                *)
DestroyJoins ==
  /\ phase = "joining"
  /\ osal_thread_join
  /\ phase' = "destroyed"
  /\ UNCHANGED <<cvVars, queueVars, completed_sequence, active_sequence, stop>>
  /\ UNCHANGED <<flushVars, ghostVars>>

ClientStep(t) ==
  \/ osal_work_queue_submit(t)
  \/ osal_work_queue_cancel_all(t)
  \/ osal_work_queue_flush(t)
  \/ FlushResumes(t)
  \/ InWaitStep(t)

Next ==
  \/ \E t \in Threads : ClientStep(t)
  \/ WorkerStep
  \/ DestroyStops
  \/ DestroyJoins

Spec == Init /\ [][Next]_vars

(* The worker and a client inside a call run on when they are not blocked, *)
(* and an item's function returns.  A mutex that keeps being released is   *)
(* eventually handed to the thread that is blocked on it, which the        *)
(* backends' mutexes do by queueing their waiters: strong fairness for the *)
(* steps that begin by locking mtx.  Nobody has to call anything.          *)
FairSpec ==
  /\ Spec
  /\ WF_vars(WorkerTakes)
  /\ SF_vars(WorkerLooks \/ WorkerCompletes)
  /\ WF_vars(DestroyJoins)
  /\ \A t \in Threads :
       /\ WF_vars(FlushResumes(t) \/ InWaitStep(t))
       /\ SF_vars(WaitRelock(t) /\ UNCHANGED wqVars)

-----------------------------------------------------------------------------
(* Tokens the semaphore and the worker have beyond the items queued.       *)
InHand == IF worker = "took" THEN 1 ELSE 0
Surplus == not_empty + InHand - count

(* The worker always has a token for each queued item, at most one more    *)
(* however cancel_all and the worker race, and at least one more once it   *)
(* has been asked to stop; so an item is never left without a wake-up, the *)
(* semaphore's bound of depth + 1 is enough for submit, and the give of    *)
(* destroy may overflow without harm.                                      *)
TokenSurplus ==
  /\ ~stop => Surplus \in {0, 1}
  /\ stop /\ worker # "done" => Surplus \in {1, 2}

(* The ring is a queue of increasing sequence numbers, whatever mixture of *)
(* submit, cancel_all and the worker moved its indices.                    *)
RingInOrder ==
  /\ tail = (head + count) % Depth
  /\ \A i \in 0 .. count - 1 : Item(i) = submitted_sequence - count + 1 + i

(* Every accepted item is in exactly one place: queued, being executed,    *)
(* executed or cancelled; and items are executed in the order in which     *)
(* they were submitted, so what is still to run is younger than all that   *)
(* has run.                                                                *)
ExactlyOnce ==
  /\ Queued \cup Running \cup executed \cup cancelled = 1 .. submitted_sequence
  /\ Cardinality(Queued) + Cardinality(Running) + Cardinality(executed)
       + Cardinality(cancelled) = submitted_sequence
  /\ \A i \in executed, j \in Queued \cup Running : i < j

(* When destroy has joined the worker, every item that was queued has been *)
(* executed: nothing is dropped at shutdown.                               *)
DestroyDrains == phase = "destroyed" => 1 .. submitted_sequence = executed \cup cancelled

(* When a flush has returned ok, no item that was accepted before it was   *)
(* called is still queued or running.                                      *)
FlushLeavesNothing == left = {}

(* Every accepted item is queued, running, executed or cancelled, once and *)
(* in order; the ring's indices agree with its count; and what a flush     *)
(* that returned ok waited for is neither queued nor running.              *)
EveryItemOnce == TypeOK /\ RingInOrder /\ ExactlyOnce /\ FlushLeavesNothing

(* destroy always terminates.                                              *)
DestroyTerminates == (phase = "joining") ~> (phase = "destroyed")

(* flush returns unless the item it waits for is cancelled.                *)
FlushReturns ==
  \A t \in Threads : (pc[t] = "flush") ~> (pc[t] = "idle" \/ target[t] \in cancelled)
=============================================================================
