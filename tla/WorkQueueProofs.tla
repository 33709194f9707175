-------------------------- MODULE WorkQueueProofs --------------------------
(***************************************************************************)
(* The emulated work queue for every depth, every number of clients and    *)
(* every behaviour of the backend's join: the token argument, and what     *)
(* becomes of every item.                                                  *)
(***************************************************************************)
EXTENDS WorkQueue, CondvarSlots

(* What the argument needs to know of the state.                           *)
TokenTypes ==
  /\ count \in 0 .. Depth
  /\ not_empty \in 0 .. Depth + 1
  /\ worker \in {"take", "took", "run", "done"}
  /\ stop \in BOOLEAN
  /\ phase \in {"up", "joining", "destroyed"}

(* Only destroy stops the queue, and a worker that has not been asked to   *)
(* stop has not left its loop.                                             *)
StopAndPhase ==
  /\ stop <=> phase # "up"
  /\ ~stop => worker # "done"

TokenInv == TokenTypes /\ StopAndPhase /\ TokenSurplus

tokenVars == <<count, not_empty, worker, stop, phase>>

-----------------------------------------------------------------------------
(* osal_work_queue_create establishes the invariant.                       *)
LEMMA InitTokenInv == Init => TokenInv
<1> SUFFICES ASSUME Init PROVE TokenInv
  BY Zenon
<1>1. /\ count = 0 /\ not_empty = 0 /\ worker = "take"
      /\ stop = FALSE /\ phase = "up"
  BY Zenon DEF Init
<1>2. TokenTypes
  <2>1. 0 \in 0 .. Depth /\ 0 \in 0 .. Depth + 1
    BY WorkQueueAssumption
  <2>2. QED
    BY <1>1, <2>1, Zenon DEF TokenTypes
<1>3. StopAndPhase
  BY <1>1, Zenon DEF StopAndPhase
<1>4. TokenSurplus
  <2>1. ~stop
    BY <1>1, Zenon
  <2>2. Surplus = 0
    BY <1>1 DEF Surplus, InHand
  <2>3. QED
    BY <2>1, <2>2, Zenon DEF TokenSurplus
<1>5. QED
  BY <1>2, <1>3, <1>4, Zenon DEF TokenInv

(* Steps that touch neither the ring's count, the semaphore, the worker    *)
(* nor the request to stop preserve it.                                    *)
LEMMA StutterTokenInv == TokenInv /\ UNCHANGED tokenVars => TokenInv'
  BY DEF TokenInv, TokenTypes, StopAndPhase, TokenSurplus, Surplus, InHand, tokenVars

(* The calls of clients: submit adds an item and a token, cancel_all takes *)
(* at most as many tokens as it discards items.                            *)
LEMMA ClientTokenInv ==
  ASSUME TokenInv, NEW t \in Threads, ClientStep(t)
  PROVE  TokenInv'
<1>1. CASE osal_work_queue_submit(t)
  <2>1. count' = count + 1 /\ count < Depth /\ UNCHANGED <<worker, stop, phase>> /\ ~stop
    BY <1>1, Zenon DEF osal_work_queue_submit, Idle, workVars, TokenInv, StopAndPhase
  <2>2. not_empty <= Depth
    BY <2>1, WorkQueueAssumption
    DEF TokenInv, TokenTypes, TokenSurplus, Surplus, InHand
  <2>3. not_empty' = not_empty + 1
    BY <1>1, <2>2, Zenon DEF osal_work_queue_submit, Give
  <2>4. QED
    BY <2>1, <2>2, <2>3, WorkQueueAssumption
    DEF TokenInv, TokenTypes, StopAndPhase, TokenSurplus, Surplus, InHand
<1>2. CASE osal_work_queue_cancel_all(t)
  <2>1. /\ count' = 0 /\ UNCHANGED <<worker, stop, phase>> /\ ~stop
        /\ not_empty' = IF not_empty > count THEN not_empty - count ELSE 0
    BY <1>2, Zenon DEF osal_work_queue_cancel_all, Idle, workVars, TokenInv, StopAndPhase
  <2>2. QED
    BY <2>1, WorkQueueAssumption
    DEF TokenInv, TokenTypes, StopAndPhase, TokenSurplus, Surplus, InHand
<1>3. CASE osal_work_queue_flush(t)
  BY <1>3, StutterTokenInv, Zenon DEF osal_work_queue_flush, queueVars, workVars, tokenVars
<1>4. CASE FlushResumes(t)
  BY <1>4, StutterTokenInv, Zenon DEF FlushResumes, queueVars, workVars, tokenVars
<1>5. CASE InWaitStep(t)
  BY <1>5, StutterTokenInv, Zenon DEF InWaitStep, wqVars, queueVars, workVars, tokenVars
<1>6. QED
  BY <1>1, <1>2, <1>3, <1>4, <1>5, Zenon DEF ClientStep

(* The worker: a token moves from the semaphore to its hand, and is spent  *)
(* on an item, on a spurious wake-up or on leaving.                        *)
LEMMA WorkerTokenInv == TokenInv /\ WorkerStep => TokenInv'
<1> SUFFICES ASSUME TokenInv, WorkerStep PROVE TokenInv'
  BY Zenon
<1>1. CASE WorkerTakes
  BY <1>1, WorkQueueAssumption
  DEF WorkerTakes, TokenInv, TokenTypes, StopAndPhase, TokenSurplus, Surplus, InHand
<1>2. CASE WorkerLooks
  <2>1. worker = "took" /\ UNCHANGED <<not_empty, stop, phase>>
    BY <1>2, Zenon DEF WorkerLooks
  <2>2. CASE count = 0
    <3>1. UNCHANGED count /\ worker' = IF stop THEN "done" ELSE "take"
      BY <1>2, <2>2, Zenon DEF WorkerLooks
    <3>2. QED
      BY <2>1, <2>2, <3>1, WorkQueueAssumption
      DEF TokenInv, TokenTypes, StopAndPhase, TokenSurplus, Surplus, InHand
  <2>3. CASE count # 0
    <3>1. count' = count - 1 /\ worker' = "run"
      BY <1>2, <2>3, Zenon DEF WorkerLooks
    <3>2. QED
      BY <2>1, <2>3, <3>1, WorkQueueAssumption
      DEF TokenInv, TokenTypes, StopAndPhase, TokenSurplus, Surplus, InHand
  <2>4. QED
    BY <2>2, <2>3, Zenon
<1>3. CASE WorkerCompletes
  BY <1>3, WorkQueueAssumption, Zenon
  DEF WorkerCompletes, queueVars, TokenInv, TokenTypes, StopAndPhase, TokenSurplus,
      Surplus, InHand
<1>4. QED
  BY <1>1, <1>2, <1>3, Zenon DEF WorkerStep

(* destroy: the give adds a token, or overflows because there already is   *)
(* one too many.                                                           *)
LEMMA DestroyTokenInv == TokenInv /\ (DestroyStops \/ DestroyJoins) => TokenInv'
<1> SUFFICES ASSUME TokenInv, DestroyStops \/ DestroyJoins PROVE TokenInv'
  BY Zenon
<1>1. CASE DestroyStops
  <2>1. /\ phase = "up" /\ phase' = "joining" /\ stop' = TRUE /\ ~stop
        /\ UNCHANGED <<count, worker>>
        /\ not_empty' = IF not_empty <= Depth THEN not_empty + 1 ELSE not_empty
    BY <1>1, Zenon DEF DestroyStops, Give, TokenInv, StopAndPhase
  <2>2. QED
    BY <2>1, WorkQueueAssumption
    DEF TokenInv, TokenTypes, StopAndPhase, TokenSurplus, Surplus, InHand
<1>2. CASE DestroyJoins
  <2>1. /\ phase = "joining" /\ phase' = "destroyed"
        /\ UNCHANGED <<count, not_empty, stop>>
        /\ worker' = worker \/ worker' = "done"
    BY <1>2, WorkQueueAssumption, Zenon
    DEF DestroyJoins, queueVars, osal_thread_join, JoinWaits, JoinTerminates, JoinNotSupported
  <2>2. QED
    BY <2>1, WorkQueueAssumption, Zenon
    DEF TokenInv, TokenTypes, StopAndPhase, TokenSurplus, Surplus, InHand
<1>3. QED
  BY <1>1, <1>2, Zenon

(* Every step of the clients, of the worker and of destroy keeps it.       *)
LEMMA StepTokenInv == TokenInv /\ [Next]_vars => TokenInv'
<1> SUFFICES ASSUME TokenInv, [Next]_vars PROVE TokenInv'
  BY Zenon
<1>1. CASE \E t \in Threads : ClientStep(t)
  BY <1>1, ClientTokenInv, Zenon
<1>2. CASE WorkerStep
  BY <1>2, WorkerTokenInv, Zenon
<1>3. CASE DestroyStops \/ DestroyJoins
  BY <1>3, DestroyTokenInv, Zenon
<1>4. CASE UNCHANGED vars
  BY <1>4, StutterTokenInv, Zenon DEF vars, wqVars, queueVars, workVars, tokenVars
<1>5. QED
  BY <1>1, <1>2, <1>3, <1>4, Zenon DEF Next

(* The count of not_empty always covers what is queued, asked and in hand: *)
(* the inductive invariant behind the three theorems below.                *)
THEOREM TokenInvHolds == Spec => []TokenInv
<1>1. Init => TokenInv
  BY InitTokenInv, Zenon
<1>2. TokenInv /\ [Next]_vars => TokenInv'
  BY StepTokenInv, Zenon
<1>3. QED
  BY <1>1, <1>2, PTL DEF Spec

(* Every queued item has a token, submit's give never overflows and the    *)
(* worker always has one more token after it was asked to stop, for every  *)
(* depth, every number of clients and every kind of join.                  *)
THEOREM TokenSurplusHolds == Spec => []TokenSurplus
<1>1. TokenInv => TokenSurplus
  BY Zenon DEF TokenInv
<1>2. QED
  BY <1>1, TokenInvHolds, PTL

(* The worker is never blocked on its semaphore while an item is queued,   *)
(* nor while it is asked to stop.                                          *)
NeverAsleepWithWork ==
  worker = "take" /\ (count > 0 \/ stop) => not_empty > 0

(* The token submit and destroy give is never missing when the worker waits.*)
THEOREM NeverAsleepWithWorkHolds == Spec => []NeverAsleepWithWork
<1>1. TokenInv => NeverAsleepWithWork
  BY WorkQueueAssumption
  DEF TokenInv, TokenTypes, TokenSurplus, Surplus, InHand, NeverAsleepWithWork
<1>2. QED
  BY <1>1, TokenInvHolds, PTL

-----------------------------------------------------------------------------
(* A worker that has left has been asked to stop and, unless it was        *)
(* terminated, has left an empty ring behind.                              *)
LeftEmpty ==
  /\ worker = "done" => count = 0 /\ phase # "up"
  /\ phase = "destroyed" => worker = "done"

(* The queue is created with its worker.                                   *)
LEMMA InitLeftEmpty == Init => LeftEmpty
  BY Zenon DEF Init, LeftEmpty

(* A worker leaves only an empty ring, and a join that waits returns only  *)
(* when it has left.                                                       *)
LEMMA StepLeftEmpty ==
  ASSUME JoinKind = "waits"
  PROVE  LeftEmpty /\ TokenInv /\ [Next]_vars => LeftEmpty'
<1> SUFFICES ASSUME LeftEmpty, TokenInv, [Next]_vars PROVE LeftEmpty'
  BY Zenon
<1>1. ASSUME NEW t \in Threads, ClientStep(t) PROVE LeftEmpty'
  <2>1. CASE osal_work_queue_submit(t) \/ osal_work_queue_cancel_all(t)
    BY <2>1, Zenon DEF osal_work_queue_submit, osal_work_queue_cancel_all, Idle, workVars, LeftEmpty
  <2>2. CASE osal_work_queue_flush(t) \/ FlushResumes(t) \/ InWaitStep(t)
    BY <2>2, Zenon DEF osal_work_queue_flush, FlushResumes, InWaitStep, wqVars, queueVars,
                workVars, LeftEmpty
  <2>3. QED
    BY <1>1, <2>1, <2>2, Zenon DEF ClientStep
<1>2. CASE WorkerStep
  BY <1>2, Zenon DEF WorkerStep, WorkerTakes, WorkerLooks, WorkerCompletes, queueVars, LeftEmpty,
              TokenInv, StopAndPhase
<1>3. CASE DestroyStops
  BY <1>3, Zenon DEF DestroyStops, LeftEmpty
<1>4. CASE DestroyJoins
  BY <1>4, JoinKind = "waits", Zenon
  DEF DestroyJoins, osal_thread_join, JoinWaits, queueVars, LeftEmpty
<1>5. CASE UNCHANGED vars
  BY <1>5, Zenon DEF vars, wqVars, queueVars, workVars, LeftEmpty
<1>6. QED
  BY <1>1, <1>2, <1>3, <1>4, <1>5, Zenon DEF Next

-----------------------------------------------------------------------------
(* The condition variable on which flush waits.                            *)
CvRest == SlotIInv /\ OwnerIsAThread /\ TimedIsBoolean

(* A flush that waits claims a slot, ...                                   *)
LEMMA FlushLoopCv ==
  ASSUME CvRest, NEW t \in Threads, NEW goal, NEW last, NEW b \in BOOLEAN,
         FlushLoop(t, goal, last, b)
  PROVE  CvRest'
<1>1. mutex' \in {NoThread, t}
  BY Zenon DEF FlushLoop, Return
<1>2. (UNCHANGED cvRest) \/ WaitCall(t, b)
  BY Zenon DEF FlushLoop
<1>3. CASE UNCHANGED cvRest
  <2>1. SlotIInv'
    BY <1>3, SlotStutter, Zenon DEF CvRest, cvRest, slotVars
  <2>2. TimedIsBoolean'
    BY <1>3, Zenon DEF CvRest, cvRest, TimedIsBoolean
  <2>3. QED
    BY <1>1, <2>1, <2>2, Zenon DEF CvRest, OwnerIsAThread
<1>4. CASE WaitCall(t, b)
  BY <1>1, <1>4, SlotClaim, TimedWaitCall, Zenon DEF CvRest, OwnerIsAThread
<1>5. QED
  BY <1>2, <1>3, <1>4, Zenon

(* ... and every step of the clients and of the worker uses the condition  *)
(* variable as its other callers do.                                       *)
LEMMA StepCv == CvRest /\ [Next]_vars => CvRest'
<1> SUFFICES ASSUME CvRest, [Next]_vars PROVE CvRest'
  BY Zenon
<1>1. CASE UNCHANGED cvVars
  <2>1. SlotIInv'
    BY <1>1, SlotStutter, Zenon DEF CvRest, cvVars, slotVars
  <2>2. QED
    BY <1>1, <2>1, Zenon DEF CvRest, cvVars, TimedIsBoolean, OwnerIsAThread
<1>2. ASSUME NEW t \in Threads, ClientStep(t) PROVE CvRest'
  <2>1. CASE osal_work_queue_submit(t) \/ osal_work_queue_cancel_all(t)
    BY <1>1, <2>1, Zenon DEF osal_work_queue_submit, osal_work_queue_cancel_all
  <2>2. CASE osal_work_queue_flush(t)
    BY <2>2, FlushLoopCv, Zenon DEF osal_work_queue_flush
  <2>3. CASE FlushResumes(t)
    <3>1. timed[t] \in BOOLEAN /\ FlushLoop(t, target[t], called[t], timed[t])
      BY <2>3, Zenon DEF FlushResumes, CvRest, TimedIsBoolean
    <3>2. QED
      BY <3>1, FlushLoopCv, Zenon
  <2>4. CASE InWaitStep(t)
    <3>1. timed' = timed /\ OwnerIsAThread' /\ SlotIInv'
      BY <2>4, TimedKept, OwnerWaitStep, SlotWaitStep, Zenon DEF InWaitStep, CvRest
    <3>2. QED
      BY <3>1, Zenon DEF CvRest, TimedIsBoolean
  <2>5. QED
    BY <1>2, <2>1, <2>2, <2>3, <2>4, Zenon DEF ClientStep
<1>3. CASE WorkerStep
  <2>1. (UNCHANGED cvVars) \/ (osal_condvar_notify_all /\ UNCHANGED mutex)
    BY <1>3, Zenon DEF WorkerStep, WorkerTakes, WorkerLooks, WorkerCompletes
  <2>2. CASE osal_condvar_notify_all /\ UNCHANGED mutex
    <3>1. timed' = timed
      BY <2>2, Zenon DEF osal_condvar_notify_all, Signal
    <3>2. SlotIInv'
      BY <2>2, SlotNotify, Zenon DEF CvRest
    <3>3. QED
      BY <2>2, <3>1, <3>2, Zenon DEF CvRest, TimedIsBoolean, OwnerIsAThread
  <2>3. QED
    BY <1>1, <2>1, <2>2, Zenon
<1>4. CASE DestroyStops \/ DestroyJoins
  BY <1>1, <1>4, Zenon DEF DestroyStops, DestroyJoins
<1>5. CASE UNCHANGED vars
  BY <1>1, <1>5, Zenon DEF vars
<1>6. QED
  BY <1>2, <1>3, <1>4, <1>5, Zenon DEF Next
-----------------------------------------------------------------------------
(* The place of the i-th queued item, and how many items left the ring.    *)
At(i) == IF head + i < Depth THEN head + i ELSE head + i - Depth
Base == submitted_sequence - count

(* The items that are queued or running.                                   *)
Live == (Base + 1 .. submitted_sequence) \cup Running

ItemTypes ==
  /\ ring \in [Indices -> SequenceNumbers]
  /\ head \in Indices /\ tail \in Indices
  /\ submitted_sequence \in SequenceNumbers
  /\ completed_sequence \in SequenceNumbers
  /\ active_sequence \in SequenceNumbers

(* The ring holds the youngest items in order, ...                         *)
RingInv ==
  /\ count <= submitted_sequence
  /\ tail = At(count)
  /\ \A i \in 0 .. count - 1 : ring[At(i)] = Base + 1 + i

(* ... every other item is in one place, and the one that runs is younger  *)
(* than all that have run.                                                 *)
Placed ==
  /\ executed \cup cancelled \cup Running = 1 .. Base
  /\ executed \cap cancelled = {}
  /\ completed_sequence <= Base
  /\ worker = "run" => /\ active_sequence \notin executed \cup cancelled
                       /\ completed_sequence < active_sequence
                       /\ \A i \in executed : i < active_sequence

FlushTypes ==
  /\ pc \in [Threads -> {"idle", "flush"}]
  /\ target \in [Threads -> SequenceNumbers]
  /\ called \in [Threads -> SequenceNumbers]

(* The target of a flush covers every item it has to wait for, so that it  *)
(* has missed none when completed_sequence reaches its target.             *)
Awaited(t) == \A s \in Live : s <= called[t] => s <= target[t]
FlushInv ==
  /\ left = {}
  /\ \A t \in Threads : pc[t] = "flush" => called[t] <= submitted_sequence /\ Awaited(t)

ItemInv == ItemTypes /\ RingInv /\ Placed /\ FlushTypes /\ FlushInv

QueueInv == ItemTypes /\ RingInv /\ Placed
itemVars == <<ring, head, tail, count, submitted_sequence, completed_sequence,
              active_sequence, worker, executed, cancelled>>

(* An index that has run past the end of the ring comes back to its start. *)
LEMMA Wraps ==
  ASSUME NEW h \in Indices, NEW i \in 0 .. Depth
  PROVE  (h + i) % Depth = IF h + i < Depth THEN h + i ELSE h + i - Depth
<1>1. CASE h + i < Depth
  BY <1>1, WorkQueueAssumption DEF Indices
<1>2. CASE h + i >= Depth
  BY <1>2, WorkQueueAssumption DEF Indices
<1>3. QED
  BY <1>1, <1>2, WorkQueueAssumption DEF Indices

(* The ring is in order, and what is queued is an interval of numbers.     *)
LEMMA QueuedItems ==
  ASSUME TokenInv, ItemTypes, RingInv
  PROVE  /\ Queued = Base + 1 .. submitted_sequence
         /\ RingInOrder
         /\ Base \in 0 .. submitted_sequence
<1>1. /\ count \in 0 .. Depth /\ submitted_sequence \in 0 .. MaxSubmits
      /\ head \in Indices /\ Depth \in Nat
  BY WorkQueueAssumption, Zenon DEF TokenInv, TokenTypes, ItemTypes, SequenceNumbers
<1>2. \A i \in 0 .. count - 1 : Item(i) = Base + 1 + i
  <2> TAKE i \in 0 .. count - 1
  <2>1. i \in 0 .. Depth
    BY <1>1
  <2>2. (head + i) % Depth = At(i)
    BY <1>1, <2>1, Wraps, Zenon DEF At
  <2>3. QED
    BY <2>2, Zenon DEF Item, RingInv
<1>3. tail = (head + count) % Depth
  BY <1>1, Wraps, Zenon DEF At, RingInv
<1>4. Base \in 0 .. submitted_sequence
  BY <1>1, WorkQueueAssumption DEF Base, RingInv
<1>5. Queued \subseteq Base + 1 .. submitted_sequence
  BY <1>1, <1>2, <1>4 DEF Queued, Base
<1>6. ASSUME NEW s \in Base + 1 .. submitted_sequence PROVE s \in Queued
  <2>1. s - Base - 1 \in 0 .. count - 1
    BY <1>1, <1>4 DEF Base
  <2>2. Item(s - Base - 1) = s
    BY <1>2, <1>4, <2>1
  <2>3. QED
    BY <2>1, <2>2, Zenon DEF Queued
<1>7. RingInOrder
  BY <1>1, <1>2, <1>3, Zenon DEF RingInOrder, Base
<1>8. QED
  BY <1>4, <1>5, <1>6, <1>7, Zenon

(* Steps that move no item preserve the queue's part of the invariant.     *)
LEMMA QueueStutter == QueueInv /\ UNCHANGED itemVars => QueueInv'
<1> SUFFICES ASSUME QueueInv, UNCHANGED itemVars PROVE QueueInv'
  BY Zenon
<1>1. ItemTypes' /\ Base' = Base /\ Running' = Running
  BY Zenon DEF QueueInv, ItemTypes, itemVars, Base, Running
<1>2. RingInv'
  BY <1>1, Zenon DEF QueueInv, RingInv, itemVars, At
<1>3. Placed'
  BY <1>1, Zenon DEF QueueInv, Placed, itemVars
<1>4. QED
  BY <1>1, <1>2, <1>3, Zenon DEF QueueInv

(* submit writes behind the last item.                                     *)
LEMMA QueueSubmit ==
  ASSUME TokenInv, QueueInv, NEW t \in Threads, osal_work_queue_submit(t)
  PROVE  QueueInv' /\ Base' = Base
<1>1. /\ count < Depth /\ submitted_sequence < MaxSubmits
      /\ submitted_sequence' = submitted_sequence + 1
      /\ ring' = [ring EXCEPT ![tail] = submitted_sequence + 1]
      /\ tail' = emu_wq_advance_index(tail)
      /\ count' = count + 1
      /\ UNCHANGED <<head, completed_sequence, active_sequence, worker, executed, cancelled>>
  BY Zenon DEF osal_work_queue_submit, workVars, ghostVars
<1>2. /\ count \in 0 .. Depth /\ submitted_sequence \in 0 .. MaxSubmits
      /\ head \in 0 .. Depth - 1 /\ tail \in 0 .. Depth - 1
      /\ Depth \in Nat \ {0} /\ MaxSubmits \in Nat
      /\ ring \in [0 .. Depth - 1 -> 0 .. MaxSubmits]
  BY WorkQueueAssumption, Zenon
  DEF TokenInv, TokenTypes, QueueInv, ItemTypes, SequenceNumbers, Indices
<1>3. Base' = Base /\ Running' = Running
  BY <1>1, <1>2 DEF Base, Running
<1>4. tail' \in 0 .. Depth - 1 /\ ring' \in [0 .. Depth - 1 -> 0 .. MaxSubmits]
  BY <1>1, <1>2 DEF emu_wq_advance_index
<1>5. ItemTypes'
  BY <1>1, <1>2, <1>4, Zenon DEF QueueInv, ItemTypes, SequenceNumbers, Indices
<1>6. RingInv'
  <2>1. tail = At(count) /\ count <= submitted_sequence
    BY Zenon DEF QueueInv, RingInv
  <2>2. tail' = At(count)'
    BY <1>1, <1>2, <2>1 DEF emu_wq_advance_index, At
  <2>3. ASSUME NEW i \in 0 .. count PROVE ring'[At(i)'] = Base + 1 + i
    <3>1. At(i)' = At(i) /\ At(i) \in 0 .. Depth - 1
      BY <1>1, <1>2 DEF At
    <3>2. CASE i = count
      BY <1>1, <1>2, <2>1, <3>1, <3>2 DEF Base
    <3>3. CASE i \in 0 .. count - 1
      <4>1. At(i) # tail
        BY <1>1, <1>2, <2>1, <3>3 DEF At
      <4>2. ring[At(i)] = Base + 1 + i
        BY <3>3, Zenon DEF QueueInv, RingInv
      <4>3. QED
        BY <1>1, <1>2, <3>1, <4>1, <4>2, Zenon
    <3>4. QED
      BY <1>2, <3>2, <3>3
  <2>4. 0 .. count' - 1 = 0 .. count
    BY <1>1, <1>2
  <2>5. QED
    BY <1>1, <1>2, <1>3, <2>1, <2>2, <2>3, <2>4 DEF RingInv
<1>7. Placed'
  BY <1>1, <1>3, Zenon DEF QueueInv, Placed
<1>8. QED
  BY <1>3, <1>5, <1>6, <1>7, Zenon DEF QueueInv

(* cancel_all discards all that is queued.                                 *)
LEMMA QueueCancel ==
  ASSUME TokenInv, QueueInv, NEW t \in Threads, osal_work_queue_cancel_all(t)
  PROVE  QueueInv' /\ Base' = submitted_sequence
<1>1. /\ cancelled' = cancelled \cup Queued
      /\ head' = 0 /\ tail' = 0 /\ count' = 0
      /\ UNCHANGED <<ring, submitted_sequence, completed_sequence, active_sequence, worker,
                     executed>>
  BY Zenon DEF osal_work_queue_cancel_all, workVars
<1>2. Queued = Base + 1 .. submitted_sequence /\ Base \in 0 .. submitted_sequence
  BY QueuedItems, Zenon DEF QueueInv
<1>3. submitted_sequence \in Nat /\ completed_sequence \in Nat /\ active_sequence \in Nat
  BY WorkQueueAssumption DEF QueueInv, ItemTypes, SequenceNumbers
<1>4. Base' = submitted_sequence /\ Running' = Running
  BY <1>1, <1>3 DEF Base, Running
<1>5. ItemTypes'
  BY <1>1, WorkQueueAssumption DEF QueueInv, ItemTypes, Indices
<1>6. RingInv'
  BY <1>1, <1>3, WorkQueueAssumption DEF RingInv, At
<1>7. Placed'
  <2>1. Running \subseteq 1 .. Base /\ executed \subseteq 1 .. Base
    BY Zenon DEF QueueInv, Placed
  <2>2. executed' \cup cancelled' \cup Running' = 1 .. Base'
    <3>1. executed' \cup cancelled' \cup Running' = 1 .. Base \cup (Base + 1 .. submitted_sequence)
      BY <1>1, <1>2, <1>4, Zenon DEF QueueInv, Placed
    <3>2. QED
      BY <1>2, <1>3, <1>4, <3>1
  <2>3. executed' \cap cancelled' = {}
    BY <1>1, <1>2, <1>3, <2>1 DEF QueueInv, Placed
  <2>4. completed_sequence' <= Base'
    BY <1>1, <1>2, <1>3, <1>4 DEF QueueInv, Placed
  <2>5. ASSUME worker' = "run"
        PROVE  /\ active_sequence' \notin executed' \cup cancelled'
               /\ completed_sequence' < active_sequence'
               /\ \A i \in executed' : i < active_sequence'
    <3>1. active_sequence \in 1 .. Base
      BY <1>1, <2>1, <2>5, Zenon DEF Running
    <3>2. QED
      BY <1>1, <1>2, <1>3, <2>5, <3>1 DEF QueueInv, Placed
  <2>6. QED
    BY <2>2, <2>3, <2>4, <2>5, Zenon DEF Placed
<1>8. QED
  BY <1>4, <1>5, <1>6, <1>7, Zenon DEF QueueInv

(* The worker takes the oldest item, the one after all that have left.     *)
LEMMA QueueDequeue ==
  ASSUME TokenInv, QueueInv, WorkerLooks, count # 0
  PROVE  /\ QueueInv' /\ Base' = Base + 1
         /\ Running' = {Base + 1} /\ Running = {}
<1>1. /\ worker = "took" /\ worker' = "run"
      /\ active_sequence' = ring[head]
      /\ head' = emu_wq_advance_index(head)
      /\ count' = count - 1
      /\ UNCHANGED <<ring, tail, submitted_sequence, completed_sequence, executed, cancelled>>
  BY Zenon DEF WorkerLooks, ghostVars
<1>2. /\ count \in 1 .. Depth /\ submitted_sequence \in 0 .. MaxSubmits
      /\ head \in 0 .. Depth - 1 /\ tail \in 0 .. Depth - 1
      /\ completed_sequence \in 0 .. MaxSubmits
      /\ Depth \in Nat \ {0} /\ MaxSubmits \in Nat
      /\ ring \in [0 .. Depth - 1 -> 0 .. MaxSubmits]
  BY WorkQueueAssumption
  DEF TokenInv, TokenTypes, QueueInv, ItemTypes, SequenceNumbers, Indices
<1>3. Base' = Base + 1 /\ Base \in 0 .. submitted_sequence - 1
  BY <1>1, <1>2 DEF Base, QueueInv, RingInv
<1>4. ring[head] = Base + 1
  <2>1. At(0) = head /\ 0 \in 0 .. count - 1
    BY <1>2 DEF At
  <2>2. ring[At(0)] = Base + 1 + 0
    BY <2>1, Zenon DEF QueueInv, RingInv
  <2>3. QED
    BY <1>3, <2>1, <2>2
<1>5. Running = {} /\ Running' = {Base + 1}
  BY <1>1, <1>4, Zenon DEF Running
<1>6. ItemTypes'
  <2>1. head' \in 0 .. Depth - 1
    BY <1>1, <1>2 DEF emu_wq_advance_index
  <2>2. QED
    BY <1>1, <1>2, <2>1, Zenon DEF QueueInv, ItemTypes, SequenceNumbers, Indices
<1>7. RingInv'
  <2>1. ASSUME NEW i \in 0 .. Depth - 1 PROVE At(i)' = At(i + 1)
    BY <1>1, <1>2 DEF At, emu_wq_advance_index
  <2>2. tail' = At(count)'
    <3>1. count - 1 \in 0 .. Depth - 1 /\ count' = count - 1 /\ count - 1 + 1 = count
      BY <1>1, <1>2
    <3>2. At(count)' = At(count)
      BY <1>1, <1>2, <3>1 DEF At, emu_wq_advance_index
    <3>3. QED
      BY <1>1, <3>2, Zenon DEF QueueInv, RingInv
  <2>3. ASSUME NEW i \in 0 .. count' - 1 PROVE ring'[At(i)'] = Base' + 1 + i
    <3>1. i \in 0 .. Depth - 1 /\ i + 1 \in 0 .. count - 1
      BY <1>1, <1>2
    <3>2. ring[At(i + 1)] = Base + 1 + (i + 1)
      BY <3>1, Zenon DEF QueueInv, RingInv
    <3>3. ring'[At(i)'] = ring[At(i + 1)]
      BY <1>1, <2>1, <3>1, Zenon
    <3>4. QED
      BY <1>3, <3>1, <3>2, <3>3
  <2>4. count' <= submitted_sequence'
    BY <1>1, <1>2 DEF QueueInv, RingInv
  <2>5. QED
    BY <2>2, <2>3, <2>4, Zenon DEF RingInv
<1>8. Placed'
  <2>1. executed \cup cancelled = 1 .. Base /\ executed \cap cancelled = {}
    BY <1>5, Zenon DEF QueueInv, Placed
  <2>2. executed' \cup cancelled' \cup Running' = 1 .. Base'
    BY <1>1, <1>3, <1>5, <2>1
  <2>3. completed_sequence <= Base
    BY Zenon DEF QueueInv, Placed
  <2>4. /\ active_sequence' \notin executed' \cup cancelled'
        /\ completed_sequence' < active_sequence'
        /\ \A i \in executed' : i < active_sequence'
    BY <1>1, <1>2, <1>3, <1>4, <2>1, <2>3
  <2>5. completed_sequence' <= Base'
    BY <1>1, <1>2, <1>3, <2>3
  <2>6. QED
    BY <1>1, <2>1, <2>2, <2>4, <2>5, Zenon DEF Placed
<1>9. QED
  BY <1>3, <1>5, <1>6, <1>7, <1>8, Zenon DEF QueueInv

(* The item that has run is executed.                                      *)
LEMMA QueueComplete ==
  ASSUME TokenInv, QueueInv, WorkerCompletes
  PROVE  QueueInv' /\ Base' = Base /\ Running' = {}
<1>1. /\ worker = "run" /\ worker' = "take"
      /\ completed_sequence' = active_sequence /\ active_sequence' = 0
      /\ executed' = executed \cup {active_sequence}
      /\ UNCHANGED <<ring, head, tail, count, submitted_sequence, cancelled>>
  BY Zenon DEF WorkerCompletes, queueVars
<1>2. Base' = Base /\ Running' = {} /\ Running = {active_sequence}
  BY <1>1, Zenon DEF Base, Running
<1>3. ItemTypes'
  BY <1>1, WorkQueueAssumption DEF QueueInv, ItemTypes, SequenceNumbers
<1>4. RingInv'
  BY <1>1, <1>2, Zenon DEF QueueInv, RingInv, At
<1>5. Placed'
  <2>1. active_sequence \in 1 .. Base /\ active_sequence \notin cancelled
    BY <1>1, <1>2, Zenon DEF QueueInv, Placed
  <2>2. completed_sequence' <= Base'
    BY <1>1, <1>2, <2>1
  <2>3. executed' \cup cancelled' \cup Running' = 1 .. Base' /\ executed' \cap cancelled' = {}
    BY <1>1, <1>2, <2>1, Zenon DEF QueueInv, Placed
  <2>4. QED
    BY <1>1, <2>2, <2>3, Zenon DEF Placed
<1>6. QED
  BY <1>2, <1>3, <1>4, <1>5, Zenon DEF QueueInv

-----------------------------------------------------------------------------
(* Nothing that is queued or running has completed.                        *)
LEMMA LiveIsNotCompleted ==
  ASSUME TokenInv, QueueInv
  PROVE  \A s \in Live : s \in 1 .. submitted_sequence /\ completed_sequence < s
<1> TAKE s \in Live
<1>1. /\ submitted_sequence \in Nat /\ completed_sequence \in Nat
      /\ Base \in 0 .. submitted_sequence
  BY QueuedItems, WorkQueueAssumption DEF QueueInv, ItemTypes, SequenceNumbers
<1>2. CASE s \in Base + 1 .. submitted_sequence
  BY <1>1, <1>2 DEF QueueInv, Placed
<1>3. CASE s \in Running
  <2>1. s = active_sequence /\ worker = "run" /\ s \in 1 .. Base
    BY <1>3, Zenon DEF Running, QueueInv, Placed
  <2>2. QED
    BY <1>1, <2>1 DEF QueueInv, Placed
<1>4. QED
  BY <1>2, <1>3, Zenon DEF Live

(* An item is live no longer, or was submitted later than any flush that   *)
(* is waiting: the flushes that wait keep waiting for the right items.     *)
LEMMA FlushKept ==
  ASSUME FlushTypes, FlushInv, UNCHANGED flushVars,
         submitted_sequence \in Nat, submitted_sequence' \in Nat,
         submitted_sequence <= submitted_sequence',
         \A s \in Live' : s \in Nat /\ (s \in Live \/ s > submitted_sequence)
  PROVE  FlushTypes' /\ FlushInv'
<1>1. FlushTypes' /\ left' = {}
  BY Zenon DEF FlushTypes, FlushInv, flushVars
<1>2. ASSUME NEW t \in Threads, pc'[t] = "flush"
      PROVE  called'[t] <= submitted_sequence' /\ Awaited(t)'
  <2>1. /\ pc[t] = "flush" /\ called'[t] = called[t] /\ target'[t] = target[t]
        /\ called[t] \in Nat
    BY <1>2, WorkQueueAssumption DEF flushVars, FlushTypes, SequenceNumbers
  <2>2. called[t] <= submitted_sequence /\ Awaited(t)
    BY <2>1, Zenon DEF FlushInv
  <2>3. QED
    BY <2>1, <2>2 DEF Awaited
<1>3. QED
  BY <1>1, <1>2, Zenon DEF FlushInv

(* The target that flush computes covers all that is queued or running.    *)
LEMMA FlushTargetCovers ==
  ASSUME TokenInv, QueueInv
  PROVE  /\ FlushTarget \in SequenceNumbers
         /\ \A s \in Live : s <= FlushTarget
<1>1. /\ count \in 0 .. Depth /\ submitted_sequence \in 0 .. MaxSubmits
      /\ head \in 0 .. Depth - 1 /\ tail \in 0 .. Depth - 1
      /\ Depth \in Nat \ {0} /\ MaxSubmits \in Nat
  BY WorkQueueAssumption, Zenon
  DEF TokenInv, TokenTypes, QueueInv, ItemTypes, SequenceNumbers, Indices
<1>2. \A s \in Live : s \in 1 .. submitted_sequence
  BY LiveIsNotCompleted, Zenon
<1>3. CASE count # 0
  <2>1. emu_wq_retreat_index(tail) = At(count - 1)
    BY <1>1, <1>3 DEF emu_wq_retreat_index, At, QueueInv, RingInv
  <2>2. ring[At(count - 1)] = Base + 1 + (count - 1)
    BY <1>1, <1>3 DEF QueueInv, RingInv
  <2>3. FlushTarget = submitted_sequence
    BY <1>1, <1>3, <2>1, <2>2 DEF FlushTarget, Base
  <2>4. QED
    BY <1>1, <1>2, <2>3 DEF SequenceNumbers
<1>4. CASE count = 0
  <2>1. FlushTarget = IF worker = "run" THEN active_sequence ELSE completed_sequence
    BY <1>4, Zenon DEF FlushTarget
  <2>2. Base + 1 .. submitted_sequence = {}
    BY <1>1, <1>4 DEF Base
  <2>3. Live = Running
    BY <2>2, Zenon DEF Live
  <2>4. FlushTarget \in SequenceNumbers
    BY <2>1, Zenon DEF QueueInv, ItemTypes
  <2>5. ASSUME NEW s \in Live PROVE s <= FlushTarget
    BY <1>2, <2>1, <2>3, <2>5 DEF Running
  <2>6. QED
    BY <2>4, <2>5, Zenon
<1>5. QED
  BY <1>3, <1>4, Zenon

(* One pass of flush's loop: a flush that returns ok leaves nothing, one   *)
(* that goes on waits for everything it has to.                            *)
LEMMA FlushLoopHolds ==
  ASSUME TokenInv, QueueInv, FlushTypes, FlushInv, UNCHANGED itemVars,
         NEW t \in Threads, NEW goal \in SequenceNumbers, NEW last \in SequenceNumbers,
         last <= submitted_sequence, \A s \in Live : s <= last => s <= goal,
         NEW b, FlushLoop(t, goal, last, b)
  PROVE  FlushTypes' /\ FlushInv'
<1>1. Live' = Live /\ submitted_sequence' = submitted_sequence
  BY Zenon DEF Live, Base, Running, itemVars
<1>2. \A s \in Live : s \in Nat /\ completed_sequence < s
  BY LiveIsNotCompleted
<1>3. completed_sequence \in Nat /\ goal \in Nat /\ last \in Nat
  BY WorkQueueAssumption DEF QueueInv, ItemTypes, SequenceNumbers
<1>4. Queued \cup Running = Live
  BY QueuedItems, Zenon DEF QueueInv, Live
<1>5. left' = {}
  <2>1. CASE completed_sequence >= goal
    <3>1. {s \in Queued \cup Running : s <= last} = {}
      BY <1>2, <1>3, <1>4, <2>1
    <3>2. QED
      BY <1>3, <2>1, <3>1, Zenon DEF FlushLoop, FlushInv
  <2>2. CASE completed_sequence < goal
    BY <1>3, <2>2 DEF FlushLoop, FlushInv
  <2>3. QED
    BY <1>3, <2>1, <2>2
<1>6. CASE Return(t)
  <2>1. 0 \in SequenceNumbers
    BY WorkQueueAssumption DEF SequenceNumbers
  <2>2. FlushTypes'
    BY <1>6, <2>1, Zenon DEF Return, FlushTypes
  <2>3. \A u \in Threads : pc'[u] = "flush" =>
          pc[u] = "flush" /\ called'[u] = called[u] /\ target'[u] = target[u]
    BY <1>6, Zenon DEF Return, FlushTypes
  <2>4. QED
    BY <1>1, <1>5, <2>2, <2>3, Zenon DEF FlushInv, Awaited
<1>7. CASE /\ pc' = [pc EXCEPT ![t] = "flush"]
           /\ target' = [target EXCEPT ![t] = goal]
           /\ called' = [called EXCEPT ![t] = last]
  <2>1. FlushTypes'
    BY <1>7, Zenon DEF FlushTypes
  <2>2. ASSUME NEW u \in Threads, pc'[u] = "flush"
        PROVE  called'[u] <= submitted_sequence' /\ Awaited(u)'
    <3>1. CASE u = t
      BY <1>1, <1>7, <3>1, Zenon DEF FlushTypes, Awaited
    <3>2. CASE u # t
      <4>1. pc[u] = "flush" /\ called'[u] = called[u] /\ target'[u] = target[u]
        BY <1>7, <2>2, <3>2, Zenon DEF FlushTypes
      <4>2. QED
        BY <1>1, <4>1, Zenon DEF FlushInv, Awaited
    <3>3. QED
      BY <3>1, <3>2, Zenon
  <2>3. QED
    BY <1>5, <2>1, <2>2, Zenon DEF FlushInv
<1>8. QED
  BY <1>6, <1>7, Zenon DEF FlushLoop

(* osal_work_queue_create establishes the invariant, ...                   *)
LEMMA InitItemInv == Init => ItemInv
<1> SUFFICES ASSUME Init PROVE ItemInv
  BY Zenon
<1>1. /\ count = 0 /\ head = 0 /\ tail = 0 /\ submitted_sequence = 0
      /\ completed_sequence = 0 /\ active_sequence = 0 /\ worker = "take"
      /\ executed = {} /\ cancelled = {} /\ left = {}
      /\ ring = [i \in Indices |-> 0]
  BY Zenon DEF Init
<1>2. ItemTypes
  BY <1>1, WorkQueueAssumption DEF ItemTypes, Indices, SequenceNumbers
<1>3. RingInv
  BY <1>1, WorkQueueAssumption DEF RingInv, At
<1>4. Placed
  BY <1>1 DEF Placed, Base, Running
<1>5. FlushTypes /\ FlushInv
  BY <1>1, WorkQueueAssumption DEF Init, FlushTypes, FlushInv, SequenceNumbers
<1>6. QED
  BY <1>2, <1>3, <1>4, <1>5, Zenon DEF ItemInv

(* ... the calls of clients keep it, ...                                   *)
LEMMA ClientItemInv ==
  ASSUME TokenInv, CvRest, ItemInv, NEW t \in Threads, ClientStep(t)
  PROVE  ItemInv'
<1>1. QueueInv /\ FlushTypes /\ FlushInv
  BY Zenon DEF ItemInv, QueueInv
<1>2. /\ submitted_sequence \in SequenceNumbers /\ submitted_sequence \in Nat
      /\ Base \in 0 .. submitted_sequence
  BY <1>1, QueuedItems, WorkQueueAssumption DEF QueueInv, ItemTypes, SequenceNumbers
<1>3. \A s \in Live : s \in 1 .. submitted_sequence
  BY <1>1, LiveIsNotCompleted, Zenon
<1>4. CASE osal_work_queue_submit(t)
  <2>1. QueueInv' /\ Base' = Base
    BY <1>1, <1>4, QueueSubmit, Zenon
  <2>2. UNCHANGED flushVars /\ submitted_sequence' = submitted_sequence + 1 /\ Running' = Running
    BY <1>4, Zenon DEF osal_work_queue_submit, workVars, Running
  <2>3. \A s \in Live' : s \in Nat /\ (s \in Live \/ s > submitted_sequence)
    BY <1>2, <1>3, <2>1, <2>2 DEF Live
  <2>4. FlushTypes' /\ FlushInv'
    BY <1>1, <1>2, <2>2, <2>3, FlushKept
  <2>5. QED
    BY <2>1, <2>4, Zenon DEF ItemInv, QueueInv
<1>5. CASE osal_work_queue_cancel_all(t)
  <2>1. QueueInv' /\ Base' = submitted_sequence
    BY <1>1, <1>5, QueueCancel, Zenon
  <2>2. UNCHANGED flushVars /\ submitted_sequence' = submitted_sequence /\ Running' = Running
    BY <1>5, Zenon DEF osal_work_queue_cancel_all, workVars, Running
  <2>3. \A s \in Live' : s \in Nat /\ (s \in Live \/ s > submitted_sequence)
    BY <1>2, <1>3, <2>1, <2>2 DEF Live
  <2>4. FlushTypes' /\ FlushInv'
    BY <1>1, <1>2, <2>2, <2>3, FlushKept
  <2>5. QED
    BY <2>1, <2>4, Zenon DEF ItemInv, QueueInv
<1>6. CASE osal_work_queue_flush(t) \/ FlushResumes(t)
  <2>1. UNCHANGED itemVars
    BY <1>6, Zenon DEF osal_work_queue_flush, FlushResumes, queueVars, workVars, ghostVars, itemVars
  <2>2. QueueInv'
    BY <1>1, <2>1, QueueStutter, Zenon
  <2>3. CASE osal_work_queue_flush(t)
    <3>1. PICK b \in BOOLEAN : FlushLoop(t, FlushTarget, submitted_sequence, b)
      BY <2>3, Zenon DEF osal_work_queue_flush
    <3>2. FlushTarget \in SequenceNumbers /\ \A s \in Live : s <= FlushTarget
      BY <1>1, FlushTargetCovers, Zenon
    <3>3. FlushTypes' /\ FlushInv'
      BY <1>1, <1>2, <2>1, <3>1, <3>2, FlushLoopHolds
    <3>4. QED
      BY <2>2, <3>3, Zenon DEF ItemInv, QueueInv
  <2>4. CASE FlushResumes(t)
    <3>1. /\ FlushLoop(t, target[t], called[t], timed[t])
          /\ pc[t] = "flush"
      BY <2>4, Zenon DEF FlushResumes
    <3>2. /\ target[t] \in SequenceNumbers /\ called[t] \in SequenceNumbers
          /\ called[t] <= submitted_sequence
          /\ \A s \in Live : s <= called[t] => s <= target[t]
      BY <1>1, <3>1, Zenon DEF FlushTypes, FlushInv, Awaited
    <3>3. FlushTypes' /\ FlushInv'
      BY <1>1, <2>1, <3>1, <3>2, FlushLoopHolds, Zenon
    <3>4. QED
      BY <2>2, <3>3, Zenon DEF ItemInv, QueueInv
  <2>5. QED
    BY <1>6, <2>3, <2>4, Zenon
<1>7. CASE InWaitStep(t)
  <2>1. UNCHANGED itemVars /\ UNCHANGED flushVars
    BY <1>7, Zenon DEF InWaitStep, wqVars, queueVars, workVars, ghostVars, itemVars
  <2>2. Live' = Live /\ submitted_sequence' = submitted_sequence
    BY <2>1, Zenon DEF Live, Base, Running, itemVars
  <2>3. QueueInv' /\ FlushTypes' /\ FlushInv'
    BY <1>1, <1>2, <1>3, <2>1, <2>2, QueueStutter, FlushKept
  <2>4. QED
    BY <2>3, Zenon DEF ItemInv, QueueInv
<1>8. QED
  BY <1>4, <1>5, <1>6, <1>7, Zenon DEF ClientStep

(* ... and so do the worker's steps, whichever race they win, and destroy, *)
(* unless its join terminates the worker inside an item.                   *)
LEMMA StepItemInv ==
  ASSUME JoinKind # "terminates"
  PROVE  TokenInv /\ CvRest /\ ItemInv /\ [Next]_vars => ItemInv'
<1> SUFFICES ASSUME TokenInv, CvRest, ItemInv, [Next]_vars PROVE ItemInv'
  BY Zenon
<1>1. QueueInv /\ FlushTypes /\ FlushInv
  BY Zenon DEF ItemInv, QueueInv
<1>2. /\ submitted_sequence \in Nat /\ Base \in 0 .. submitted_sequence
  BY <1>1, QueuedItems, WorkQueueAssumption DEF QueueInv, ItemTypes, SequenceNumbers
<1>3. \A s \in Live : s \in 1 .. submitted_sequence
  BY <1>1, LiveIsNotCompleted, Zenon
<1>4. ASSUME QueueInv', UNCHANGED flushVars, submitted_sequence' = submitted_sequence,
             Live' \subseteq Live
      PROVE  ItemInv'
  BY <1>1, <1>2, <1>3, <1>4, FlushKept DEF ItemInv, QueueInv
<1>5. ASSUME UNCHANGED <<ring, head, tail, count, submitted_sequence, completed_sequence,
                         active_sequence, executed, cancelled, flushVars>>,
             (worker = "run") <=> (worker' = "run")
      PROVE  ItemInv'
  <2>1. Base' = Base /\ Running' = Running
    BY <1>5, Zenon DEF Base, Running
  <2>2. Live' = Live
    BY <1>5, <2>1, Zenon DEF Live
  <2>3. ItemTypes' /\ RingInv'
    BY <1>1, <1>5, <2>1, Zenon DEF QueueInv, ItemTypes, RingInv, At
  <2>4. Placed'
    BY <1>1, <1>5, <2>1, Zenon DEF QueueInv, Placed
  <2>5. QED
    BY <1>4, <1>5, <2>2, <2>3, <2>4, Zenon DEF QueueInv
<1>6. CASE \E t \in Threads : ClientStep(t)
  BY <1>6, ClientItemInv, Zenon
<1>7. CASE WorkerTakes
  BY <1>5, <1>7, Zenon DEF WorkerTakes, ghostVars
<1>8. CASE WorkerLooks
  <2>1. CASE count = 0
    BY <1>5, <1>8, <2>1, Zenon DEF WorkerLooks, ghostVars
  <2>2. CASE count # 0
    <3>1. /\ QueueInv' /\ Base' = Base + 1
          /\ Running' = {Base + 1} /\ Running = {}
      BY <1>1, <1>8, <2>2, QueueDequeue, Zenon
    <3>2. UNCHANGED flushVars /\ submitted_sequence' = submitted_sequence /\ count \in Nat \ {0}
      BY <1>8, <2>2, WorkQueueAssumption DEF WorkerLooks, TokenInv, TokenTypes
    <3>3. Live' \subseteq Live
      BY <1>2, <3>1, <3>2 DEF Live, Base
    <3>4. QED
      BY <1>4, <3>1, <3>2, <3>3, Zenon
  <2>3. QED
    BY <2>1, <2>2, Zenon
<1>9. CASE WorkerCompletes
  <2>1. QueueInv' /\ Base' = Base /\ Running' = {}
    BY <1>1, <1>9, QueueComplete, Zenon
  <2>2. UNCHANGED flushVars /\ submitted_sequence' = submitted_sequence
    BY <1>9, Zenon DEF WorkerCompletes, queueVars
  <2>3. QED
    BY <1>4, <2>1, <2>2, Zenon DEF Live
<1>10. CASE DestroyStops
  BY <1>5, <1>10, Zenon DEF DestroyStops, ghostVars
<1>11. CASE DestroyJoins
  <2>1. UNCHANGED worker
    BY <1>11, JoinKind # "terminates", WorkQueueAssumption, Zenon
    DEF DestroyJoins, osal_thread_join, JoinWaits, JoinNotSupported
  <2>2. QED
    BY <1>5, <1>11, <2>1, Zenon DEF DestroyJoins, queueVars, ghostVars
<1>12. CASE UNCHANGED vars
  BY <1>5, <1>12, Zenon DEF vars, wqVars, queueVars, workVars, ghostVars
<1>13. QED
  BY <1>6, <1>7, <1>8, <1>9, <1>10, <1>11, <1>12, Zenon DEF Next, WorkerStep

(* The invariant says of every item where it is.                           *)
LEMMA ItemInvCounts ==
  ASSUME TokenInv, ItemInv
  PROVE  ExactlyOnce
<1>1. QueueInv
  BY Zenon DEF ItemInv, QueueInv
<1>2. /\ Queued = Base + 1 .. submitted_sequence /\ Base \in 0 .. submitted_sequence
      /\ submitted_sequence \in Nat
  BY <1>1, QueuedItems, WorkQueueAssumption DEF QueueInv, ItemTypes, SequenceNumbers
<1>3. /\ executed \cup cancelled \cup Running = 1 .. Base
      /\ executed \cap cancelled = {} /\ (executed \cup cancelled) \cap Running = {}
  BY <1>1, Zenon DEF QueueInv, Placed, Running
<1>4. Queued \cup Running \cup executed \cup cancelled = 1 .. submitted_sequence
  <2>1. Queued \cup Running \cup executed \cup cancelled = (1 .. Base) \cup (Base + 1 .. submitted_sequence)
    BY <1>2, <1>3, Zenon
  <2>2. QED
    BY <1>2, <2>1
<1>5. IsFiniteSet(1 .. Base) /\ Cardinality(1 .. Base) = Base
  BY <1>2, FS_Interval
<1>6. IsFiniteSet(executed) /\ IsFiniteSet(cancelled) /\ IsFiniteSet(Running)
  <2>1. executed \in SUBSET (1 .. Base) /\ cancelled \in SUBSET (1 .. Base) /\ Running \in SUBSET (1 .. Base)
    BY <1>3, Zenon
  <2>2. QED
    BY <1>5, <2>1, FS_Subset, Zenon
<1>7. Cardinality(Queued) = submitted_sequence - Base
  <2>1. Base + 1 \in Int /\ submitted_sequence \in Int
    BY <1>2
  <2>2. Cardinality(Base + 1 .. submitted_sequence) =
          IF Base + 1 > submitted_sequence THEN 0 ELSE submitted_sequence - (Base + 1) + 1
    BY <2>1, FS_Interval, Zenon
  <2>3. QED
    BY <1>2, <2>2
<1>8. /\ Cardinality(executed) \in Nat /\ Cardinality(cancelled) \in Nat
      /\ Cardinality(Running) \in Nat
  BY <1>6, FS_CardinalityType, Zenon
<1>9. Base = Cardinality(executed) + Cardinality(cancelled) + Cardinality(Running)
  <2>1. /\ IsFiniteSet(executed \cup cancelled)
        /\ Cardinality(executed \cup cancelled) = Cardinality(executed) + Cardinality(cancelled)
    BY <1>3, <1>6, DisjointSizes, Zenon
  <2>2. Cardinality((executed \cup cancelled) \cup Running)
          = Cardinality(executed \cup cancelled) + Cardinality(Running)
    BY <1>3, <1>6, <2>1, DisjointSizes, Zenon
  <2>3. QED
    BY <1>3, <1>5, <2>1, <2>2, Zenon
<1>10. Cardinality(Queued) + Cardinality(Running) + Cardinality(executed)
         + Cardinality(cancelled) = submitted_sequence
  <2>1. Base \in Int /\ submitted_sequence \in Int
    BY <1>2
  <2>2. QED
    BY <1>7, <1>8, <1>9, <2>1
<1>11. \A i \in executed, j \in Queued \cup Running : i < j
  <2>1. \A i \in executed : i \in 1 .. Base
    BY <1>3, Zenon
  <2>2. \A i \in executed, j \in Running : i < j
    BY <1>1, Zenon DEF QueueInv, Placed, Running
  <2>3. QED
    BY <1>2, <2>1, <2>2
<1>12. QED
  BY <1>4, <1>10, <1>11, Zenon DEF ExactlyOnce

(* It implies what the run checks.                                         *)
LEMMA ItemInvSuffices == TokenInv /\ CvRest /\ ItemInv => EveryItemOnce
<1> SUFFICES ASSUME TokenInv, CvRest, ItemInv PROVE EveryItemOnce
  BY Zenon
<1>1. CvTypeOK
  BY SlotsAreExact, Zenon DEF CvRest, SlotsAndWakeupsAreExact
<1>2. executed \in SUBSET SequenceNumbers /\ cancelled \in SUBSET SequenceNumbers
  <2>1. QueueInv
    BY Zenon DEF ItemInv, QueueInv
  <2>2. Base \in 0 .. submitted_sequence /\ submitted_sequence \in 0 .. MaxSubmits
    BY <2>1, QueuedItems, Zenon DEF QueueInv, ItemTypes, SequenceNumbers
  <2>3. 1 .. Base \subseteq SequenceNumbers
    BY <2>2, WorkQueueAssumption DEF SequenceNumbers
  <2>4. QED
    BY <2>1, <2>3, Zenon DEF QueueInv, Placed
<1>3. TypeOK
  <2>1. left \in SUBSET SequenceNumbers
    BY Zenon DEF ItemInv, FlushInv
  <2>2. QED
    BY <1>1, <1>2, <2>1, Zenon DEF TypeOK, TokenInv, TokenTypes, ItemInv, ItemTypes, FlushTypes
<1>4. RingInOrder /\ ExactlyOnce
  BY QueuedItems, ItemInvCounts, Zenon DEF ItemInv
<1>5. QED
  BY <1>3, <1>4, Zenon DEF EveryItemOnce, ItemInv, FlushInv, FlushLeavesNothing

(* Wherever the backend's join does not terminate the worker inside an     *)
(* item, every accepted item is queued, running, executed or cancelled,    *)
(* once and in order, and a flush that returned ok has left none behind,   *)
(* for every depth, every number of clients and however submit, cancel_all,*)
(* flush, the worker and destroy interleave.                               *)
THEOREM EveryItemOnceHolds ==
  ASSUME JoinKind # "terminates"
  PROVE  Spec => []EveryItemOnce
<1>1. Init => CvRest
  BY SlotInit, TimedInit, Zenon DEF Init, CvRest
<1>2. TokenInv /\ CvRest /\ ItemInv /\ [Next]_vars => ItemInv'
  BY StepItemInv, JoinKind # "terminates", Zenon
<1>3. QED
  BY <1>1, <1>2, InitItemInv, StepCv, ItemInvSuffices, TokenInvHolds, PTL DEF Spec

(* Where the join waits, destroy returns only when every accepted item has *)
(* been executed or cancelled: nothing is dropped at shutdown.             *)
THEOREM DestroyDrainsHolds ==
  ASSUME JoinKind = "waits"
  PROVE  Spec => []DestroyDrains
<1>1. Init => CvRest
  BY SlotInit, TimedInit, Zenon DEF Init, CvRest
<1>2. TokenInv /\ CvRest /\ ItemInv /\ [Next]_vars => ItemInv'
  BY StepItemInv, JoinKind = "waits", Zenon
<1>3. LeftEmpty /\ TokenInv /\ [Next]_vars => LeftEmpty'
  BY StepLeftEmpty, JoinKind = "waits", Zenon
<1>4. LeftEmpty /\ TokenInv /\ ItemInv => DestroyDrains
  <2> SUFFICES ASSUME LeftEmpty, TokenInv, ItemInv, phase = "destroyed"
               PROVE  1 .. submitted_sequence = executed \cup cancelled
    BY Zenon DEF DestroyDrains
  <2>1. Running = {} /\ count = 0
    BY Zenon DEF LeftEmpty, Running
  <2>2. Base = submitted_sequence
    BY <2>1, WorkQueueAssumption DEF Base, ItemInv, ItemTypes, SequenceNumbers
  <2>3. QED
    BY <2>1, <2>2, Zenon DEF ItemInv, Placed
<1>5. QED
  BY <1>1, <1>2, <1>3, <1>4, InitItemInv, InitLeftEmpty, StepCv, TokenInvHolds, PTL DEF Spec
=============================================================================
