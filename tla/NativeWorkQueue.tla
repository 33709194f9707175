--------------------------- MODULE NativeWorkQueue ---------------------------
(****************************************************************************)
(* The work queues that do not come from emulated_work_queue.inl: the       *)
(* pthread one (posix, linux, rtems, integrity), Zephyr's over k_work_q and *)
(* NuttX's over its low-priority work queue.                                *)
(*                                                                          *)
(* The pthread ring holds the items themselves; the other two keep an array *)
(* of entries and hand the kernel a pointer to one, so an entry has a life  *)
(* of its own: claimed by submit, given back by the handler (Zephyr), by    *)
(* cancel_all, or by nobody (NuttX's trampoline).  Every call holds the     *)
(* queue's lock for what is one step here.                                  *)
(****************************************************************************)
EXTENDS Integers, Sequences, SequencesExt, FiniteSets, FiniteSetsExt

CONSTANTS WkqOses,    \* which of "posix", "zephyr", "nuttx"
          WkqTasks, Depth,
          JobCount,   \* bound on the items submitted in one behaviour
          MaxFlushes  \* bound on the flushes of one behaviour

ASSUME WkqAssumption ==
    WkqOses \subseteq {"posix", "zephyr", "nuttx"} /\ Depth \in Nat \ {0} /\ JobCount \in Nat

VARIABLES wkqOs,
          wkqLife,     \* "up", "stopping" (destroy waits), "gone"
          wkqEntry,    \* entry -> the job in it
          wkqInUse,    \* entries claimed
          wkqPending,  \* nuttx: items whose pending flag is set
          wkqQueue,    \* entries on their way to the worker, oldest first
          wkqRun,      \* the entry the worker runs, or None
          wkqRunJob, wkqRunTicket,   \* what it read from it
          wkqStep,     \* "idle", "read", "run", "finish", "return" of the worker
          wkqTicket, wkqNext, wkqDone,   \* flush markers
          wkqFlusher,  \* zephyr: holder of flush_mutex
          wkqPc,       \* task -> "idle", "flush", "destroy"
          wkqMine,     \* task -> its flush marker
          wkqJob,      \* ghost: job -> "new", "queued", "running", "done", "cancelled"
          wkqBefore,   \* ghost: task -> jobs accepted before its flush began
          wkqOut       \* ghost: what the last step reported to a caller

wkqVars == <<wkqOs, wkqLife, wkqEntry, wkqInUse, wkqPending, wkqQueue, wkqRun, wkqRunJob,
             wkqRunTicket, wkqStep, wkqTicket, wkqNext, wkqDone, wkqFlusher, wkqPc, wkqMine, wkqJob,
             wkqBefore, wkqOut>>
workerVars == <<wkqRun, wkqRunJob, wkqRunTicket, wkqStep>>
flushVars == <<wkqTicket, wkqNext, wkqDone, wkqFlusher, wkqPc, wkqMine, wkqBefore>>

Entries == 1 .. Depth
Jobs == 1 .. JobCount   \* in the order they are submitted
NoJob == 0              \* what a flush sentinel runs
None == 0
NoTaskHere == "nobody"
Flushing(t) == wkqPc[t] = "flush"

WkqInit(os) ==
    /\ wkqOs = os
    /\ wkqLife = "up"
    /\ wkqEntry = [e \in Entries |-> NoJob]
    /\ wkqInUse = {} /\ wkqPending = {}
    /\ wkqQueue = <<>>
    /\ wkqRun = None /\ wkqRunJob = NoJob /\ wkqRunTicket = 0 /\ wkqStep = "idle"
    /\ wkqTicket = [e \in Entries |-> 0]
    /\ wkqNext = 0 /\ wkqDone = 0
    /\ wkqFlusher = NoTaskHere
    /\ wkqPc = [t \in WkqTasks |-> "idle"]
    /\ wkqMine = [t \in WkqTasks |-> 0]
    /\ wkqJob = [j \in Jobs |-> "new"]
    /\ wkqBefore = [t \in WkqTasks |-> {}]
    /\ wkqOut = "none"

------------------------------------------------------------------------------
(* The ring has room for another item; the entry that it goes into.  The    *)
(* pthread ring frees a place when the worker takes the item out of it.     *)
FreeEntries == Entries \ wkqInUse
NewJobs == {j \in Jobs : wkqJob[j] = "new"}
Accepted == Jobs \ NewJobs
Put(e, job, ticket) ==
    /\ wkqEntry' = [wkqEntry EXCEPT ![e] = job]
    /\ wkqTicket' = [wkqTicket EXCEPT ![e] = ticket]
    /\ wkqInUse' = wkqInUse \cup {e}
    /\ wkqQueue' = Append(wkqQueue, e)

(* NuttX sets the item's pending flag as it claims it.                      *)
MarkPending(e) == wkqPending' = IF wkqOs = "nuttx" THEN wkqPending \cup {e} ELSE wkqPending

(* osal_work_queue_submit.                                                  *)
osal_work_queue_submit(t) ==
    /\ wkqPc[t] = "idle"
    /\ wkqLife = "up"
    /\ NewJobs # {}
    /\ FreeEntries # {}
    /\ Put(Min(FreeEntries), Min(NewJobs), 0)
    /\ MarkPending(Min(FreeEntries))
    /\ wkqJob' = [wkqJob EXCEPT ![Min(NewJobs)] = "queued"]
    /\ wkqOut' = "ok"
    /\ UNCHANGED <<wkqOs, wkqLife, workerVars, wkqNext, wkqDone, wkqFlusher, wkqPc, wkqMine,
                   wkqBefore>>

SubmitRefused(t) ==
    /\ wkqPc[t] = "idle"
    /\ wkqLife = "up"
    /\ FreeEntries = {}
    /\ wkqOut' = "full"
    /\ UNCHANGED <<wkqOs, wkqLife, wkqEntry, wkqInUse, wkqPending, wkqQueue, workerVars,
                   flushVars, wkqJob>>

------------------------------------------------------------------------------
(* osal_work_queue_flush, pthread and Zephyr: a sentinel with a marker of   *)
(* its own behind everything queued; a full queue is overflow.  Zephyr lets *)
(* one flush in at a time.                                                  *)
zephyr_flush_lock(t) ==
    IF wkqOs = "zephyr" THEN wkqFlusher = NoTaskHere /\ wkqFlusher' = t
    ELSE UNCHANGED wkqFlusher

FlushSentinel(t) ==
    /\ wkqOs # "nuttx"
    /\ wkqPc[t] = "idle"
    /\ wkqLife = "up"
    /\ zephyr_flush_lock(t)
    /\ wkqNext < MaxFlushes
    /\ FreeEntries # {}
    /\ Put(Min(FreeEntries), NoJob, wkqNext + 1)
    /\ wkqNext' = wkqNext + 1
    /\ wkqMine' = [wkqMine EXCEPT ![t] = wkqNext + 1]
    /\ wkqPc' = [wkqPc EXCEPT ![t] = "flush"]
    /\ wkqBefore' = [wkqBefore EXCEPT ![t] = Accepted]
    /\ wkqOut' = "none"
    /\ UNCHANGED <<wkqOs, wkqLife, wkqPending, workerVars, wkqDone, wkqJob>>

FlushReturns(t, out) ==
    /\ wkqPc' = [wkqPc EXCEPT ![t] = "idle"]
    /\ wkqFlusher' = IF wkqFlusher = t THEN NoTaskHere ELSE wkqFlusher
    /\ wkqMine' = [wkqMine EXCEPT ![t] = 0]
    /\ wkqBefore' = [wkqBefore EXCEPT ![t] = {}]
    /\ wkqOut' = out
    /\ UNCHANGED <<wkqOs, wkqLife, wkqEntry, wkqInUse, wkqPending, wkqQueue, workerVars,
                   wkqTicket, wkqNext, wkqDone, wkqJob>>

FlushDone_AnyMarker(t) ==
    /\ wkqOs # "nuttx"
    /\ Flushing(t)
    /\ wkqDone > 0
    /\ FlushReturns(t, "flushed")

(* Its own marker, or a later one, has been run.                            *)
FlushDone(t) ==
    /\ wkqOs # "nuttx"
    /\ Flushing(t)
    /\ wkqDone >= wkqMine[t]
    /\ FlushReturns(t, "flushed")

FlushTimesOut(t) == Flushing(t) /\ FlushReturns(t, "timeout")

(* NuttX: look at the pending flags, yield, look again, a thousand times.   *)
FlushPoll(t) ==
    /\ wkqOs = "nuttx"
    /\ wkqPc[t] = "idle"
    /\ wkqLife = "up"
    /\ wkqPc' = [wkqPc EXCEPT ![t] = "flush"]
    /\ wkqBefore' = [wkqBefore EXCEPT ![t] = Accepted]
    /\ wkqOut' = "none"
    /\ UNCHANGED <<wkqOs, wkqLife, wkqEntry, wkqInUse, wkqPending, wkqQueue, workerVars,
                   wkqTicket, wkqNext, wkqDone, wkqFlusher, wkqMine, wkqJob>>

FlushSeesNonePending(t) ==
    /\ wkqOs = "nuttx"
    /\ Flushing(t)
    /\ wkqInUse \cap wkqPending = {}
    /\ FlushReturns(t, "flushed")

------------------------------------------------------------------------------
Cancelled(S) == [j \in Jobs |-> IF wkqJob[j] = "queued" /\ \E e \in S : wkqEntry[e] = j
                                 THEN "cancelled" ELSE wkqJob[j]]
Without(S) == SelectSeq(wkqQueue, LAMBDA e : e \notin S)

(* osal_work_queue_cancel_all.  The pthread ring is emptied, sentinels and  *)
(* all.  Zephyr leaves sentinels alone and gives an entry back only when    *)
(* k_work_cancel finds it idle: not when a handler that has already given   *)
(* it back is still returning.  NuttX gives back every item whose pending   *)
(* flag is set, the one that is running included.                           *)
zephyr_cancels == {e \in ToSet(wkqQueue) : wkqTicket[e] = 0}
nuttx_cancels == wkqInUse \cap wkqPending
osal_work_queue_cancel_all(t) ==
    /\ wkqPc[t] = "idle"
    /\ wkqLife = "up"
    /\ LET queued == ToSet(wkqQueue)
           cancel == CASE wkqOs = "posix" -> queued
                       [] wkqOs = "zephyr" -> zephyr_cancels
                       [] wkqOs = "nuttx" -> nuttx_cancels
           release == IF wkqOs = "zephyr" THEN cancel \ {wkqRun} ELSE cancel
       IN  /\ wkqQueue' = Without(cancel)
           /\ wkqJob' = Cancelled(cancel \cap queued)
           /\ wkqInUse' = wkqInUse \ release
           /\ wkqPending' = IF wkqOs = "nuttx" THEN wkqPending \ cancel ELSE wkqPending
    /\ wkqOut' = "ok"
    /\ UNCHANGED <<wkqOs, wkqLife, wkqEntry, workerVars, flushVars>>

------------------------------------------------------------------------------
(* osal_work_queue_destroy, its producers quiesced.  The pthread worker is  *)
(* told to stop and joined, Zephyr's queue is drained and plugged before    *)
(* the thread is aborted; NuttX cancels what is pending and returns.        *)
DestroyCall(t) ==
    /\ wkqOs # "nuttx"
    /\ \A u \in WkqTasks : wkqPc[u] = "idle"
    /\ wkqLife = "up"
    /\ wkqLife' = "stopping"
    /\ wkqPc' = [wkqPc EXCEPT ![t] = "destroy"]
    /\ wkqOut' = "none"
    /\ UNCHANGED <<wkqOs, wkqEntry, wkqInUse, wkqPending, wkqQueue, workerVars, wkqTicket,
                   wkqNext, wkqDone, wkqFlusher, wkqMine, wkqJob, wkqBefore>>

DestroyJoined_WhenStopped(t) ==
    /\ wkqPc[t] = "destroy"
    /\ wkqStep = "idle"
    /\ wkqLife' = "gone"
    /\ wkqPc' = [wkqPc EXCEPT ![t] = "idle"]
    /\ wkqOut' = "ok"
    /\ UNCHANGED <<wkqOs, wkqEntry, wkqInUse, wkqPending, wkqQueue, workerVars, wkqTicket,
                   wkqNext, wkqDone, wkqFlusher, wkqMine, wkqJob, wkqBefore>>

(* The worker leaves its loop, and k_work_queue_drain returns, only when    *)
(* there is nothing left to run.                                            *)
Drained == wkqStep = "idle" /\ wkqQueue = <<>>

DestroyJoined(t) ==
    /\ wkqPc[t] = "destroy"
    /\ Drained
    /\ wkqLife' = "gone"
    /\ wkqPc' = [wkqPc EXCEPT ![t] = "idle"]
    /\ wkqOut' = "ok"
    /\ UNCHANGED <<wkqOs, wkqEntry, wkqInUse, wkqPending, wkqQueue, workerVars, wkqTicket,
                   wkqNext, wkqDone, wkqFlusher, wkqMine, wkqJob, wkqBefore>>

DestroyCancels(t) ==
    /\ wkqOs = "nuttx"
    /\ \A u \in WkqTasks : wkqPc[u] = "idle"
    /\ wkqLife = "up"
    /\ wkqLife' = "gone"
    /\ wkqQueue' = <<>>
    /\ wkqJob' = Cancelled(ToSet(wkqQueue))
    /\ wkqInUse' = {} /\ wkqPending' = {}
    /\ wkqOut' = "ok"
    /\ UNCHANGED <<wkqOs, wkqEntry, workerVars, flushVars>>

------------------------------------------------------------------------------
(* The worker: posix_wq_worker, zephyr_wq_handler, nuttx_work_trampoline.   *)
(* It takes the oldest entry.  The pthread worker copies the item in the    *)
(* same step and the place in the ring is free again; the kernel workers    *)
(* call the handler, which reads the entry.                                 *)
Running(job) == [j \in Jobs |-> IF j = job THEN "running" ELSE wkqJob[j]]

WorkerTakes ==
    /\ wkqStep = "idle"
    /\ wkqQueue # <<>>
    /\ wkqRun' = Head(wkqQueue)
    /\ wkqQueue' = Tail(wkqQueue)
    /\ IF wkqOs = "posix"
       THEN /\ wkqRunJob' = wkqEntry[wkqRun'] /\ wkqRunTicket' = wkqTicket[wkqRun']
            /\ wkqJob' = Running(wkqRunJob')
            /\ wkqInUse' = wkqInUse \ {wkqRun'}
            /\ wkqStep' = "run"
       ELSE /\ wkqStep' = "read"
            /\ UNCHANGED <<wkqRunJob, wkqRunTicket, wkqJob, wkqInUse>>
    /\ wkqOut' = "none"
    /\ UNCHANGED <<wkqOs, wkqLife, wkqEntry, wkqPending, flushVars>>

WorkerReads ==
    /\ wkqStep = "read"
    /\ wkqRunJob' = wkqEntry[wkqRun] /\ wkqRunTicket' = wkqTicket[wkqRun]
    /\ wkqJob' = Running(wkqRunJob')
    /\ wkqStep' = "run"
    /\ wkqOut' = "none"
    /\ UNCHANGED <<wkqOs, wkqLife, wkqEntry, wkqInUse, wkqPending, wkqQueue, wkqRun, flushVars>>

(* The function returns.                                                    *)
WorkerRan ==
    /\ wkqStep = "run"
    /\ wkqJob' = [j \in Jobs |-> IF j = wkqRunJob THEN "done" ELSE wkqJob[j]]
    /\ wkqStep' = "finish"
    /\ wkqOut' = "none"
    /\ UNCHANGED <<wkqOs, wkqLife, wkqEntry, wkqInUse, wkqPending, wkqQueue, wkqRun, wkqRunJob,
                   wkqRunTicket, flushVars>>

zephyr_gives_back == IF wkqOs = "zephyr" THEN {wkqRun} ELSE {}

(* A sentinel completes its marker; Zephyr's handler gives the entry back,  *)
(* NuttX's trampoline clears its pending flag and nothing else.             *)
WorkerFinishes ==
    /\ wkqStep = "finish"
    /\ wkqDone' = IF wkqRunTicket > wkqDone THEN wkqRunTicket ELSE wkqDone
    /\ wkqInUse' = wkqInUse \ zephyr_gives_back
    /\ wkqPending' = wkqPending \ {wkqRun}
    /\ wkqRunJob' = NoJob /\ wkqRunTicket' = 0
    /\ wkqStep' = "return"
    /\ wkqOut' = "none"
    /\ UNCHANGED <<wkqOs, wkqLife, wkqEntry, wkqQueue, wkqRun, wkqTicket, wkqNext, wkqFlusher, wkqPc, wkqMine, wkqJob, wkqBefore>>

WorkerReturns ==
    /\ wkqStep = "return"
    /\ wkqRun' = None
    /\ wkqStep' = "idle"
    /\ wkqOut' = "none"
    /\ UNCHANGED <<wkqOs, wkqLife, wkqEntry, wkqInUse, wkqPending, wkqQueue, wkqRunJob,
                   wkqRunTicket, flushVars, wkqJob>>

------------------------------------------------------------------------------
WkqWorker == WorkerTakes \/ WorkerReads \/ WorkerRan \/ WorkerFinishes \/ WorkerReturns
WkqReturn(t) == FlushDone(t) \/ FlushSeesNonePending(t) \/ DestroyJoined(t)
                \/ (wkqOs = "nuttx" /\ FlushTimesOut(t))

WkqNext ==
    \/ WkqWorker
    \/ \E t \in WkqTasks :
          \/ WkqReturn(t)
          \/ osal_work_queue_submit(t)
          \/ SubmitRefused(t) \/ FlushSentinel(t) \/ FlushPoll(t) \/ FlushTimesOut(t)
          \/ osal_work_queue_cancel_all(t) \/ DestroyCall(t) \/ DestroyCancels(t)

(* The worker thread runs, and a call whose condition holds returns.        *)
WkqFairness == WF_wkqVars(WkqWorker) /\ \A t \in WkqTasks : WF_wkqVars(WkqReturn(t))

------------------------------------------------------------------------------
WkqTypeOK ==
    /\ wkqLife \in {"up", "stopping", "gone"}
    /\ wkqInUse \subseteq Entries /\ wkqPending \subseteq Entries
    /\ wkqQueue \in Seq(Entries) /\ Len(wkqQueue) <= Depth
    /\ wkqRun \in Entries \cup {None} /\ wkqRunJob \in Jobs \cup {NoJob}
    /\ wkqStep \in {"idle", "read", "run", "finish", "return"}
    /\ wkqPc \in [WkqTasks -> {"idle", "flush", "destroy"}]
    /\ wkqJob \in [Jobs -> {"new", "queued", "running", "done", "cancelled"}]

(* On the pthread and the Zephyr queue every job that submit accepted is in *)
(* exactly one place: in one queued entry, with the worker, run already or  *)
(* cancelled; and destroy returns with everything run.  (NuttX's cancel_all *)
(* frees the entry of a job that its worker has taken: the next submit puts *)
(* another job under the trampoline.  Its destroy cancels.)                 *)
WkqKeepsItsWord ==
    /\ WkqTypeOK
    /\ IsInjective(wkqQueue)
    /\ wkqOs # "nuttx" => \A j \in Jobs :
          /\ wkqJob[j] = "queued" <=>
                \/ \E i \in 1 .. Len(wkqQueue) : wkqEntry[wkqQueue[i]] = j
                \/ wkqStep = "read" /\ wkqEntry[wkqRun] = j
          /\ wkqJob[j] = "running" <=> wkqStep = "run" /\ wkqRunJob = j
          /\ wkqLife = "gone" => wkqJob[j] \in {"new", "done", "cancelled"}

(* A flush of those two that returns ok leaves none of the jobs accepted    *)
(* before it queued or running.                                             *)
FlushedMeansDone ==
    \A t \in WkqTasks :
       Flushing(t) /\ wkqOut' = "flushed" /\ wkqPc'[t] = "idle" /\ wkqOs # "nuttx" =>
          \A j \in wkqBefore[t] : wkqJob[j] \in {"done", "cancelled"}

(* The calls that have to return: destroy, and a flush on Zephyr and NuttX. *)
(* (On the pthread queue cancel_all throws away the sentinel that a flush   *)
(* waits for.)                                                              *)
WkqMustReturn(t) == wkqPc[t] = "destroy" \/ (Flushing(t) /\ wkqOs # "posix")

(* submit refuses an item only when the queue is full: Depth items are      *)
(* queued or running ("error_code::overflow The work queue is full.").      *)
RefusedOnlyWhenFull ==
    [][wkqOut' = "full" =>
          Len(wkqQueue) + (IF wkqStep = "idle" THEN 0 ELSE 1) >= Depth]_wkqVars

==============================================================================
