----------------------------- MODULE NativeProofs -----------------------------
(***************************************************************************)
(* Four native services, on every backend and for any number of tasks,     *)
(* threads, handles and slots.  What a caller of osal::mutex was told is   *)
(* what the kernel did; the maximum of a semaphore is enforced; a          *)
(* thread_local_data object returns what was set through it; the memory of *)
(* a thread is there while it is used, and given back.  A section proves   *)
(* one of them, from an inductive invariant of its own.                    *)
(***************************************************************************)
EXTENDS BackendMutex, BackendSemaphore, BackendEventFlags, ThreadLocal, BackendThread, FiniteSetTheorems, TLAPS

-----------------------------------------------------------------------------
(*                               Threads                                   *)

(* What the sixteen records have in common: a slot the running thread uses *)
(* is not given back by a call that finds the thread running; a context is *)
(* shared by two owners, or deleted by the trampoline, or there is none.   *)
ThrDesignOK ==
  /\ Thr.needs \subseteq {"slot", "ctx", "id"}
  /\ Thr.block => "slot" \in Thr.needs
  /\ Thr.ctx \in {"after", "before"} <=> "ctx" \in Thr.needs
  /\ Thr.ctx = "owners" <=> Thr.detach = "owners"
  /\ Thr.ctx = "owners" => Thr.needs = {"slot"} /\ Thr.join = "wait" /\ Thr.fails = "never"
  /\ Thr.detach = "flag" => Thr.needs = {"slot"} /\ Thr.join = "wait" /\ Thr.fails = "never"
  /\ Thr.join = "terminate" => Thr.needs \subseteq {"slot"}
  /\ Thr.detach \in {"kernel", "checked", "release", "forget"} => ~Thr.block
  /\ Thr.join = "request" \/ Thr.fails = "frees" => ~Thr.block

Handled(k) == \E h \in ThrHandles : thrOf[h] = k

(* A thread has what its backend obtained for it, less what was given back *)
(* at the point that it and its handle have reached.                       *)
ThreadKeeps(k) ==
  /\ thrHolds[k] \subseteq Thr.needs
  /\ thrRun[k] = "unborn" => thrHolds[k] = {} /\ ~thrDetached[k] /\ ~Handled(k)
  /\ Executing(k) /\ Thr.block => "slot" \in thrHolds[k]
  /\ Thr.ctx = "after" => ("ctx" \in thrHolds[k] <=> Executing(k))
  /\ Thr.ctx = "before" => ("ctx" \in thrHolds[k] <=> thrRun[k] = "starting")
  /\ Handled(k) => Thr.needs \cap {"slot", "id"} \subseteq thrHolds[k]
  /\ Thr.detach = "flag" /\ thrDetached[k] => ~Handled(k)
  /\ ~Handled(k) /\ thrHolds[k] \cap {"slot", "id"} # {} =>
        /\ thrDetached[k]
        /\ Thr.detach = "flag" \/ (Thr.ctx = "owners" /\ Executing(k))

(* fr_thread_ctx::owners counts the handle and the wrapper, and the        *)
(* context is there while one of them is.                                  *)
OwnersCount(k) ==
  Thr.ctx = "owners" =>
    /\ thrRun[k] # "ended"
    /\ Handled(k) => thrOwners[k] = IF thrRun[k] = "gone" THEN 1 ELSE 2
    /\ thrRun[k] = "gone" => thrDetached[k] \/ ~Handled(k)
    /\ ~Handled(k) /\ thrRun[k] # "unborn" =>
          \/ Executing(k) /\ thrDetached[k] /\ thrOwners[k] = 1 /\ thrHolds[k] = {"slot"}
          \/ thrRun[k] = "gone" /\ thrOwners[k] = 0 /\ thrHolds[k] = {}

(* A call in progress has its handle and, on FreeRTOS, has marked the task. *)
Detaching == {"detach_finished", "detach_running"}

CallKeeps(h) ==
  /\ thrPc[h] # "idle" => thrOf[h] # NoThread
  /\ thrPc[h] = "terminated" => thrRun[thrOf[h]] = "gone" /\ Thr.join = "terminate"
  /\ thrPc[h] \in Detaching => Thr.ctx = "owners"
  /\ thrPc[h] = "detach_finished" => thrRun[thrOf[h]] = "parked"
  /\ thrPc[h] = "detach_running" => thrRun[thrOf[h]] # "parked"
  /\ thrOf[h] # NoThread /\ Thr.ctx = "owners" =>
        (thrDetached[thrOf[h]] <=> thrPc[h] \in Detaching)

HandlesApart ==
  \A g, h \in ThrHandles : thrOf[h] # NoThread /\ thrOf[g] = thrOf[h] => g = h

ThrSlotsApart ==
  \A k, l \in Threads :
     k # l /\ "slot" \in thrHolds[k] \cap thrHolds[l] => thrSlot[k] # thrSlot[l]

ThrInv ==
  /\ ThrTypeOK
  /\ HandlesApart
  /\ ThrSlotsApart
  /\ \A k \in Threads : ThreadKeeps(k) /\ OwnersCount(k)
  /\ \A h \in ThrHandles : CallKeeps(h)

(* A join that reported success left a thread that is over.                *)
JoinIsOver ==
  thrRes.call = "join" /\ thrRes.result = "ok" /\ Thr.join # "request" => Over(thrRes.thread)

(* Each of the sixteen records is of one of these kinds.                   *)
LEMMA ThrDesigns ==
  ASSUME thrOs \in ThreadBuilds
  PROVE  ThrDesignOK
  <1> USE DEF ThrDesignOK, Thr, ThreadOf, ThreadDesign
  <1>1. CASE thrOs = "freertos"
    BY <1>1 DEF freertos_thread
  <1>2. CASE thrOs = "zephyr"
    BY <1>2 DEF zephyr_thread
  <1>3. CASE thrOs = "posix"
    BY <1>3 DEF posix_thread
  <1>15. CASE thrOs = "linux"
    BY <1>15 DEF linux_thread
  <1>4. CASE thrOs = "nuttx"
    BY <1>4 DEF nuttx_thread
  <1>5. CASE thrOs = "qnx"
    BY <1>5 DEF qnx_thread
  <1>6. CASE thrOs = "chibios"
    BY <1>6 DEF chibios_thread
  <1>7. CASE thrOs = "chibios_noexit"
    BY <1>7 DEF chibios_noexit_thread, chibios_thread
  <1>8. CASE thrOs = "cmsis_rtos2"
    BY <1>8 DEF cmsis_rtos2_thread
  <1>9. CASE thrOs = "cmsis_rtos"
    BY <1>9 DEF cmsis_rtos_thread
  <1>10. CASE thrOs = "embos"
    BY <1>10 DEF embos_thread
  <1>11. CASE thrOs = "micrium"
    BY <1>11 DEF micrium_thread, embos_thread
  <1>12. CASE thrOs \in {"px5", "threadx"}
    BY <1>12 DEF px5_thread, threadx_thread, embos_thread
  <1>13. CASE thrOs = "vxworks"
    BY <1>13 DEF vxworks_thread
  <1>14. CASE thrOs = "bare_metal"
    BY <1>14 DEF bare_metal_thread
  <1> HIDE DEF ThrDesignOK, Thr, ThreadDesign
  <1> QED
    BY <1>1, <1>2, <1>3, <1>4, <1>5, <1>6, <1>7, <1>8, <1>9,
       <1>10, <1>11, <1>12, <1>13, <1>14, <1>15, Zenon DEF ThreadBuilds, ThreadOf

(* No thread, handle or memory at first.                                   *)
LEMMA ThrInitHolds ==
  ASSUME NEW os \in ThreadBuilds, ThrInit(os)
  PROVE  ThrInv /\ JoinIsOver
  <1>1. (CHOOSE s \in ThrSlots : TRUE) \in ThrSlots
    BY ThrAssumption, Zenon
  <1>2. ThrTypeOK
    BY <1>1 DEF ThrInit, ThrTypeOK
  <1>3. HandlesApart /\ ThrSlotsApart
    BY Zenon DEF ThrInit, HandlesApart, ThrSlotsApart
  <1>4. ASSUME NEW k \in Threads
        PROVE  ThreadKeeps(k) /\ OwnersCount(k)
    <2>1. thrRun[k] = "unborn" /\ thrHolds[k] = {} /\ ~thrDetached[k]
      BY Zenon DEF ThrInit
    <2>2. ~Handled(k)
      BY ThrAssumption, Zenon DEF ThrInit, Handled
    <2>3. ThrDesignOK
      BY ThrDesigns, Zenon DEF ThrInit
    <2> QED
      BY <2>1, <2>2, <2>3, Zenon DEF ThreadKeeps, OwnersCount, Executing, ThrDesignOK
  <1>5. ASSUME NEW h \in ThrHandles
        PROVE  CallKeeps(h)
    BY Zenon DEF ThrInit, CallKeeps, Detaching
  <1>6. JoinIsOver
    BY Zenon DEF ThrInit, JoinIsOver, NoCall
  <1> QED
    BY <1>2, <1>3, <1>4, <1>5, <1>6, Zenon DEF ThrInv

-----------------------------------------------------------------------------
(* A step that concerns one thread leaves the memory of the others alone.  *)
OnlyThread(k) ==
  /\ UNCHANGED thrOs
  /\ \A j \in Threads \ {k} :
        /\ thrRun'[j] = thrRun[j] /\ thrHolds'[j] = thrHolds[j] /\ thrSlot'[j] = thrSlot[j]
        /\ thrOwners'[j] = thrOwners[j] /\ thrDetached'[j] = thrDetached[j]
        /\ Handled(j)' <=> Handled(j)

OnlyHandle(h) ==
  \A g \in ThrHandles \ {h} : thrOf'[g] = thrOf[g] /\ thrPc'[g] = thrPc[g]

(* What holds of the other threads goes on to hold.                        *)
LEMMA OthersKeep ==
  ASSUME ThrInv, NEW k \in Threads, OnlyThread(k), ThreadKeeps(k)', OwnersCount(k)'
  PROVE  \A j \in Threads : ThreadKeeps(j)' /\ OwnersCount(j)'
  <1> SUFFICES ASSUME NEW j \in Threads, j # k
               PROVE  ThreadKeeps(j)' /\ OwnersCount(j)'
    BY Zenon
  <1>1. ThreadKeeps(j) /\ OwnersCount(j)
    BY Zenon DEF ThrInv
  <1>2. /\ thrRun'[j] = thrRun[j] /\ thrHolds'[j] = thrHolds[j]
        /\ thrOwners'[j] = thrOwners[j] /\ thrDetached'[j] = thrDetached[j]
        /\ Handled(j)' <=> Handled(j)
        /\ Thr' = Thr
    BY Zenon DEF OnlyThread, Thr
  <1>3. ThreadKeeps(j)'
    BY <1>1, <1>2, Zenon DEF ThreadKeeps, Executing
  <1>4. OwnersCount(j)'
    BY <1>1, <1>2, Zenon DEF OwnersCount, Executing
  <1> QED
    BY <1>3, <1>4, Zenon

(* The calls on the other handles do not notice.                           *)
LEMMA CallsKeep ==
  ASSUME ThrInv, NEW h \in ThrHandles, NEW k \in Threads, OnlyThread(k), OnlyHandle(h),
         thrOf[h] = k \/ ~Handled(k), CallKeeps(h)'
  PROVE  \A g \in ThrHandles : CallKeeps(g)'
  <1> SUFFICES ASSUME NEW g \in ThrHandles, g # h
               PROVE  CallKeeps(g)'
    BY Zenon
  <1>1. CallKeeps(g) /\ thrOf[g] \in Threads \cup {NoThread}
    BY Zenon DEF ThrInv, ThrTypeOK
  <1>2. thrOf'[g] = thrOf[g] /\ thrPc'[g] = thrPc[g] /\ Thr' = Thr
    BY Zenon DEF OnlyHandle, OnlyThread, Thr
  <1>3. CASE thrOf[g] = NoThread
    BY <1>1, <1>2, <1>3, Zenon DEF CallKeeps, Detaching
  <1>4. CASE thrOf[g] \in Threads
    <2>1. thrOf[g] # k
      BY <1>4, ThrAssumption, Zenon DEF ThrInv, HandlesApart, Handled
    <2>2. thrRun'[thrOf[g]] = thrRun[thrOf[g]] /\ thrDetached'[thrOf[g]] = thrDetached[thrOf[g]]
      BY <1>4, <2>1, Zenon DEF OnlyThread
    <2> QED
      BY <1>1, <1>2, <2>2, Zenon DEF CallKeeps
  <1> QED
    BY <1>1, <1>3, <1>4, Zenon

(* A handle that was cleared led to no other thread.                       *)
LEMMA Cleared ==
  ASSUME ThrInv, NEW h \in ThrHandles, NEW k \in Threads, thrOf[h] = k,
         thrOf' = [thrOf EXCEPT ![h] = NoThread]
  PROVE  /\ Handled(k) /\ ~Handled(k)'
         /\ \A j \in Threads \ {k} : Handled(j)' <=> Handled(j)
         /\ HandlesApart'
         /\ thrOf' \in [ThrHandles -> Threads \cup {NoThread}]
         /\ thrOf'[h] = NoThread
  <1>1. thrOf \in [ThrHandles -> Threads \cup {NoThread}] /\ HandlesApart
    BY Zenon DEF ThrInv, ThrTypeOK
  <1>2. Handled(k)
    BY Zenon DEF Handled
  <1>3. thrOf' \in [ThrHandles -> Threads \cup {NoThread}] /\ thrOf'[h] = NoThread
    BY <1>1, Zenon
  <1>4. \A g \in ThrHandles \ {h} : thrOf'[g] = thrOf[g] /\ thrOf[g] # k
    BY <1>1, ThrAssumption, Zenon DEF HandlesApart
  <1>5. ~Handled(k)'
    BY <1>3, <1>4, ThrAssumption, Zenon DEF Handled
  <1>6. ASSUME NEW j \in Threads \ {k}
        PROVE  Handled(j)' <=> Handled(j)
    BY <1>3, <1>4, ThrAssumption, Zenon DEF Handled
  <1>7. HandlesApart'
    BY <1>1, <1>3, <1>4, Zenon DEF HandlesApart
  <1> QED
    BY <1>2, <1>3, <1>5, <1>6, <1>7, Zenon

(* Memory that is given back is nobody's, so the slots stay apart.         *)
LEMMA ThrSlotsStay ==
  ASSUME ThrInv, NEW k \in Threads, OnlyThread(k), UNCHANGED thrSlot,
         thrHolds'[k] \subseteq thrHolds[k]
  PROVE  ThrSlotsApart'
  <1>1. \A j \in Threads : thrHolds'[j] \subseteq thrHolds[j]
    BY Zenon DEF OnlyThread
  <1> QED
    BY <1>1, Zenon DEF ThrInv, ThrSlotsApart

(* A step of a call is judged by its own handle and thread.                *)
LEMMA CallHolds ==
  ASSUME ThrInv, ThrTypeOK', NEW h \in ThrHandles, NEW k \in Threads, thrOf[h] = k,
         OnlyThread(k), OnlyHandle(h), HandlesApart', UNCHANGED thrSlot,
         thrHolds'[k] \subseteq thrHolds[k],
         ThreadKeeps(k)', OwnersCount(k)', CallKeeps(h)'
  PROVE  ThrInv'
  <1>1. \A j \in Threads : ThreadKeeps(j)' /\ OwnersCount(j)'
    BY OthersKeep, Zenon
  <1>2. \A g \in ThrHandles : CallKeeps(g)'
    BY CallsKeep, Zenon
  <1>3. ThrSlotsApart'
    BY ThrSlotsStay, Zenon
  <1> QED
    BY <1>1, <1>2, <1>3, Zenon DEF ThrInv

(* A step of a thread is judged by itself and the call on its handle.      *)
LEMMA MoveHolds ==
  ASSUME ThrInv, ThrTypeOK', NEW k \in Threads, OnlyThread(k),
         UNCHANGED <<thrSlot, thrOf, thrPc>>, thrHolds'[k] \subseteq thrHolds[k],
         ThreadKeeps(k)', OwnersCount(k)',
         \A h \in ThrHandles : thrOf[h] = k => CallKeeps(h)'
  PROVE  ThrInv'
  <1>1. \A j \in Threads : ThreadKeeps(j)' /\ OwnersCount(j)'
    BY OthersKeep, Zenon
  <1>2. ASSUME NEW g \in ThrHandles, thrOf[g] # k
        PROVE  CallKeeps(g)'
    <2>1. CallKeeps(g) /\ thrOf[g] \in Threads \cup {NoThread}
      BY Zenon DEF ThrInv, ThrTypeOK
    <2>2. thrOf'[g] = thrOf[g] /\ thrPc'[g] = thrPc[g] /\ Thr' = Thr
      BY Zenon DEF OnlyThread, Thr
    <2>3. CASE thrOf[g] = NoThread
      BY <2>1, <2>2, <2>3, Zenon DEF CallKeeps, Detaching
    <2>4. CASE thrOf[g] \in Threads
      <3>1. thrRun'[thrOf[g]] = thrRun[thrOf[g]]
            /\ thrDetached'[thrOf[g]] = thrDetached[thrOf[g]]
        BY <1>2, <2>4, Zenon DEF OnlyThread
      <3> QED
        BY <2>1, <2>2, <3>1, Zenon DEF CallKeeps
    <2> QED
      BY <2>1, <2>3, <2>4, Zenon
  <1>3. ThrSlotsApart'
    BY ThrSlotsStay, Zenon
  <1>4. HandlesApart'
    BY Zenon DEF ThrInv, HandlesApart
  <1> QED
    BY <1>1, <1>2, <1>3, <1>4, Zenon DEF ThrInv

-----------------------------------------------------------------------------
(* The trampoline: QNX deletes the context before the entry runs.          *)
LEMMA StartHolds ==
  ASSUME ThrInv, NEW k \in Threads, Start(k) \/ EntryReturns(k)
  PROVE  ThrInv'
  <1>1. ThrTypeOK' /\ Thr' = Thr
    BY DEF ThrInv, ThrTypeOK, Start, EntryReturns, Thr
  <1>2. ThrTypeOK /\ ThreadKeeps(k) /\ OwnersCount(k) /\ ThrDesignOK
    BY ThrDesigns, Zenon DEF ThrInv, ThrTypeOK
  <1>3. UNCHANGED <<thrOs, thrSlot, thrOwners, thrDetached, thrOf, thrPc>>
    BY Zenon DEF Start, EntryReturns
  <1>4. \A j \in Threads : Handled(j)' <=> Handled(j)
    BY <1>3, Zenon DEF Handled
  <1>5. OnlyThread(k)
    BY <1>2, <1>3, <1>4, Zenon DEF OnlyThread, Start, EntryReturns, ThrTypeOK
  <1>6. /\ Executing(k) /\ Executing(k)' /\ thrRun'[k] \in {"running", "returned"}
        /\ thrHolds'[k] \subseteq thrHolds[k] /\ thrHolds[k] \ {"ctx"} \subseteq thrHolds'[k]
        /\ "ctx" \in thrHolds'[k] <=> Thr.ctx # "before" /\ "ctx" \in thrHolds[k]
    <2>1. CASE Start(k)
      BY <1>2, <2>1, Zenon DEF Start, Executing, ThrTypeOK
    <2>2. CASE EntryReturns(k)
      BY <1>2, <2>2, Zenon DEF EntryReturns, Executing, ThrTypeOK, ThreadKeeps
    <2> QED
      BY <2>1, <2>2, Zenon
  <1>7. ThreadKeeps(k)'
    BY <1>1, <1>2, <1>3, <1>4, <1>6, Zenon DEF ThreadKeeps, ThrDesignOK, Executing
  <1>8. OwnersCount(k)'
    BY <1>1, <1>2, <1>3, <1>4, <1>6, Zenon DEF OwnersCount, Executing
  <1>9. ASSUME NEW h \in ThrHandles, thrOf[h] = k
        PROVE  CallKeeps(h)'
    BY <1>1, <1>3, <1>6, <1>9, Zenon DEF ThrInv, CallKeeps, Executing
  <1> QED
    BY <1>1, <1>3, <1>5, <1>6, <1>7, <1>8, <1>9, MoveHolds, Zenon

(* The end of fr_thread_wrapper_fn: a task that was detached drops its     *)
(* share, one that was not waits for the call that will take both.         *)
LEMMA FinishOwnedHolds ==
  ASSUME ThrInv, NEW k \in Threads, FinishOwned(k)
  PROVE  ThrInv'
  <1>1. UNCHANGED <<thrOs, thrSlot, thrDetached, thrOf, thrPc>> /\ Thr' = Thr
    BY Zenon DEF FinishOwned, Thr
  <1>2. ThrTypeOK /\ ThreadKeeps(k) /\ OwnersCount(k) /\ ThrDesignOK
    BY ThrDesigns, Zenon DEF ThrInv, ThrTypeOK
  <1>3. thrRun[k] = "returned" /\ Thr.ctx = "owners"
    BY Zenon DEF FinishOwned
  <1>4. thrOwners[k] \in {1, 2} /\ (thrOwners[k] = 1 <=> ~Handled(k))
    BY <1>2, <1>3 DEF OwnersCount
  <1>5. \A j \in Threads : Handled(j)' <=> Handled(j)
    BY <1>1, Zenon DEF Handled
  <1>6. \/ /\ thrDetached[k] /\ thrRun'[k] = "gone" /\ thrOwners'[k] = thrOwners[k] - 1
           /\ thrHolds'[k] = IF Handled(k) THEN thrHolds[k] ELSE {}
        \/ /\ ~thrDetached[k] /\ thrRun'[k] = "parked" /\ thrOwners'[k] = thrOwners[k]
           /\ thrHolds'[k] = thrHolds[k]
    BY <1>2, <1>4, Zenon DEF FinishOwned, ReleaseOwner, ThrTypeOK
  <1>7. ThrTypeOK'
    BY <1>2, <1>4 DEF FinishOwned, ReleaseOwner, ThrTypeOK
  <1>8. OnlyThread(k)
    BY <1>1, <1>2, <1>5, Zenon DEF OnlyThread, FinishOwned, ReleaseOwner, ThrTypeOK
  <1>9. ThreadKeeps(k)'
    BY <1>1, <1>2, <1>3, <1>4, <1>5, <1>6, Zenon DEF ThreadKeeps, OwnersCount, ThrDesignOK, Executing
  <1>10. OwnersCount(k)'
    BY <1>1, <1>2, <1>3, <1>4, <1>5, <1>6 DEF OwnersCount, Executing
  <1>11. ASSUME NEW h \in ThrHandles, thrOf[h] = k
         PROVE  CallKeeps(h)'
    BY <1>1, <1>3, <1>6, <1>11, Zenon DEF ThrInv, CallKeeps, Detaching
  <1>12. thrHolds'[k] \subseteq thrHolds[k]
    BY <1>6, Zenon
  <1> QED
    BY <1>1, <1>7, <1>8, <1>9, <1>10, <1>11, <1>12, MoveHolds, Zenon

(* The other trampolines end.                                              *)
LEMMA FinishHolds ==
  ASSUME ThrInv, NEW k \in Threads, Finish(k)
  PROVE  ThrInv'
  <1>1. /\ UNCHANGED <<thrOs, thrSlot, thrOwners, thrDetached, thrOf, thrPc>>
        /\ Thr' = Thr
    BY Zenon DEF Finish, Thr
  <1>2. ThrTypeOK /\ ThreadKeeps(k) /\ ThrDesignOK
    BY ThrDesigns, Zenon DEF ThrInv, ThrTypeOK
  <1>3. thrRun[k] = "returned" /\ Thr.ctx # "owners"
    BY Zenon DEF Finish
  <1>4. /\ thrRun'[k] = "ended"
        /\ thrHolds'[k] = IF Thr.ctx = "after" THEN thrHolds[k] \ {"ctx"}
                          ELSE IF Thr.detach = "flag" /\ thrDetached[k] THEN {}
                          ELSE thrHolds[k]
    BY <1>2, Zenon DEF Finish, ThrTypeOK
  <1>5. \A j \in Threads : Handled(j)' <=> Handled(j)
    BY <1>1, Zenon DEF Handled
  <1>6. ThrTypeOK'
    BY <1>2, Zenon DEF Finish, ThrTypeOK
  <1>7. OnlyThread(k)
    BY <1>1, <1>2, <1>5, Zenon DEF OnlyThread, Finish, ThrTypeOK
  <1>8. ThreadKeeps(k)'
    BY <1>1, <1>2, <1>3, <1>4, <1>5, Zenon DEF ThreadKeeps, ThrDesignOK, Executing
  <1>9. OwnersCount(k)'
    BY <1>1, <1>3, Zenon DEF OwnersCount
  <1>10. ASSUME NEW h \in ThrHandles, thrOf[h] = k
         PROVE  CallKeeps(h)'
    BY <1>1, <1>3, <1>10, Zenon DEF ThrInv, CallKeeps, Detaching
  <1>11. thrHolds'[k] \subseteq thrHolds[k]
    BY <1>4, Zenon
  <1> QED
    BY <1>1, <1>6, <1>7, <1>8, <1>9, <1>10, <1>11, MoveHolds, Zenon

(* Suspending and resuming moves no memory.                                *)
LEMMA SwitchHolds ==
  ASSUME ThrInv, NEW h \in ThrHandles, thread_suspend(h) \/ thread_resume(h)
  PROVE  ThrInv'
  <1>1. PICK k \in Threads : thrOf[h] = k
    BY Zenon DEF thread_suspend, thread_resume, Switch, ThrInv, ThrTypeOK
  <1>2. ThrTypeOK /\ ThreadKeeps(k) /\ OwnersCount(k) /\ ThrDesignOK
    BY ThrDesigns, Zenon DEF ThrInv, ThrTypeOK
  <1>3. /\ UNCHANGED <<thrOs, thrHolds, thrSlot, thrOwners, thrDetached, thrOf, thrPc>>
        /\ Thr' = Thr
    BY Zenon DEF thread_suspend, thread_resume, Switch, Thr
  <1>4. \A j \in Threads : Handled(j)' <=> Handled(j)
    BY <1>3, Zenon DEF Handled
  <1>5. /\ Executing(k) /\ Executing(k)' /\ thrRun[k] # "starting"
        /\ thrRun'[k] \in {"running", "suspended"}
    BY <1>1, <1>2, Zenon DEF thread_suspend, thread_resume, Switch, Executing, ThrTypeOK
  <1>6. ThrTypeOK' /\ OnlyThread(k)
    BY <1>1, <1>2, <1>3, <1>4, Zenon
       DEF OnlyThread, thread_suspend, thread_resume, Switch, ThrTypeOK
  <1>7. ThreadKeeps(k)'
    BY <1>2, <1>3, <1>4, <1>5, Zenon DEF ThreadKeeps, Executing
  <1>8. OwnersCount(k)'
    BY <1>2, <1>3, <1>4, <1>5, Zenon DEF OwnersCount, Executing
  <1>9. ASSUME NEW g \in ThrHandles, thrOf[g] = k
        PROVE  CallKeeps(g)'
    BY <1>3, <1>5, <1>9, Zenon DEF ThrInv, CallKeeps, Executing
  <1>10. thrHolds'[k] \subseteq thrHolds[k]
    BY <1>3, Zenon
  <1> QED
    BY <1>3, <1>6, <1>7, <1>8, <1>9, <1>10, MoveHolds, Zenon

-----------------------------------------------------------------------------
(* Calls that fail, are refused or only begin move no memory either.       *)
LEMMA NothingMoves ==
  ASSUME ThrInv, NEW h \in ThrHandles,
         UNCHANGED <<thrOs, thrRun, thrHolds, thrSlot, thrOwners, thrDetached, thrOf>>,
         \/ UNCHANGED thrPc
         \/ /\ thrPc[h] \notin Detaching
            /\ thrOf[h] # NoThread
            /\ \E pc \in Joining \cup {"idle"} : thrPc' = [thrPc EXCEPT ![h] = pc]
  PROVE  ThrInv'
  <1>1. ThrTypeOK' /\ Thr' = Thr
    BY DEF ThrInv, ThrTypeOK, Thr
  <1>2. HandlesApart' /\ ThrSlotsApart'
    BY Zenon DEF ThrInv, HandlesApart, ThrSlotsApart
  <1>3. ASSUME NEW k \in Threads
        PROVE  ThreadKeeps(k)' /\ OwnersCount(k)'
    <2>1. Handled(k)' <=> Handled(k)
      BY Zenon DEF Handled
    <2>2. ThreadKeeps(k)'
      BY <1>1, <2>1, Zenon DEF ThrInv, ThreadKeeps, Executing
    <2>3. OwnersCount(k)'
      BY <1>1, <2>1, Zenon DEF ThrInv, OwnersCount, Executing
    <2> QED
      BY <2>2, <2>3, Zenon
  <1>4. ASSUME NEW g \in ThrHandles
        PROVE  CallKeeps(g)'
    <2>1. CallKeeps(g) /\ ThrTypeOK
      BY Zenon DEF ThrInv
    <2>2. \/ thrPc'[g] = thrPc[g]
          \/ /\ thrPc[g] \notin Detaching /\ thrOf[g] # NoThread
             /\ thrPc'[g] \in {"join", "join_for", "idle"}
      BY <2>1, Zenon DEF ThrTypeOK, Joining
    <2> QED
      BY <1>1, <2>1, <2>2, Zenon DEF CallKeeps, Detaching
  <1> QED
    BY <1>1, <1>2, <1>3, <1>4, Zenon DEF ThrInv

(* osal_thread_create that fails, the beginning of a join, a join that     *)
(* times out, a detach that is refused.                                    *)
LEMMA RefusedHolds ==
  ASSUME ThrInv, NEW h \in ThrHandles,
         CreateFails(h) \/ thread_join(h) \/ JoinTimesOut(h) \/ DetachRefused(h)
  PROVE  ThrInv'
  <1>1. UNCHANGED <<thrOs, thrRun, thrHolds, thrSlot, thrOwners, thrDetached, thrOf>>
    BY Zenon DEF CreateFails, thread_join, JoinTimesOut, DetachRefused
  <1>2. ThrTypeOK /\ CallKeeps(h)
    BY Zenon DEF ThrInv
  <1>3. CASE CreateFails(h) \/ DetachRefused(h)
    <2>1. UNCHANGED thrPc
      BY <1>3, Zenon DEF CreateFails, DetachRefused
    <2> QED
      BY <1>1, <2>1, NothingMoves, Zenon
  <1>4. CASE thread_join(h)
    <2>1. thrPc[h] = "idle" /\ thrOf[h] # NoThread
      BY <1>4, Zenon DEF thread_join
    <2>2. \E pc \in Joining \cup {"idle"} : thrPc' = [thrPc EXCEPT ![h] = pc]
      BY <1>4, <2>1, Zenon DEF thread_join
    <2>3. thrPc[h] \notin Detaching
      BY <2>1, Zenon DEF Detaching
    <2> QED
      BY <1>1, <2>1, <2>2, <2>3, NothingMoves, Zenon
  <1>5. CASE JoinTimesOut(h)
    <2>1. thrPc[h] = "join_for" /\ thrPc' = [thrPc EXCEPT ![h] = "idle"]
      BY <1>5, Zenon DEF JoinTimesOut
    <2>2. thrPc[h] \notin Detaching /\ thrOf[h] # NoThread
      BY <1>2, <2>1, Zenon DEF Detaching, CallKeeps
    <2> QED
      BY <1>1, <2>1, <2>2, NothingMoves, Zenon
  <1> QED
    BY <1>3, <1>4, <1>5, Zenon

(* A call that gives the slot or the id back and clears the handle, of a   *)
(* thread that does not run on that slot any more or never did.            *)
LEMMA LetGoHolds ==
  ASSUME ThrInv, NEW h \in ThrHandles, NEW k \in Threads, thrOf[h] = k, LetGo(h),
         UNCHANGED <<thrOs, thrRun, thrSlot, thrOwners, thrDetached>>,
         thrPc' = [thrPc EXCEPT ![h] = "idle"],
         Thr.ctx # "owners", Executing(k) => ~Thr.block
  PROVE  ThrInv'
  <1>1. ThrTypeOK /\ ThreadKeeps(k) /\ ThrDesignOK /\ Thr' = Thr
    BY ThrDesigns, Zenon DEF ThrInv, ThrTypeOK, Thr
  <1>2. thrHolds' = [thrHolds EXCEPT ![k] = @ \ {"slot", "id"}]
    BY Zenon DEF LetGo
  <1>3. thrOf' = [thrOf EXCEPT ![h] = NoThread]
    BY Zenon DEF LetGo
  <1>4. /\ Handled(k) /\ ~Handled(k)'
        /\ \A j \in Threads \ {k} : Handled(j)' <=> Handled(j)
        /\ HandlesApart'
        /\ thrOf' \in [ThrHandles -> Threads \cup {NoThread}]
        /\ thrOf'[h] = NoThread
    BY <1>3, Cleared, Zenon
  <1>5. thrHolds'[k] = thrHolds[k] \ {"slot", "id"}
    BY <1>1, <1>2, Zenon DEF ThrTypeOK
  <1>6. ThrTypeOK'
    BY <1>1, <1>2, <1>4, Zenon DEF ThrTypeOK
  <1>7. OnlyThread(k)
    BY <1>1, <1>2, <1>4, Zenon DEF OnlyThread, ThrTypeOK
  <1>8. OnlyHandle(h) /\ thrPc'[h] = "idle"
    BY <1>1, <1>3, Zenon DEF OnlyHandle, ThrTypeOK
  <1>9. ThreadKeeps(k)'
    BY <1>1, <1>4, <1>5, Zenon DEF ThreadKeeps, Executing, ThrDesignOK
  <1>10. OwnersCount(k)'
    BY <1>1, Zenon DEF OwnersCount
  <1>11. CallKeeps(h)'
    BY <1>4, <1>8, Zenon DEF CallKeeps, Detaching
  <1>12. thrHolds'[k] \subseteq thrHolds[k]
    BY <1>5, Zenon
  <1> QED
    BY <1>4, <1>6, <1>7, <1>8, <1>9, <1>10, <1>11, <1>12, CallHolds, Zenon

(* The calls of that kind.                                                 *)
LEMMA ReleasesHold ==
  ASSUME ThrInv, NEW h \in ThrHandles,
         JoinFails(h) \/ TerminateDone(h) \/ JoinRequested(h) \/ DetachReleases(h)
  PROVE  ThrInv'
  <1>1. ThrTypeOK /\ CallKeeps(h) /\ ThrDesignOK
    BY ThrDesigns, Zenon DEF ThrInv, ThrTypeOK
  <1>2. UNCHANGED <<thrOs, thrRun, thrSlot, thrOwners, thrDetached>>
    BY Zenon DEF JoinFails, TerminateDone, JoinRequested, DetachReleases
  <1>3. thrOf[h] # NoThread /\ thrPc' = [thrPc EXCEPT ![h] = "idle"]
    BY <1>1, Zenon DEF JoinFails, TerminateDone, JoinRequested, DetachReleases, DetachCall, Joining,
       CallKeeps, ThrTypeOK
  <1>4. PICK k \in Threads : thrOf[h] = k
    BY <1>1, <1>3, Zenon DEF ThrTypeOK
  <1>5. CASE UNCHANGED <<thrHolds, thrOf>> /\ (JoinFails(h) \/ TerminateDone(h))
    <2>1. thrPc[h] \notin Detaching
      BY <1>5, Zenon DEF JoinFails, TerminateDone, Joining, Detaching
    <2> QED
      BY <1>2, <1>3, <1>5, <2>1, NothingMoves, Zenon
  <1>6. ASSUME LetGo(h), Thr.ctx # "owners", Executing(k) => ~Thr.block
        PROVE  ThrInv'
    BY <1>2, <1>3, <1>4, <1>6, LetGoHolds, Zenon
  <1>7. CASE Thr.fails = "frees" /\ LetGo(h)
    BY <1>1, <1>6, <1>7, Zenon DEF ThrDesignOK
  <1>8. CASE TerminateDone(h) /\ LetGo(h)
    <2>1. thrRun[k] = "gone" /\ Thr.join = "terminate"
      BY <1>1, <1>4, <1>8, Zenon DEF TerminateDone, CallKeeps
    <2> QED
      BY <1>1, <1>6, <1>8, <2>1, Zenon DEF ThrDesignOK, Executing
  <1>9. CASE JoinRequested(h)
    BY <1>1, <1>6, <1>9, Zenon DEF JoinRequested, ThrDesignOK
  <1>10. CASE DetachReleases(h)
    BY <1>1, <1>6, <1>10, Zenon DEF DetachReleases, ThrDesignOK
  <1> QED
    BY <1>5, <1>7, <1>8, <1>9, <1>10, Zenon DEF JoinFails, TerminateDone

(* A call that ends the thread's last use of the context on FreeRTOS: the  *)
(* handle is cleared, and n shares are taken of the two or the one left.   *)
LEMMA ShareHolds ==
  ASSUME ThrInv, NEW h \in ThrHandles, NEW k \in Threads, thrOf[h] = k, Thr.ctx = "owners",
         UNCHANGED <<thrOs, thrSlot, thrDetached>>,
         thrOf' = [thrOf EXCEPT ![h] = NoThread],
         thrPc' = [thrPc EXCEPT ![h] = "idle"],
         \/ /\ thrRun[k] = "parked" /\ ReleaseOwner(k, 2)
            /\ thrRun' = [thrRun EXCEPT ![k] = "gone"]
         \/ /\ thrPc[h] = "detach_running" /\ ReleaseOwner(k, 1)
            /\ UNCHANGED thrRun
  PROVE  ThrInv'
  <1>1. /\ ThrTypeOK /\ ThreadKeeps(k) /\ OwnersCount(k) /\ CallKeeps(h) /\ ThrDesignOK
        /\ Thr' = Thr
    BY ThrDesigns, Zenon DEF ThrInv, ThrTypeOK, Thr
  <1>2. /\ Handled(k) /\ ~Handled(k)'
        /\ \A j \in Threads \ {k} : Handled(j)' <=> Handled(j)
        /\ HandlesApart'
        /\ thrOf' \in [ThrHandles -> Threads \cup {NoThread}]
        /\ thrOf'[h] = NoThread
    BY Cleared, Zenon
  <1>3. /\ thrRun[k] \notin {"unborn", "ended"}
        /\ thrOwners[k] = IF thrRun[k] = "gone" THEN 1 ELSE 2
        /\ thrHolds[k] = {"slot"}
    BY <1>1, <1>2, Zenon DEF ThreadKeeps, OwnersCount, ThrDesignOK
  <1>4. /\ thrRun'[k] \in {"starting", "running", "suspended", "returned", "gone"}
        /\ Executing(k)' => thrDetached[k] /\ thrOwners'[k] = 1 /\ thrHolds'[k] = {"slot"}
        /\ thrRun'[k] = "gone" => thrOwners'[k] = 0 /\ thrHolds'[k] = {}
    <2>1. CASE thrRun[k] = "parked" /\ ReleaseOwner(k, 2) /\ thrRun' = [thrRun EXCEPT ![k] = "gone"]
      BY <1>1, <1>3, <2>1 DEF ReleaseOwner, ThrTypeOK, Executing
    <2>2. CASE thrPc[h] = "detach_running" /\ ReleaseOwner(k, 1) /\ UNCHANGED thrRun
      <3>1. thrRun[k] # "parked" /\ thrDetached[k]
        BY <1>1, <2>2, ThrAssumption, Zenon DEF CallKeeps, Detaching
      <3> QED
        BY <1>1, <1>3, <2>2, <3>1 DEF ReleaseOwner, ThrTypeOK, Executing
    <2> QED
      BY <2>1, <2>2, Zenon
  <1>5. thrHolds'[k] \subseteq thrHolds[k]
    BY <1>3, <1>4, Zenon DEF Executing
  <1>6. ThrTypeOK'
    <2>1. thrOwners' \in [Threads -> 0 .. 2]
      BY <1>1, <1>4 DEF ThrTypeOK, ReleaseOwner, Executing
    <2> QED
      BY <1>1, <1>2, <2>1 DEF ThrTypeOK, ReleaseOwner
  <1>7. OnlyThread(k)
    BY <1>1, <1>2 DEF OnlyThread, ReleaseOwner, ThrTypeOK
  <1>8. OnlyHandle(h) /\ thrPc'[h] = "idle"
    BY <1>1, Zenon DEF OnlyHandle, ThrTypeOK
  <1>9. ThreadKeeps(k)'
    BY <1>1, <1>2, <1>4, Zenon DEF ThreadKeeps, Executing, ThrDesignOK
  <1>10. OwnersCount(k)'
    BY <1>1, <1>2, <1>4, Zenon DEF OwnersCount, Executing
  <1>11. CallKeeps(h)'
    BY <1>2, <1>8, Zenon DEF CallKeeps, Detaching
  <1> QED
    BY <1>2, <1>5, <1>6, <1>7, <1>8, <1>9, <1>10, <1>11, CallHolds, Zenon

(* A join that finds the thread over.                                      *)
LEMMA JoinDoneHolds ==
  ASSUME ThrInv, NEW h \in ThrHandles, JoinDone(h)
  PROVE  ThrInv'
  <1>1. ThrTypeOK /\ CallKeeps(h) /\ ThrDesignOK
    BY ThrDesigns, Zenon DEF ThrInv, ThrTypeOK
  <1>2. PICK k \in Threads : thrOf[h] = k
    BY <1>1, Zenon DEF JoinDone, Joining, CallKeeps, ThrTypeOK
  <1>3. Over(k) /\ thrPc[h] \in Joining /\ OwnersCount(k) /\ Handled(k)
    BY <1>2, Zenon DEF JoinDone, ThrInv, Handled
  <1>4. CASE Thr.ctx = "owners"
    <2>1. thrRun[k] = "parked"
      BY <1>1, <1>2, <1>3, <1>4, ThrAssumption, Zenon
         DEF Over, OwnersCount, CallKeeps, Joining, Detaching
    <2> QED
      BY <1>2, <1>4, <2>1, ShareHolds, Zenon DEF JoinDone
  <1>5. CASE Thr.ctx # "owners"
    BY <1>2, <1>3, <1>5, LetGoHolds, Zenon DEF JoinDone, Over, Executing
  <1> QED
    BY <1>4, <1>5, Zenon

(* The second step of a FreeRTOS detach.                                   *)
LEMMA DetachOwnedDoneHolds ==
  ASSUME ThrInv, NEW h \in ThrHandles, DetachOwnedDone(h)
  PROVE  ThrInv'
  <1>1. ThrTypeOK /\ CallKeeps(h)
    BY Zenon DEF ThrInv
  <1>2. PICK k \in Threads : thrOf[h] = k
    BY <1>1, Zenon DEF DetachOwnedDone, CallKeeps, ThrTypeOK
  <1>3. Thr.ctx = "owners" /\ (thrPc[h] = "detach_finished" => thrRun[k] = "parked")
    BY <1>1, <1>2, Zenon DEF DetachOwnedDone, CallKeeps, Detaching
  <1> QED
    BY <1>2, <1>3, ShareHolds, Zenon DEF DetachOwnedDone

(* OS_TASK_Terminate and its kin: the slot is still the thread's.          *)
LEMMA TerminateHolds ==
  ASSUME ThrInv, NEW h \in ThrHandles, Terminate(h)
  PROVE  ThrInv'
  <1>1. /\ ThrTypeOK /\ CallKeeps(h) /\ ThrDesignOK /\ Thr' = Thr
        /\ UNCHANGED <<thrOs, thrHolds, thrSlot, thrOwners, thrDetached, thrOf>>
    BY ThrDesigns, Zenon DEF ThrInv, ThrTypeOK, Thr, Terminate
  <1>2. PICK k \in Threads : thrOf[h] = k
    BY <1>1, Zenon DEF Terminate, Joining, CallKeeps, ThrTypeOK
  <1>3. /\ thrRun' = [thrRun EXCEPT ![k] = "gone"] /\ Thr.join = "terminate"
        /\ thrPc' = [thrPc EXCEPT ![h] = "terminated"]
    BY <1>2, Zenon DEF Terminate
  <1>4. Thr.ctx \notin {"owners", "after", "before"}
    BY <1>1, <1>3, Zenon DEF ThrDesignOK
  <1>5. ThreadKeeps(k) /\ Handled(k)
    BY <1>2, Zenon DEF ThrInv, Handled
  <1>6. \A j \in Threads : Handled(j)' <=> Handled(j)
    BY <1>1, Zenon DEF Handled
  <1>7. ThrTypeOK' /\ HandlesApart'
    BY <1>1, <1>3, Zenon DEF ThrInv, ThrTypeOK, HandlesApart
  <1>8. OnlyThread(k) /\ OnlyHandle(h)
    BY <1>1, <1>3, <1>6, Zenon DEF OnlyThread, OnlyHandle, ThrTypeOK
  <1>9. thrRun'[k] = "gone" /\ thrPc'[h] = "terminated"
    BY <1>1, <1>3, Zenon DEF ThrTypeOK
  <1>10. ThreadKeeps(k)'
    BY <1>1, <1>4, <1>5, <1>6, <1>9, Zenon DEF ThreadKeeps, Executing
  <1>11. OwnersCount(k)'
    BY <1>1, <1>4, Zenon DEF OwnersCount
  <1>12. CallKeeps(h)'
    BY <1>1, <1>2, <1>3, <1>4, <1>9, ThrAssumption, Zenon DEF CallKeeps, Detaching
  <1>13. thrHolds'[k] \subseteq thrHolds[k]
    BY <1>1, Zenon
  <1> QED
    BY <1>1, <1>2, <1>7, <1>8, <1>10, <1>11, <1>12, <1>13, CallHolds, Zenon

(* BM_TASK_DETACHED: the slot is left to the trampoline.                   *)
LEMMA DetachFlagsHolds ==
  ASSUME ThrInv, NEW h \in ThrHandles, DetachFlags(h)
  PROVE  ThrInv'
  <1>1. /\ ThrTypeOK /\ CallKeeps(h) /\ ThrDesignOK /\ Thr' = Thr
        /\ UNCHANGED <<thrOs, thrRun, thrHolds, thrSlot, thrOwners, thrPc>>
    BY ThrDesigns, Zenon DEF ThrInv, ThrTypeOK, Thr, DetachFlags
  <1>2. PICK k \in Threads : thrOf[h] = k
    BY <1>1, Zenon DEF DetachFlags, DetachCall, ThrTypeOK
  <1>3. /\ thrDetached' = [thrDetached EXCEPT ![k] = TRUE] /\ Thr.detach = "flag"
        /\ thrOf' = [thrOf EXCEPT ![h] = NoThread] /\ thrPc[h] = "idle"
    BY <1>2, Zenon DEF DetachFlags, DetachCall
  <1>4. /\ Handled(k) /\ ~Handled(k)'
        /\ \A j \in Threads \ {k} : Handled(j)' <=> Handled(j)
        /\ HandlesApart'
        /\ thrOf' \in [ThrHandles -> Threads \cup {NoThread}]
        /\ thrOf'[h] = NoThread
    BY <1>2, <1>3, Cleared, Zenon
  <1>5. ThreadKeeps(k) /\ Thr.ctx \notin {"owners", "after", "before"}
    BY <1>1, <1>3, Zenon DEF ThrInv, ThrDesignOK
  <1>6. ThrTypeOK' /\ thrDetached'[k] = TRUE
    BY <1>1, <1>3, <1>4, Zenon DEF ThrTypeOK
  <1>7. OnlyThread(k) /\ OnlyHandle(h)
    BY <1>1, <1>3, <1>4, Zenon DEF OnlyThread, OnlyHandle, ThrTypeOK
  <1>8. ThreadKeeps(k)'
    BY <1>1, <1>3, <1>4, <1>5, <1>6, Zenon DEF ThreadKeeps, Executing
  <1>9. OwnersCount(k)'
    BY <1>1, <1>5, Zenon DEF OwnersCount
  <1>10. CallKeeps(h)'
    BY <1>1, <1>3, <1>4, Zenon DEF CallKeeps, Detaching
  <1>11. thrHolds'[k] \subseteq thrHolds[k]
    BY <1>1, Zenon
  <1> QED
    BY <1>1, <1>2, <1>4, <1>6, <1>7, <1>8, <1>9, <1>10, <1>11, CallHolds, Zenon

(* The first step of a FreeRTOS detach: from here on the wrapper will not  *)
(* wait for a join, and its share is its own to drop.                      *)
LEMMA DetachOwnedHolds ==
  ASSUME ThrInv, NEW h \in ThrHandles, DetachOwned(h)
  PROVE  ThrInv'
  <1>1. /\ ThrTypeOK /\ CallKeeps(h) /\ ThrDesignOK /\ Thr' = Thr
        /\ UNCHANGED <<thrOs, thrRun, thrHolds, thrSlot, thrOwners, thrOf>>
    BY ThrDesigns, Zenon DEF ThrInv, ThrTypeOK, Thr, DetachOwned
  <1>2. PICK k \in Threads : thrOf[h] = k
    BY <1>1, Zenon DEF DetachOwned, DetachCall, ThrTypeOK
  <1>3. /\ thrDetached' = [thrDetached EXCEPT ![k] = TRUE]
        /\ thrPc' = [thrPc EXCEPT ![h] = IF thrRun[k] = "parked"
                                         THEN "detach_finished" ELSE "detach_running"]
        /\ Thr.ctx = "owners"
    BY <1>1, <1>2, Zenon DEF DetachOwned, ThrDesignOK
  <1>4. ThreadKeeps(k) /\ OwnersCount(k) /\ Handled(k)
    BY <1>2, Zenon DEF ThrInv, Handled
  <1>5. \A j \in Threads : Handled(j)' <=> Handled(j)
    BY <1>1, Zenon DEF Handled
  <1>6. ThrTypeOK' /\ HandlesApart'
    BY <1>1, <1>3, Zenon DEF ThrInv, ThrTypeOK, HandlesApart
  <1>7. /\ thrDetached'[k] = TRUE
        /\ thrPc'[h] = IF thrRun[k] = "parked" THEN "detach_finished" ELSE "detach_running"
    BY <1>1, <1>3, Zenon DEF ThrTypeOK
  <1>8. OnlyThread(k) /\ OnlyHandle(h)
    BY <1>1, <1>3, <1>5, Zenon DEF OnlyThread, OnlyHandle, ThrTypeOK
  <1>9. ThreadKeeps(k)'
    BY <1>1, <1>3, <1>4, <1>5, <1>7, Zenon DEF ThreadKeeps, Executing, ThrDesignOK
  <1>10. OwnersCount(k)'
    BY <1>1, <1>4, <1>5, <1>7, Zenon DEF OwnersCount, Executing
  <1>11. CallKeeps(h)'
    <2>1. k # NoThread /\ thrOf'[h] = k /\ thrRun' = thrRun
      BY <1>1, <1>2, ThrAssumption, Zenon
    <2>2. CASE thrRun[k] = "parked"
      <3>1. thrPc'[h] = "detach_finished"
        BY <1>7, <2>2, Zenon
      <3> QED
        BY <1>1, <1>3, <1>7, <2>1, <2>2, <3>1, Zenon DEF CallKeeps, Detaching
    <2>3. CASE thrRun[k] # "parked"
      <3>1. thrPc'[h] = "detach_running"
        BY <1>7, <2>3, Zenon
      <3> QED
        BY <1>1, <1>3, <1>7, <2>1, <2>3, <3>1, Zenon DEF CallKeeps, Detaching
    <2> QED
      BY <2>2, <2>3, Zenon
  <1>12. thrHolds'[k] \subseteq thrHolds[k]
    BY <1>1, Zenon
  <1> QED
    BY <1>1, <1>2, <1>6, <1>8, <1>9, <1>10, <1>11, <1>12, CallHolds, Zenon

(* osal_thread_create: a new identity, and a slot that no thread has.      *)
LEMMA CreateHolds ==
  ASSUME ThrInv, NEW h \in ThrHandles, thread_create(h)
  PROVE  ThrInv'
  <1>1. ThrTypeOK /\ ThrDesignOK /\ CallKeeps(h) /\ Thr' = Thr /\ UNCHANGED <<thrOs, thrDetached, thrPc>>
    BY ThrDesigns, Zenon DEF ThrInv, ThrTypeOK, Thr, thread_create
  <1>2. PICK k \in Unborn : k = CHOOSE t \in Unborn : TRUE
    BY Zenon DEF thread_create
  <1>3. k \in Threads /\ thrRun[k] = "unborn" /\ ThreadKeeps(k)
    BY <1>2, Zenon DEF Unborn, ThrInv
  <1>4. ~Handled(k) /\ ~thrDetached[k] /\ thrOf[h] = NoThread /\ thrPc[h] = "idle"
    BY <1>3, Zenon DEF ThreadKeeps, thread_create
  <1>5. /\ thrRun' = [thrRun EXCEPT ![k] = "starting"]
        /\ thrHolds' = [thrHolds EXCEPT ![k] = Thr.needs]
        /\ thrOwners' = [thrOwners EXCEPT ![k] = IF Thr.ctx = "owners" THEN 2 ELSE 0]
        /\ thrOf' = [thrOf EXCEPT ![h] = k]
    BY <1>2, Zenon DEF thread_create
  <1>6. PICK s \in ThrSlots :
           /\ thrSlot' = [thrSlot EXCEPT ![k] = s]
           /\ "slot" \in Thr.needs => s \in FreeThrSlots
    <2>1. CASE "slot" \in Thr.needs
      <3>1. PICK s \in FreeThrSlots : s = CHOOSE r \in FreeThrSlots : TRUE
        BY <2>1, Zenon DEF thread_create
      <3>2. thrSlot' = [thrSlot EXCEPT ![k] = s]
        BY <1>2, <2>1, <3>1, Zenon DEF thread_create
      <3> QED
        BY <3>1, <3>2, Zenon DEF FreeThrSlots
    <2>2. CASE "slot" \notin Thr.needs
      BY <1>1, <1>2, <1>3, <2>2, Zenon DEF thread_create, ThrTypeOK
    <2> QED
      BY <2>1, <2>2, Zenon
  <1>7. ThrTypeOK'
    <2>1. Thr.needs \in SUBSET {"slot", "ctx", "id"} /\ (IF Thr.ctx = "owners" THEN 2 ELSE 0) \in 0 .. 2
      BY <1>1 DEF ThrDesignOK
    <2>2. thrRun' \in [Threads -> {"unborn", "starting", "running", "suspended",
                                   "returned", "parked", "ended", "gone"}]
      BY <1>1, <1>3, <1>5, Zenon DEF ThrTypeOK
    <2>3. /\ thrHolds' \in [Threads -> SUBSET {"slot", "ctx", "id"}]
          /\ thrSlot' \in [Threads -> ThrSlots]
          /\ thrOwners' \in [Threads -> 0 .. 2]
          /\ thrOf' \in [ThrHandles -> Threads \cup {NoThread}]
      BY <1>1, <1>3, <1>5, <1>6, <2>1, Zenon DEF ThrTypeOK
    <2> QED
      BY <1>1, <2>2, <2>3, Zenon DEF ThrTypeOK
  <1>8. /\ thrRun'[k] = "starting" /\ thrHolds'[k] = Thr.needs
        /\ thrOwners'[k] = IF Thr.ctx = "owners" THEN 2 ELSE 0
        /\ thrOf'[h] = k
    BY <1>1, <1>3, <1>5, Zenon DEF ThrTypeOK
  <1>9. \A g \in ThrHandles \ {h} : thrOf'[g] = thrOf[g] /\ thrOf[g] # k
    BY <1>1, <1>4, <1>5, Zenon DEF ThrTypeOK, Handled
  <1>10. Handled(k)' /\ \A j \in Threads \ {k} : Handled(j)' <=> Handled(j)
    BY <1>4, <1>8, <1>9, ThrAssumption, Zenon DEF Handled
  <1>11. HandlesApart'
    BY <1>8, <1>9 DEF ThrInv, HandlesApart
  <1>12. OnlyThread(k) /\ OnlyHandle(h)
    BY <1>1, <1>3, <1>5, <1>6, <1>9, <1>10, Zenon DEF OnlyThread, OnlyHandle, ThrTypeOK
  <1>13. ThrSlotsApart'
    <2> SUFFICES ASSUME NEW i \in Threads, NEW j \in Threads, i # j,
                        "slot" \in thrHolds'[i], "slot" \in thrHolds'[j]
                 PROVE  thrSlot'[i] # thrSlot'[j]
      BY Zenon DEF ThrSlotsApart
    <2>1. \A l \in Threads \ {k} : thrHolds'[l] = thrHolds[l] /\ thrSlot'[l] = thrSlot[l]
      BY <1>12, Zenon DEF OnlyThread
    <2>2. thrSlot'[k] = s
      BY <1>1, <1>3, <1>6, Zenon DEF ThrTypeOK
    <2>3. "slot" \in Thr.needs => \A l \in Threads : ~(thrSlot[l] = s /\ "slot" \in thrHolds[l])
      BY <1>6, Zenon DEF FreeThrSlots
    <2>4. CASE i # k /\ j # k
      BY <2>1, <2>4, Zenon DEF ThrInv, ThrSlotsApart
    <2>5. CASE i = k \/ j = k
      BY <1>8, <2>1, <2>2, <2>3, <2>5, Zenon
    <2> QED
      BY <2>4, <2>5, Zenon
  <1>14. ThreadKeeps(k)'
    BY <1>1, <1>4, <1>8, <1>10, Zenon DEF ThreadKeeps, Executing, ThrDesignOK
  <1>15. OwnersCount(k)'
    BY <1>1, <1>8, <1>10, Zenon DEF OwnersCount
  <1>16. CallKeeps(h)'
    BY <1>1, <1>3, <1>4, <1>8, ThrAssumption, Zenon DEF CallKeeps, Detaching
  <1>17. \A j \in Threads : ThreadKeeps(j)' /\ OwnersCount(j)'
    BY <1>3, <1>12, <1>14, <1>15, OthersKeep, Zenon
  <1>18. \A g \in ThrHandles : CallKeeps(g)'
    BY <1>3, <1>4, <1>12, <1>16, CallsKeep, Zenon
  <1> QED
    BY <1>7, <1>11, <1>13, <1>17, <1>18, Zenon DEF ThrInv

-----------------------------------------------------------------------------
(* Every step keeps all of it.                                             *)
LEMMA ThrStepHolds ==
  ASSUME ThrInv, ThrNext
  PROVE  ThrInv'
  <1>1. ASSUME NEW h \in ThrHandles, ThrCall(h)
        PROVE  ThrInv'
    BY <1>1, CreateHolds, RefusedHolds, JoinDoneHolds, ReleasesHold, TerminateHolds,
       DetachFlagsHolds, DetachOwnedHolds, DetachOwnedDoneHolds, SwitchHolds, Zenon DEF ThrCall
  <1>2. ASSUME NEW k \in Threads, Start(k) \/ EntryReturns(k) \/ FinishOwned(k) \/ Finish(k)
        PROVE  ThrInv'
    BY <1>2, StartHolds, FinishOwnedHolds, FinishHolds, Zenon
  <1> QED
    BY <1>1, <1>2, Zenon DEF ThrNext

(* The two ways a join reports success: the wait saw the thread end, or    *)
(* the thread was terminated before its slot went back.                    *)
LEMMA JoinTells ==
  ASSUME ThrInv, ThrNext
  PROVE  JoinIsOver'
  <1> SUFFICES ASSUME thrRes'.call = "join", thrRes'.result = "ok", Thr'.join # "request"
               PROVE  thrRun'[thrRes'.thread] \in {"parked", "ended", "gone"}
    BY Zenon DEF JoinIsOver, Over
  <1>0. /\ thrRes' # NoCall
        /\ \A k, r : thrRes' # Returned("create", k, r) /\ thrRes' # Returned("detach", k, r)
        /\ \A k : \A r \in {"timeout", "unknown", "not_supported"} :
              thrRes' # Returned("join", k, r)
    BY DEF NoCall, Returned
  <1>1. PICK h \in ThrHandles : JoinDone(h) \/ TerminateDone(h) \/ JoinRequested(h)
    <2>1. ASSUME NEW k \in Threads
          PROVE  ~(Start(k) \/ EntryReturns(k) \/ FinishOwned(k) \/ Finish(k))
      BY <1>0, Zenon DEF Start, EntryReturns, FinishOwned, Finish
    <2>2. ASSUME NEW h \in ThrHandles
          PROVE  ~(thread_create(h) \/ CreateFails(h))
      <3>1. thread_create(h) => thrRes' = Returned("create", CHOOSE t \in Unborn : TRUE, "ok")
        BY SMT DEF thread_create
      <3>2. CreateFails(h) => thrRes' = Returned("create", NoThread, "out_of_resources")
        BY Zenon DEF CreateFails
      <3> QED
        BY <1>0, <3>1, <3>2, Zenon
    <2>3. ASSUME NEW h \in ThrHandles
          PROVE  ~(DetachRefused(h) \/ DetachReleases(h) \/ DetachFlags(h) \/ DetachOwned(h)
                   \/ DetachOwnedDone(h))
      BY <1>0, Zenon
         DEF DetachRefused, DetachReleases, DetachFlags, DetachOwned, DetachOwnedDone
    <2>4. ASSUME NEW h \in ThrHandles
          PROVE  ~(JoinTimesOut(h) \/ JoinFails(h))
      BY <1>0, Zenon DEF JoinTimesOut, JoinFails
    <2>5. ASSUME NEW h \in ThrHandles
          PROVE  ~(thread_join(h) \/ Terminate(h) \/ thread_suspend(h) \/ thread_resume(h))
      BY <1>0, Zenon
         DEF thread_join, Terminate, thread_suspend, thread_resume, Switch
    <2> QED
      BY <2>1, <2>2, <2>3, <2>4, <2>5, Zenon DEF ThrNext, ThrCall
  <1>2. thrRes'.thread = thrOf[h] /\ Thr' = Thr
    <2>1. \/ thrRes' = Returned("join", thrOf[h], "ok")
          \/ thrRes' = Returned("join", thrOf[h], "unknown")
      BY <1>1, Zenon DEF JoinDone, TerminateDone, JoinRequested
    <2>2. thrOs' = thrOs
      BY <1>1, Zenon DEF JoinDone, TerminateDone, JoinRequested
    <2> QED
      BY <2>1, <2>2 DEF Returned, Thr
  <1>3. ThrTypeOK /\ CallKeeps(h)
    BY Zenon DEF ThrInv
  <1>4. CASE JoinDone(h)
    BY <1>2, <1>3, <1>4 DEF JoinDone, Over, ThrTypeOK
  <1>5. CASE TerminateDone(h)
    BY <1>2, <1>3, <1>5, Zenon DEF TerminateDone, CallKeeps, Over
  <1>6. CASE JoinRequested(h)
    BY <1>2, <1>6, Zenon DEF JoinRequested
  <1> QED
    BY <1>1, <1>4, <1>5, <1>6, Zenon

(* What the invariant says of the memory.                                  *)
LEMMA ThrInvImplies ==
  ASSUME ThrInv, JoinIsOver
  PROVE  ThreadMemoryIsExact
  <1>1. ThrTypeOK /\ ThrDesignOK
    BY ThrDesigns, Zenon DEF ThrInv, ThrTypeOK
  <1>2. ASSUME NEW k \in Threads, Executing(k)
        PROVE  /\ Thr.block => "slot" \in thrHolds[k]
               /\ Thr.ctx = "after" \/ (Thr.ctx = "before" /\ thrRun[k] = "starting")
                     => "ctx" \in thrHolds[k]
    BY <1>2, Zenon DEF ThrInv, ThreadKeeps
  <1>3. ASSUME NEW h \in ThrHandles, thrOf[h] # NoThread
        PROVE  (Thr.needs \cap {"slot", "id"}) \subseteq thrHolds[thrOf[h]]
    BY <1>1, <1>3, Zenon DEF ThrInv, ThrTypeOK, ThreadKeeps, Handled
  <1>4. ASSUME NEW k \in Threads, Over(k), \A h \in ThrHandles : thrOf[h] # k, ~LeakedTask(k)
        PROVE  thrHolds[k] = {}
    <2>1. ThreadKeeps(k) /\ ~Handled(k) /\ ~Executing(k) /\ thrRun[k] # "starting"
      BY <1>4, Zenon DEF ThrInv, Handled, Over, Executing
    <2>2. thrHolds[k] \cap {"slot", "id"} = {}
      BY <1>4, <2>1, Zenon DEF ThreadKeeps, LeakedTask
    <2>3. "ctx" \notin thrHolds[k]
      BY <1>1, <2>1, Zenon DEF ThreadKeeps, ThrDesignOK
    <2> QED
      BY <1>1, <2>2, <2>3, Zenon DEF ThrTypeOK
  <1>5. ThrMemoryIsThere
    BY <1>1, <1>2, <1>3, Zenon DEF ThrMemoryIsThere, ThrInv, ThrSlotsApart
  <1>6. ThrNothingStays
    BY <1>4, Zenon DEF ThrNothingStays, JoinIsOver
  <1> QED
    BY <1>5, <1>6, Zenon DEF ThreadMemoryIsExact

(* On every backend, for any number of threads, handles and slots: a       *)
(* trampoline finds its control block or context, a join or detach what it *)
(* gives back, no slot serves two threads at once, and nothing is left     *)
(* behind when a thread and its handle are done.                           *)
THEOREM ThreadMemoryIsExactHolds == ThrSpec => []ThreadMemoryIsExact
  <1>1. (\E os \in ThreadBuilds : ThrInit(os)) => ThrInv /\ JoinIsOver
    BY ThrInitHolds, Zenon
  <1>2. ThrInv /\ JoinIsOver /\ [ThrNext]_thrVars => (ThrInv /\ JoinIsOver)'
    <2>1. CASE ThrNext
      BY <2>1, ThrStepHolds, JoinTells, Zenon
    <2>2. CASE UNCHANGED thrVars
      <3>1. ASSUME ThrInv, JoinIsOver
            PROVE  ThrInv' /\ JoinIsOver'
        <4>1. /\ UNCHANGED <<thrOs, thrRun, thrHolds, thrSlot, thrOwners, thrDetached, thrOf>>
              /\ UNCHANGED <<thrPc, thrRes>>
          BY <2>2, Zenon DEF thrVars
        <4>2. Thr' = Thr /\ ThrTypeOK' /\ HandlesApart' /\ ThrSlotsApart'
          BY <3>1, <4>1, Zenon DEF Thr, ThrInv, ThrTypeOK, HandlesApart, ThrSlotsApart
        <4>3. ASSUME NEW k \in Threads
              PROVE  ThreadKeeps(k)' /\ OwnersCount(k)'
          BY <3>1, <4>1, <4>2, Zenon DEF ThrInv, ThreadKeeps, OwnersCount, Handled, Executing
        <4>4. ASSUME NEW h \in ThrHandles
              PROVE  CallKeeps(h)'
          BY <3>1, <4>1, <4>2, Zenon DEF ThrInv, CallKeeps
        <4>5. JoinIsOver'
          BY <3>1, <4>1, <4>2, Zenon DEF JoinIsOver, Over
        <4> QED
          BY <4>2, <4>3, <4>4, <4>5, Zenon DEF ThrInv
      <3> QED
        BY <3>1, Zenon
    <2> QED
      BY <2>1, <2>2, Zenon
  <1>3. ThrInv /\ JoinIsOver => ThreadMemoryIsExact
    BY ThrInvImplies, Zenon
  <1> QED
    BY <1>1, <1>2, <1>3, PTL DEF ThrSpec

-----------------------------------------------------------------------------
(*                               The mutex                                 *)

(* MtxToldTheTruth is not inductive by itself: a nested lock stays within  *)
(* the bound because it was checked when the call began, a free mutex has  *)
(* depth zero, and on Micrium a task is told of the outermost lock only.   *)
MtxIInv ==
  /\ MtxToldTheTruth
  /\ mtxOwner = NoTask <=> mtxDepth = 0
  /\ \A t \in MtxTasks : mtxPc[t] = "lock" /\ mtxOwner = t => mtxDepth < MaxDepth
  /\ mtxRelock = "unreported" => \A t \in MtxTasks : mtxHeld[t] <= 1

(* The results of a lock that the caller does not take to mean that it     *)
(* holds the mutex.                                                        *)
Refusals == {"timeout", "would_block", "unknown", "none"}

(* No backend reports a lock it did not obtain as ok or owner_died.        *)
LEMMA RefusalsAreRefusals ==
  ASSUME NEW os \in DOMAIN MutexOf
  PROVE  {MutexOf[os].busy, MutexOf[os].late, MutexOf[os].aborted} \subseteq Refusals
  BY DEF MutexOf, Mutex, Refusals, freertos_mutex, zephyr_mutex, posix_mutex,
         linux_mutex, nuttx_mutex, chibios_mutex, embos_mutex, cmsis_rtos2_mutex,
         bare_metal_mutex, micrium_mutex, px5_mutex, cmsis_rtos_mutex, qnx_mutex,
         threadx_mutex, vxworks_mutex

(* A lock that fails changes neither the mutex nor what its caller holds.  *)
LEMMA FailedLock ==
  ASSUME MtxIInv, NEW t \in MtxTasks, NEW r, r \notin {"ok", "owner_died"},
         LockReturn(t, r), UNCHANGED mtxLock
  PROVE  MtxIInv'
  <1>1. mtxHeld' = mtxHeld
    BY Zenon DEF MtxIInv, MtxToldTheTruth, MtxTypeOK, LockReturn
  <1>2. MtxTypeOK'
    BY <1>1, Zenon DEF MtxIInv, MtxToldTheTruth, MtxTypeOK, LockReturn, mtxConfig, mtxLock, MtxModes, Mtx
  <1>3. \A u \in MtxTasks : mtxPc'[u] = "lock" => mtxPc[u] = "lock"
    BY Zenon DEF MtxIInv, MtxToldTheTruth, MtxTypeOK, LockReturn
  <1>4. mtxRelock' = mtxRelock /\ UNCHANGED <<mtxOwner, mtxDepth>>
    BY Zenon DEF LockReturn, mtxConfig, mtxLock
  <1> QED
    BY <1>1, <1>2, <1>3, <1>4, Zenon DEF MtxIInv, MtxToldTheTruth, DepthOf

(* A new mutex has no owner and nobody inside a call.                      *)
LEMMA MtxInitHolds ==
  ASSUME NEW os \in DOMAIN MutexOf, MtxInit(os)
  PROVE  MtxIInv
  <1>1. mtxRobust \in BOOLEAN
    BY Zenon DEF MtxInit, RobustOn
  <1>2. mtxRelock \in Mtx.recursive \cup Mtx.normal
    BY Zenon DEF MtxInit, Mtx
  <1> QED
    BY <1>1, <1>2, MtxAssumption DEF MtxInit, MtxIInv, MtxToldTheTruth, MtxTypeOK, MtxModes, DepthOf

(* Every step of a task keeps the invariant.                               *)
LEMMA MtxStepHolds ==
  ASSUME MtxIInv, [MtxNext]_mtxVars
  PROVE  MtxIInv'
  <1> USE MtxAssumption
  <1>0. CASE UNCHANGED mtxVars
    BY <1>0, Zenon DEF MtxIInv, MtxToldTheTruth, MtxTypeOK, mtxVars, Mtx, DepthOf
  <1>1. ASSUME NEW t \in MtxTasks, checked_lock(t)  PROVE MtxIInv'
    <2>1. CASE LockReturn(t, "not_supported")
      BY <1>1, <2>1, FailedLock, Zenon DEF checked_lock
    <2>2. CASE ~LockReturn(t, "not_supported")
      <3>1. PICK m \in MtxModes : /\ mtxMode' = [mtxMode EXCEPT ![t] = m]
                                  /\ mtxPc' = [mtxPc EXCEPT ![t] = "lock"]
                                  /\ UNCHANGED <<mtxConfig, mtxHeld>>
        BY <1>1, <2>2, Zenon DEF checked_lock
      <3>2. MtxTypeOK'
        BY <1>1, <3>1, Zenon DEF checked_lock, MtxIInv, MtxToldTheTruth, MtxTypeOK, mtxConfig, mtxLock, Mtx
      <3>3. UNCHANGED <<mtxRelock, mtxOwner, mtxDepth, mtxHeld>>
        BY <1>1, <3>1, Zenon DEF checked_lock, mtxConfig, mtxLock
      <3> QED
        BY <1>1, <3>1, <3>2, <3>3, Zenon DEF checked_lock, MtxIInv, MtxToldTheTruth, MtxTypeOK, DepthOf
    <2> QED
      BY <2>1, <2>2, Zenon
  <1>2. ASSUME NEW t \in MtxTasks, LockGranted(t) \/ LockOwnerDied(t)  PROVE MtxIInv'
    <2>1. /\ mtxOwner = NoTask /\ mtxOwner' = t /\ mtxDepth' = 1
          /\ mtxHealth' \in {"sound", "inconsistent"}
          /\ mtxHeld' = [mtxHeld EXCEPT ![t] = @ + 1]
          /\ mtxPc' = [mtxPc EXCEPT ![t] = "idle"]
          /\ mtxMode' = [mtxMode EXCEPT ![t] = "no_wait"]
          /\ UNCHANGED mtxConfig
      BY <1>2, Zenon DEF LockGranted, LockOwnerDied, LockReturn
    <2>2. MtxTypeOK'
      BY <2>1 DEF MtxIInv, MtxToldTheTruth, MtxTypeOK, mtxConfig, MtxModes, Mtx
    <2> QED
      BY <2>1, <2>2 DEF MtxIInv, MtxToldTheTruth, MtxTypeOK, mtxConfig, DepthOf
  <1>3. ASSUME NEW t \in MtxTasks, LockNested(t)  PROVE MtxIInv'
    <2>1. /\ mtxOwner = t /\ mtxDepth < MaxDepth /\ mtxDepth' = mtxDepth + 1
          /\ mtxHeld' = IF mtxRelock = "counts" THEN [mtxHeld EXCEPT ![t] = @ + 1] ELSE mtxHeld
          /\ mtxRelock \in Nests
          /\ mtxPc' = [mtxPc EXCEPT ![t] = "idle"]
          /\ mtxMode' = [mtxMode EXCEPT ![t] = "no_wait"]
          /\ UNCHANGED <<mtxConfig, mtxOwner, mtxHealth>>
      BY <1>3, Zenon DEF LockNested, LockReturn, MtxIInv, MtxToldTheTruth, MtxTypeOK
    <2>2. MtxTypeOK'
      BY <2>1 DEF MtxIInv, MtxToldTheTruth, MtxTypeOK, mtxConfig, MtxModes, Mtx
    <2> QED
      BY <2>1, <2>2 DEF MtxIInv, MtxToldTheTruth, MtxTypeOK, mtxConfig, DepthOf, Nests
  <1>4. ASSUME NEW t \in MtxTasks, LockUnheeded(t)  PROVE MtxIInv'
    <2>1. /\ mtxRelock = "unheeded"
          /\ mtxHeld' = [mtxHeld EXCEPT ![t] = @ + 1]
          /\ mtxPc' = [mtxPc EXCEPT ![t] = "idle"]
          /\ mtxMode' = [mtxMode EXCEPT ![t] = "no_wait"]
          /\ UNCHANGED <<mtxConfig, mtxLock>>
      BY <1>4, Zenon DEF LockUnheeded, LockReturn
    <2>2. MtxTypeOK'
      BY <2>1 DEF MtxIInv, MtxToldTheTruth, MtxTypeOK, mtxConfig, mtxLock, MtxModes, Mtx
    <2> QED
      BY <2>1, <2>2 DEF MtxIInv, MtxToldTheTruth, MtxTypeOK, mtxConfig, mtxLock, DepthOf
  <1>5. ASSUME NEW t \in MtxTasks, LockDeadlock(t) \/ LockNotRecoverable(t)  PROVE MtxIInv'
    BY <1>5, FailedLock, Zenon DEF LockDeadlock, LockNotRecoverable
  <1>6. ASSUME NEW t \in MtxTasks, LockBusy(t) \/ LockAborted(t)  PROVE MtxIInv'
    <2>1. {Mtx.busy, Mtx.late, Mtx.aborted} \subseteq Refusals
      BY RefusalsAreRefusals, Zenon DEF Mtx, MtxIInv, MtxToldTheTruth, MtxTypeOK
    <2>2. CASE LockBusy(t)
      BY <2>1, <2>2, FailedLock, Zenon DEF LockBusy, Refusals
    <2>3. CASE LockAborted(t)
      BY <2>1, <2>3, FailedLock, Zenon DEF LockAborted, Refusals
    <2> QED
      BY <1>6, <2>2, <2>3, Zenon
  <1>7. ASSUME NEW t \in MtxTasks, checked_unlock(t)  PROVE MtxIInv'
    <2>1. /\ mtxOwner = t /\ mtxDepth' = mtxDepth - 1
          /\ mtxHeld' = IF mtxDepth > 1 /\ mtxRelock = "unreported" THEN mtxHeld
                        ELSE [mtxHeld EXCEPT ![t] = IF @ > 0 THEN @ - 1 ELSE @]
          /\ mtxOwner' = IF mtxDepth = 1 THEN NoTask ELSE t
          /\ mtxHealth' \in {mtxHealth, "lost"}
          /\ mtxPc[t] = "idle"
          /\ UNCHANGED <<mtxConfig, mtxPc, mtxMode>>
      BY <1>7 DEF checked_unlock, UnlockReturn, MtxIInv, MtxToldTheTruth, MtxTypeOK
    <2>2. mtxDepth \in 1 .. MaxDepth
      BY <2>1 DEF MtxIInv, MtxToldTheTruth, MtxTypeOK
    <2>3. MtxTypeOK'
      BY <2>1, <2>2 DEF MtxIInv, MtxToldTheTruth, MtxTypeOK, mtxConfig, Mtx
    <2>4. MtxToldTheTruth'
      BY <2>1, <2>2, <2>3 DEF MtxIInv, MtxToldTheTruth, MtxTypeOK, mtxConfig, DepthOf
    <2> QED
      BY <2>1, <2>2, <2>4 DEF MtxIInv, MtxToldTheTruth, MtxTypeOK, mtxConfig
  <1>8. ASSUME NEW t \in MtxTasks, UnlockStranger(t)  PROVE MtxIInv'
    <2>1. /\ mtxOwner # t
          /\ mtxHeld' \in {[mtxHeld EXCEPT ![t] = IF @ > 0 THEN @ - 1 ELSE @], mtxHeld}
          /\ UNCHANGED <<mtxConfig, mtxLock, mtxPc, mtxMode>>
      BY <1>8 DEF UnlockStranger, UnlockReturn, MtxIInv, MtxToldTheTruth, MtxTypeOK
    <2>2. MtxTypeOK'
      BY <2>1 DEF MtxIInv, MtxToldTheTruth, MtxTypeOK, mtxConfig, mtxLock, Mtx
    <2> QED
      BY <2>1, <2>2 DEF MtxIInv, MtxToldTheTruth, MtxTypeOK, mtxConfig, mtxLock, DepthOf
  <1>9. ASSUME NEW t \in MtxTasks, consistent(t)  PROVE MtxIInv'
    BY <1>9, Zenon DEF consistent, MtxIInv, MtxToldTheTruth, MtxTypeOK, mtxConfig, Mtx, DepthOf
  <1>10. ASSUME NEW t \in MtxTasks, OwnerDies(t)  PROVE MtxIInv'
    <2>1. MtxTypeOK'
      BY <1>10 DEF OwnerDies, MtxIInv, MtxToldTheTruth, MtxTypeOK, mtxConfig, Mtx
    <2> QED
      BY <1>10, <2>1 DEF OwnerDies, MtxIInv, MtxToldTheTruth, MtxTypeOK, mtxConfig, DepthOf
  <1> QED
    BY <1>0, <1>1, <1>2, <1>3, <1>4, <1>5, <1>6, <1>7, <1>8, <1>9, <1>10, Zenon DEF MtxNext, MtxGrant

(* For every number of tasks and every nesting bound: a task was told of   *)
(* the locks that the kernel counts for it and of no other, but for the    *)
(* two answers that the property names: the ok that QNX may give to the    *)
(* owner of a normal mutex, and the unknown of Micrium's nested lock.      *)
THEOREM MtxToldTheTruthHolds == MtxSpec => []MtxToldTheTruth
  <1>1. (\E os \in DOMAIN MutexOf : MtxInit(os)) => MtxIInv
    BY MtxInitHolds, Zenon
  <1>2. MtxIInv /\ [MtxNext]_mtxVars => MtxIInv'
    BY MtxStepHolds, Zenon
  <1>3. MtxIInv => MtxToldTheTruth
    BY Zenon DEF MtxIInv
  <1> QED
    BY <1>1, <1>2, <1>3, PTL DEF MtxSpec

(* Mutual exclusion as the caller sees it: two tasks that both were told   *)
(* they hold the mutex are one task.                                       *)
MtxExclusion ==
  mtxRelock # "unheeded" => \A t, u \in MtxTasks : mtxHeld[t] > 0 /\ mtxHeld[u] > 0 => t = u

(* osal::mutex excludes: on every backend, but for a normal mutex on QNX   *)
(* whose owner locked it again and was answered ok.                        *)
THEOREM MtxExclusionHolds == MtxSpec => []MtxExclusion
  <1>1. MtxToldTheTruth => MtxExclusion
    BY DEF MtxToldTheTruth, MtxTypeOK, MtxExclusion, DepthOf
  <1> QED
    BY <1>1, MtxToldTheTruthHolds, PTL

-----------------------------------------------------------------------------
(*                            The event flags                              *)

(* What keeps NoSetSwallowed: a bit that a task is about to clear has been *)
(* in its answer since it was set, and only the backends of the exception  *)
(* clear in a step of its own.                                             *)
EvtIInv ==
  /\ NoSetSwallowed
  /\ \A t \in EvtTasks : evtPc[t] = "clear" =>
        /\ evtGot[t] \cap evtUnseen = {}
        /\ evtOs \in {"zephyr", "embos", "micrium"}

(* The other backends clear before the wait returns.                       *)
LEMMA ClearsInTheWait ==
  ASSUME NEW os \in DOMAIN FlagsOf, os \notin {"zephyr", "embos", "micrium"}
  PROVE  FlagsOf[os].clear \notin {"after", "resumed"}
  BY DEF FlagsOf, Flags, freertos_event_flags, zephyr_event_flags, chibios_event_flags,
         embos_event_flags, cmsis_rtos2_event_flags, micrium_event_flags, px5_event_flags,
         threadx_event_flags

(* Returning waits, however many, keep the invariant: what they clear is   *)
(* among what they are told of.                                            *)
LEMMA DeliverHolds ==
  ASSUME EvtIInv, NEW R, R \subseteq {t \in EvtTasks : evtPc[t] # "clear"},
         NEW flags, flags \subseteq EvtBits, NEW unseen, unseen \subseteq flags,
         \A t \in EvtTasks : evtPc[t] = "clear" => evtGot[t] \cap unseen = {},
         NEW now \in BOOLEAN, now \/ evtOs \in {"zephyr", "embos", "micrium"},
         Deliver(R, flags, unseen, now),
         UNCHANGED evtOs, evtPended' \subseteq EvtBits
  PROVE  EvtIInv'
  <1> DEFINE later == IF now THEN {} ELSE Clearing(R)
  <1>1. later \subseteq R /\ later \subseteq EvtTasks /\ R \subseteq EvtTasks
    BY Zenon DEF Clearing
  <1>2. /\ evtFlags' = IF now THEN flags \ Told(Clearing(R), flags) ELSE flags
        /\ evtUnseen' = unseen \ Told(R, flags)
        /\ evtPc' = [t \in EvtTasks |-> IF t \in later THEN "clear" ELSE IF t \in R THEN "idle" ELSE evtPc[t]]
        /\ evtGot' = [t \in EvtTasks |-> IF t \in later THEN evtReq[t].bits \cap flags ELSE evtGot[t]]
        /\ evtReq' = [t \in EvtTasks |-> IF t \in R \ later THEN NoRequest ELSE evtReq[t]]
    BY Zenon DEF Deliver
  <1> HIDE DEF later
  <1>3. Told(Clearing(R), flags) \subseteq Told(R, flags)
    BY Zenon DEF Told, Clearing
  <1>4. evtUnseen' \subseteq evtFlags' /\ evtFlags' \subseteq EvtBits
    BY <1>2, <1>3, Zenon
  <1>5. EvtTypeOK'
    <2>1. evtPc' \in [EvtTasks -> {"idle", "look", "wait", "sleep", "clear"}]
      BY <1>2, Zenon DEF EvtIInv, NoSetSwallowed, EvtTypeOK
    <2>2. evtGot' \in [EvtTasks -> SUBSET EvtBits]
      BY <1>2, Zenon DEF EvtIInv, NoSetSwallowed, EvtTypeOK
    <2>3. evtReq' \in [EvtTasks -> EvtRequests \cup {NoRequest}]
      BY <1>2, Zenon DEF EvtIInv, NoSetSwallowed, EvtTypeOK
    <2> QED
      BY <1>4, <2>1, <2>2, <2>3, Zenon DEF EvtIInv, NoSetSwallowed, EvtTypeOK
  <1>6. ASSUME NEW t \in EvtTasks, evtPc'[t] = "clear"
        PROVE  evtGot'[t] \cap evtUnseen' = {} /\ evtOs' \in {"zephyr", "embos", "micrium"}
    <2>1. CASE t \in later
      <3>1. evtGot'[t] \subseteq Told(R, flags)
        BY <1>1, <1>2, <2>1, Zenon DEF Told
      <3>2. ~now
        BY <2>1, Zenon DEF later
      <3> QED
        BY <1>2, <3>1, <3>2, Zenon
    <2>2. CASE t \notin later
      <3>1. evtPc[t] = "clear" /\ evtGot'[t] = evtGot[t]
        BY <1>2, <1>6, <2>2, Zenon
      <3> QED
        BY <1>2, <3>1, Zenon DEF EvtIInv
    <2> QED
      BY <2>1, <2>2, Zenon
  <1> QED
    BY <1>4, <1>5, <1>6, Zenon DEF EvtIInv, NoSetSwallowed

(* A set, of a task or of the daemon, whoever it releases.                 *)
LEMMA SetKeeps ==
  ASSUME EvtIInv, NEW bits, bits \subseteq EvtBits, Set(bits), UNCHANGED evtOs, evtPended' \subseteq EvtBits
  PROVE  EvtIInv'
  <1> DEFINE flags == evtFlags \cup bits
             unseen == evtUnseen \cup (bits \ Doomed)
             now == Evt.clear \notin {"after", "resumed"}
  <1>1. PICK R \in SUBSET {t \in EvtTasks : evtPc[t] = "wait" /\ Satisfied(evtReq[t], flags)} :
             Deliver(R, flags, unseen, now)
    BY Zenon DEF Set
  <1>2. R \subseteq {t \in EvtTasks : evtPc[t] # "clear"}
    BY <1>1, Zenon
  <1>3. flags \subseteq EvtBits /\ unseen \subseteq flags
    BY Zenon DEF EvtIInv, NoSetSwallowed, EvtTypeOK
  <1>4. \A t \in EvtTasks : evtPc[t] = "clear" => evtGot[t] \cap unseen = {}
    BY Zenon DEF EvtIInv, Doomed
  <1>5. now \in BOOLEAN /\ (now \/ evtOs \in {"zephyr", "embos", "micrium"})
    BY ClearsInTheWait, Zenon DEF Evt, EvtIInv, NoSetSwallowed, EvtTypeOK
  <1> HIDE DEF flags, unseen, now
  <1> QED
    BY <1>1, <1>2, <1>3, <1>4, <1>5, DeliverHolds, Zenon

(* A wait that finds its flags.                                            *)
LEMMA LookKeeps ==
  ASSUME EvtIInv, NEW t \in EvtTasks, LookMatches(t)
  PROVE  EvtIInv'
  <1>1. PICK now \in BOOLEAN : now = (Evt.clear # "after")
    BY Zenon
  <1>2. now \/ evtOs \in {"zephyr", "embos", "micrium"}
    BY <1>1, ClearsInTheWait, Zenon DEF Evt, EvtIInv, NoSetSwallowed, EvtTypeOK
  <1>3. {t} \subseteq {u \in EvtTasks : evtPc[u] # "clear"}
    BY Zenon DEF LookMatches
  <1>4. Deliver({t}, evtFlags, evtUnseen, now)
    BY <1>1, Zenon DEF LookMatches
  <1>5. UNCHANGED evtOs /\ evtPended' \subseteq EvtBits
    BY Zenon DEF LookMatches, EvtIInv, NoSetSwallowed, EvtTypeOK
  <1>6. /\ evtFlags \subseteq EvtBits /\ evtUnseen \subseteq evtFlags
        /\ \A u \in EvtTasks : evtPc[u] = "clear" => evtGot[u] \cap evtUnseen = {}
    BY Zenon DEF EvtIInv, NoSetSwallowed, EvtTypeOK
  <1> QED
    BY <1>2, <1>3, <1>4, <1>5, <1>6, DeliverHolds, Zenon

(* Every step keeps the invariant.                                         *)
LEMMA EvtStepHolds ==
  ASSUME EvtIInv, [EvtNext]_evtVars
  PROVE  EvtIInv'
  <1> USE DEF EvtIInv, NoSetSwallowed, EvtTypeOK
  <1>0. CASE UNCHANGED evtVars
    BY <1>0, Zenon DEF evtVars
  <1>1. CASE DaemonSets
    <2>1. evtPended \subseteq EvtBits /\ evtPended' \subseteq EvtBits
      BY <1>1, Zenon DEF DaemonSets
    <2> QED
      BY <1>1, <2>1, SetKeeps, Zenon DEF DaemonSets
  <1>2. ASSUME NEW bits \in SUBSET EvtBits \ {{}}, osal_event_flags_set(bits)  PROVE EvtIInv'
    <2>1. evtPended' \subseteq EvtBits /\ bits \subseteq EvtBits
      BY <1>2, Zenon DEF osal_event_flags_set
    <2> QED
      BY <1>2, <2>1, SetKeeps, Zenon DEF osal_event_flags_set
  <1>3. ASSUME NEW bits \in SUBSET EvtBits \ {{}}, SetPended(bits)  PROVE EvtIInv'
    BY <1>3, Zenon DEF SetPended
  <1>4. ASSUME NEW bits \in SUBSET EvtBits \ {{}}, osal_event_flags_clear(bits)  PROVE EvtIInv'
    BY <1>4, Zenon DEF osal_event_flags_clear
  <1>5. ASSUME NEW t \in EvtTasks, LookMatches(t)  PROVE EvtIInv'
    BY <1>5, LookKeeps, Zenon
  <1>6. ASSUME NEW t \in EvtTasks, ClearAfter(t)  PROVE EvtIInv'
    BY <1>6, Zenon DEF ClearAfter, EvtGoto
  <1>7. ASSUME NEW t \in EvtTasks, LookFails(t) \/ PollAgain(t) \/ WaitTimesOut(t)  PROVE EvtIInv'
    BY <1>7, Zenon DEF LookFails, PollAgain, WaitTimesOut, EvtGoto
  <1>8. ASSUME NEW t \in EvtTasks, NEW r \in EvtRequests, WaitCall(t, r)  PROVE EvtIInv'
    BY <1>8, Zenon DEF WaitCall, EvtGoto
  <1> QED
    BY <1>0, <1>1, <1>2, <1>3, <1>4, <1>5, <1>6, <1>7, <1>8, Zenon DEF EvtNext, EvtStep

(* For every number of tasks and flags and any requests: what a            *)
(* clear_on_exit takes away has been reported since it was set, but for a  *)
(* flag set again in the time that Zephyr, embOS and Micrium leave between *)
(* the answer and the clear.                                               *)
THEOREM NoSetSwallowedHolds == EvtSpec => []NoSetSwallowed
  <1>1. (\E os \in DOMAIN FlagsOf : EvtInit(os)) => EvtIInv
    BY Zenon DEF EvtInit, EvtIInv, NoSetSwallowed, EvtTypeOK
  <1>2. EvtIInv /\ [EvtNext]_evtVars => EvtIInv'
    BY EvtStepHolds, Zenon
  <1>3. EvtIInv => NoSetSwallowed
    BY Zenon DEF EvtIInv
  <1> QED
    BY <1>1, <1>2, <1>3, PTL DEF EvtSpec

-----------------------------------------------------------------------------
(*                             The semaphore                               *)

(* A task here has changed one of the two counts and not yet the other.    *)
Between == {"post", "undo", "settle"}

(* What keeps SemBounded: only where there is a shadow count is a task     *)
(* between the two; a bare-metal take swaps only a count it saw above zero *)
(* and only where there is none; and reserve() has attempts left.          *)
SemIInv ==
  /\ SemBounded
  /\ \A t \in SemTasks :
        /\ semTries[t] < Attempts
        /\ semPc[t] \in Between => Shadowed
        /\ semPc[t] = "swap" => ~Shadowed /\ semSeen[t] > 0

(* 1 if a task at this place is between the two counts, and 0 if not.      *)
Weight(pc) == IF pc \in Between THEN 1 ELSE 0

(* One task moves: the number of tasks between the two counts loses what   *)
(* the task was and gains what it is.                                      *)
LEMMA InsideAfter ==
  ASSUME SemTypeOK, NEW t \in SemTasks, NEW there,
         semPc' = [semPc EXCEPT ![t] = there]
  PROVE  /\ Cardinality(Inside(Between)) \in Nat
         /\ Cardinality(Inside(Between)') \in Nat
         /\ Cardinality(Inside(Between)') =
              Cardinality(Inside(Between)) - Weight(semPc[t]) + Weight(there)
  <1> DEFINE Others == {u \in SemTasks : u # t /\ semPc[u] \in Between}
  <1>1. IsFiniteSet(Others) /\ Cardinality(Others) \in Nat
    <2>1. Others \subseteq SemTasks
      BY Zenon
    <2> QED
      BY <2>1, SemAssumption, FS_Subset, FS_CardinalityType, Zenon
  <1>2. t \notin Others
    BY Zenon
  <1>3. Cardinality(Others \cup {t}) = Cardinality(Others) + 1
    BY <1>1, <1>2, FS_AddElement, Zenon
  <1>4. Inside(Between) = IF semPc[t] \in Between THEN Others \cup {t} ELSE Others
    BY Zenon DEF Inside
  <1>5. Inside(Between)' = IF there \in Between THEN Others \cup {t} ELSE Others
    BY Zenon DEF Inside, SemTypeOK
  <1> HIDE DEF Others
  <1> QED
    BY <1>1, <1>3, <1>4, <1>5 DEF Weight

(* The counts after a step that moves one task: what SemBounded asks of    *)
(* them, given the number of tasks between them before the step.           *)
CountsAfter(t, there) ==
  /\ semOs' = semOs
  /\ semValue' \in 0 .. Maximum
  /\ semCount' \in Int
  /\ Shadowed =>
        /\ semCount' <= Maximum
        /\ semCount' = semValue' + Cardinality(Inside(Between)) - Weight(semPc[t]) + Weight(there)

(* Its local variables: of the right kind, with an attempt left, and those *)
(* of the other tasks as they were.                                        *)
LocalsAfter(t) ==
  /\ semSeen' \in [SemTasks -> Int]
  /\ semTries' \in [SemTasks -> 0 .. Attempts - 1]
  /\ semMode' \in [SemTasks -> Modes]
  /\ \A u \in SemTasks \ {t} : semSeen'[u] = semSeen[u]

(* A call that returns keeps the invariant.                                *)
LEMMA Returns ==
  ASSUME SemIInv, NEW t \in SemTasks, NEW r, SemReturn(t, r), CountsAfter(t, "idle")
  PROVE  SemIInv'
  <1>1. SemTypeOK'
    BY SemAssumption DEF SemIInv, SemBounded, SemTypeOK, SemReturn, CountsAfter, Modes
  <1>2. Shadowed' = Shadowed
    BY Zenon DEF Shadowed, Sem, CountsAfter
  <1>3. Shadowed => semCount' = semValue' + Cardinality(Inside(Between)')
    <2>1. SemTypeOK /\ semPc' = [semPc EXCEPT ![t] = "idle"]
      BY Zenon DEF SemIInv, SemBounded, SemReturn
    <2>2. /\ Cardinality(Inside(Between)) \in Nat
          /\ Cardinality(Inside(Between)') =
               Cardinality(Inside(Between)) - Weight(semPc[t]) + Weight("idle")
      BY <2>1, InsideAfter, Zenon
    <2> QED
      BY <2>2 DEF CountsAfter, Weight
  <1>4. SemBounded'
    BY <1>1, <1>2, <1>3, Zenon DEF SemBounded, CountsAfter, Between
  <1>5. \A u \in SemTasks : /\ semTries'[u] < Attempts
                            /\ semPc'[u] \in Between => Shadowed
                            /\ semPc'[u] = "swap" => ~Shadowed /\ semSeen'[u] > 0
    BY SemAssumption DEF SemIInv, SemBounded, SemTypeOK, SemReturn, Between
  <1> QED
    BY <1>2, <1>4, <1>5, Zenon DEF SemIInv

(* So does a step within a call, if it goes to a place its design has.     *)
LEMMA Goes ==
  ASSUME SemIInv, NEW t \in SemTasks,
         NEW there \in {"reserve", "post", "undo", "wait", "settle", "swap"},
         Goto(t, there), CountsAfter(t, there), LocalsAfter(t),
         there \in Between => Shadowed,
         there = "swap" => ~Shadowed /\ semSeen'[t] > 0
  PROVE  SemIInv'
  <1>a. semTries' \in [SemTasks -> 0 .. Attempts] /\ \A u \in SemTasks : semTries'[u] < Attempts
    BY SemAssumption DEF LocalsAfter
  <1>b. /\ semPc' \in [SemTasks -> {"idle", "reserve", "post", "undo", "wait", "settle", "swap"}]
        /\ semPc'[t] = there
        /\ \A u \in SemTasks \ {t} : semPc'[u] = semPc[u]
    BY Zenon DEF SemIInv, SemBounded, SemTypeOK, Goto
  <1>1. SemTypeOK'
    BY <1>a, <1>b, SemAssumption DEF SemIInv, SemBounded, SemTypeOK, CountsAfter, LocalsAfter
  <1>2. Shadowed' = Shadowed
    BY Zenon DEF Shadowed, Sem, CountsAfter
  <1>3. Shadowed => semCount' = semValue' + Cardinality(Inside(Between)')
    <2>1. SemTypeOK /\ semPc' = [semPc EXCEPT ![t] = there]
      BY Zenon DEF SemIInv, SemBounded, Goto
    <2>2. /\ Cardinality(Inside(Between)) \in Nat
          /\ Cardinality(Inside(Between)') =
               Cardinality(Inside(Between)) - Weight(semPc[t]) + Weight(there)
      BY <2>1, InsideAfter, Zenon
    <2> QED
      BY <2>2 DEF CountsAfter, Weight
  <1>4. SemBounded'
    BY <1>1, <1>2, <1>3, Zenon DEF SemBounded, CountsAfter, Between
  <1>5. \A u \in SemTasks : /\ semTries'[u] < Attempts
                            /\ semPc'[u] \in Between => Shadowed
                            /\ semPc'[u] = "swap" => ~Shadowed /\ semSeen'[u] > 0
    <2>1. ASSUME NEW u \in SemTasks, u # t
          PROVE  /\ semPc'[u] \in Between => Shadowed
                 /\ semPc'[u] = "swap" => ~Shadowed /\ semSeen'[u] > 0
      BY <1>b, <2>1, Zenon DEF SemIInv, LocalsAfter
    <2> QED
      BY <1>a, <1>b, <2>1, Zenon
  <1> QED
    BY <1>2, <1>4, <1>5, Zenon DEF SemIInv

(* osal_semaphore_create starts within the bound.                          *)
LEMMA SemInitHolds ==
  ASSUME NEW os \in DOMAIN Semaphore, SemInit(os)
  PROVE  SemIInv
  <1>1. SemTypeOK
    BY SemAssumption DEF SemInit, SemTypeOK, Modes
  <1>2. Inside(Between) = {}
    BY Zenon DEF SemInit, Inside, Between
  <1>3. Cardinality(Inside(Between)) = 0
    BY <1>2, FS_EmptySet, Zenon
  <1> QED
    BY <1>1, <1>3, SemAssumption DEF SemInit, SemIInv, SemBounded, Between

(* The facts about the counts that every step starts from.                 *)
LEMMA CountsBefore ==
  ASSUME SemIInv
  PROVE  /\ semValue \in 0 .. Maximum /\ semCount \in Int /\ Maximum \in Nat
         /\ Cardinality(Inside(Between)) \in Nat
         /\ Shadowed => semCount = semValue + Cardinality(Inside(Between)) /\ semCount <= Maximum
         /\ \A t \in SemTasks : semPc[t] \in Between => Cardinality(Inside(Between)) > 0
         /\ semSeen \in [SemTasks -> Int]
         /\ semTries \in [SemTasks -> 0 .. Attempts - 1]
         /\ semMode \in [SemTasks -> Modes]
  <1>1. IsFiniteSet(Inside(Between))
    <2>1. Inside(Between) \subseteq SemTasks
      BY Zenon DEF Inside
    <2> QED
      BY <2>1, SemAssumption, FS_Subset, Zenon
  <1>2. Cardinality(Inside(Between)) \in Nat
    BY <1>1, FS_CardinalityType, Zenon
  <1>3. ASSUME NEW t \in SemTasks, semPc[t] \in Between
        PROVE  Cardinality(Inside(Between)) > 0
    <2>1. Inside(Between) # {}
      BY <1>3, Zenon DEF Inside
    <2> QED
      BY <1>1, <1>2, <2>1, FS_EmptySet
  <1> QED
    BY <1>2, <1>3, SemAssumption DEF SemIInv, SemBounded, SemTypeOK, Between

(* A step that leaves the counts alone and neither enters nor leaves the   *)
(* stretch between them.                                                   *)
LEMMA CountsStay ==
  ASSUME SemIInv, NEW t \in SemTasks, NEW there, UNCHANGED <<semOs, semValue, semCount>>,
         semPc[t] \in Between <=> there \in Between
  PROVE  CountsAfter(t, there)
  <1>1. Weight(semPc[t]) = Weight(there) /\ Weight(there) \in Nat
    BY Zenon DEF Weight
  <1> QED
    BY <1>1, CountsBefore DEF CountsAfter

(* A step of osal_semaphore_give.                                          *)
LEMMA GiveHolds ==
  ASSUME SemIInv, NEW t \in SemTasks,
         \/ GiveKernel(t) \/ GiveLoad(t) \/ GiveFull(t) \/ GiveSwapFails(t) \/ GiveSwap(t)
         \/ GivePost(t) \/ GiveRefused(t) \/ GiveUndo(t)
  PROVE  SemIInv'
  <1>0. /\ semValue \in 0 .. Maximum /\ semCount \in Int /\ Maximum \in Nat
        /\ Cardinality(Inside(Between)) \in Nat
        /\ Shadowed => semCount = semValue + Cardinality(Inside(Between)) /\ semCount <= Maximum
        /\ semPc[t] \in Between => Cardinality(Inside(Between)) > 0
        /\ semSeen \in [SemTasks -> Int]
        /\ semTries \in [SemTasks -> 0 .. Attempts - 1]
        /\ semMode \in [SemTasks -> Modes]
        /\ Word \in Int
    BY CountsBefore DEF Word
  <1>w. /\ Weight("idle") = 0 /\ Weight("reserve") = 0 /\ Weight("post") = 1 /\ Weight("undo") = 1
        /\ "post" \in Between /\ "undo" \in Between
        /\ "idle" \notin Between /\ "reserve" \notin Between
    BY Zenon DEF Weight, Between
  <1>1. CASE GiveKernel(t)
    <2>1. CountsAfter(t, "idle")
      BY <1>0, <1>1 DEF GiveKernel, CountsAfter, Shadowed
    <2>2. SemReturn(t, "ok") \/ SemReturn(t, Sem.full)
      BY <1>1, Zenon DEF GiveKernel
    <2> QED
      BY <2>1, <2>2, Returns, Zenon
  <1>2. CASE GiveLoad(t)
    <2>1. CountsAfter(t, "reserve")
      BY <1>2, <1>w, CountsStay, Zenon DEF GiveLoad, At
    <2>2. LocalsAfter(t) /\ Goto(t, "reserve")
      BY <1>0, <1>2, Zenon DEF GiveLoad, LocalsAfter
    <2> QED
      BY <1>w, <2>1, <2>2, Goes, Zenon
  <1>3. CASE GiveFull(t)
    <2>1. CountsAfter(t, "idle")
      BY <1>3, <1>w, CountsStay, Zenon DEF GiveFull, At
    <2>2. SemReturn(t, Sem.full)
      BY <1>3, Zenon DEF GiveFull
    <2> QED
      BY <2>1, <2>2, Returns, Zenon
  <1>4. CASE GiveSwapFails(t)
    <2>0. CountsAfter(t, "idle") /\ CountsAfter(t, "reserve")
      BY <1>4, <1>w, CountsStay, Zenon DEF GiveSwapFails, At
    <2>1. CASE Sem.bounded /\ semTries[t] + 1 = Attempts
      <3>1. SemReturn(t, "would_block")
        BY <1>4, <2>1, Zenon DEF GiveSwapFails
      <3> QED
        BY <2>0, <3>1, Returns, Zenon
    <2>2. CASE ~(Sem.bounded /\ semTries[t] + 1 = Attempts)
      <3>1. /\ semSeen' = [semSeen EXCEPT ![t] = Word] /\ UNCHANGED semMode
            /\ semTries' = [semTries EXCEPT ![t] = IF Sem.bounded THEN @ + 1 ELSE @]
            /\ Goto(t, "reserve")
        BY <1>4, <2>2, Zenon DEF GiveSwapFails
      <3>2. LocalsAfter(t)
        BY <1>0, <2>2, <3>1, SemAssumption DEF LocalsAfter
      <3> QED
        BY <1>w, <2>0, <3>1, <3>2, Goes, Zenon
    <2> QED
      BY <2>1, <2>2, Zenon
  <1>5. CASE GiveSwap(t) /\ Shadowed
    <2>1. /\ semPc[t] = "reserve" /\ semCount < Maximum /\ semCount' = semCount + 1
          /\ UNCHANGED <<semOs, semValue, semSeen, semTries, semMode>> /\ Goto(t, "post")
      BY <1>5, Zenon DEF GiveSwap, At, Word, locals
    <2>2. CountsAfter(t, "post")
      BY <1>0, <1>w, <2>1 DEF CountsAfter
    <2>3. LocalsAfter(t)
      BY <1>0, <2>1, Zenon DEF LocalsAfter
    <2> QED
      BY <1>5, <2>1, <2>2, <2>3, Goes, Zenon
  <1>6. CASE GiveSwap(t) /\ ~Shadowed
    <2>1. CountsAfter(t, "idle")
      BY <1>0, <1>6 DEF GiveSwap, CountsAfter, Word
    <2>2. SemReturn(t, "ok")
      BY <1>6, Zenon DEF GiveSwap
    <2> QED
      BY <2>1, <2>2, Returns, Zenon
  <1>7. CASE GivePost(t)
    <2>1. Shadowed /\ Weight(semPc[t]) = 1 /\ semPc[t] \in Between
      BY <1>7, <1>w, Zenon DEF GivePost, At, SemIInv, Between
    <2>2. CountsAfter(t, "idle")
      BY <1>0, <1>7, <1>w, <2>1 DEF GivePost, CountsAfter
    <2>3. SemReturn(t, "ok")
      BY <1>7, Zenon DEF GivePost
    <2> QED
      BY <2>2, <2>3, Returns, Zenon
  <1>8. CASE GiveRefused(t)
    <2>1. CountsAfter(t, "undo") /\ Shadowed
      BY <1>8, <1>w, CountsStay, Zenon DEF GiveRefused, At, SemIInv, Between
    <2>2. LocalsAfter(t) /\ Goto(t, "undo")
      BY <1>0, <1>8, Zenon DEF GiveRefused, LocalsAfter, locals
    <2> QED
      BY <2>1, <2>2, Goes, Zenon
  <1>9. CASE GiveUndo(t)
    <2>1. Weight(semPc[t]) = 1 /\ semPc[t] \in Between
      BY <1>9, <1>w, Zenon DEF GiveUndo, At
    <2>2. CountsAfter(t, "idle")
      BY <1>0, <1>9, <1>w, <2>1 DEF GiveUndo, CountsAfter
    <2>3. SemReturn(t, Sem.refused)
      BY <1>9, Zenon DEF GiveUndo
    <2> QED
      BY <2>2, <2>3, Returns, Zenon
  <1> QED
    BY <1>1, <1>2, <1>3, <1>4, <1>5, <1>6, <1>7, <1>8, <1>9, Zenon

(* A step of osal_semaphore_take.                                          *)
LEMMA TakeHolds ==
  ASSUME SemIInv, NEW t \in SemTasks,
         \/ TakeCall(t) \/ TakeUnit(t) \/ TakeSettle(t) \/ TakeLoad(t) \/ TakeSwap(t)
         \/ TakeSwapFails(t) \/ TakeNothing(t) \/ TakeAborted(t)
  PROVE  SemIInv'
  <1>0. /\ semValue \in 0 .. Maximum /\ semCount \in Int /\ Maximum \in Nat
        /\ Cardinality(Inside(Between)) \in Nat
        /\ Shadowed => semCount = semValue + Cardinality(Inside(Between)) /\ semCount <= Maximum
        /\ semPc[t] \in Between => Cardinality(Inside(Between)) > 0
        /\ semSeen \in [SemTasks -> Int]
        /\ semTries \in [SemTasks -> 0 .. Attempts - 1]
        /\ semMode \in [SemTasks -> Modes]
    BY CountsBefore, Zenon
  <1>w. /\ Weight("idle") = 0 /\ Weight("wait") = 0 /\ Weight("settle") = 1
        /\ "settle" \in Between
        /\ "idle" \notin Between /\ "wait" \notin Between /\ "swap" \notin Between
    BY Zenon DEF Weight, Between
  <1>1. CASE TakeCall(t)
    <2>1. CountsAfter(t, "wait")
      BY <1>1, <1>w, CountsStay, Zenon DEF TakeCall, At
    <2>2. LocalsAfter(t) /\ Goto(t, "wait")
      BY <1>0, <1>1, Zenon DEF TakeCall, LocalsAfter
    <2> QED
      BY <1>w, <2>1, <2>2, Goes, Zenon
  <1>2. CASE TakeUnit(t) /\ Shadowed
    <2>1. /\ semPc[t] = "wait" /\ semValue > 0 /\ semValue' = semValue - 1
          /\ UNCHANGED <<semOs, semCount, semSeen, semTries, semMode>> /\ Goto(t, "settle")
      BY <1>2, Zenon DEF TakeUnit, At, locals
    <2>2. CountsAfter(t, "settle")
      BY <1>0, <1>w, <2>1 DEF CountsAfter
    <2>3. LocalsAfter(t)
      BY <1>0, <2>1, Zenon DEF LocalsAfter
    <2> QED
      BY <1>2, <2>1, <2>2, <2>3, Goes, Zenon
  <1>3. CASE TakeUnit(t) /\ ~Shadowed
    <2>1. CountsAfter(t, "idle")
      BY <1>0, <1>3 DEF TakeUnit, CountsAfter
    <2>2. SemReturn(t, "ok")
      BY <1>3, Zenon DEF TakeUnit
    <2> QED
      BY <2>1, <2>2, Returns, Zenon
  <1>4. CASE TakeSettle(t)
    <2>1. Weight(semPc[t]) = 1 /\ semPc[t] \in Between
      BY <1>4, <1>w, Zenon DEF TakeSettle, At
    <2>2. CountsAfter(t, "idle")
      BY <1>0, <1>4, <1>w, <2>1 DEF TakeSettle, CountsAfter
    <2>3. SemReturn(t, "ok")
      BY <1>4, Zenon DEF TakeSettle
    <2> QED
      BY <2>2, <2>3, Returns, Zenon
  <1>5. CASE TakeLoad(t)
    <2>1. CountsAfter(t, "swap") /\ ~Shadowed
      BY <1>5, <1>w, CountsStay, Zenon DEF TakeLoad, At, Shadowed
    <2>2. LocalsAfter(t) /\ semSeen'[t] > 0 /\ Goto(t, "swap")
      BY <1>0, <1>5 DEF TakeLoad, LocalsAfter
    <2> QED
      BY <1>w, <2>1, <2>2, Goes, Zenon
  <1>6. CASE TakeSwap(t)
    <2>1. ~Shadowed /\ semSeen[t] > 0
      BY <1>6, Zenon DEF TakeSwap, At, SemIInv
    <2>2. CountsAfter(t, "idle")
      BY <1>0, <1>6, <2>1 DEF TakeSwap, CountsAfter
    <2>3. SemReturn(t, "ok")
      BY <1>6, Zenon DEF TakeSwap
    <2> QED
      BY <2>2, <2>3, Returns, Zenon
  <1>7. CASE TakeSwapFails(t)
    <2>1. CountsAfter(t, "wait")
      BY <1>7, <1>w, CountsStay, Zenon DEF TakeSwapFails, At
    <2>2. LocalsAfter(t) /\ Goto(t, "wait")
      BY <1>0, <1>7 DEF TakeSwapFails, LocalsAfter
    <2> QED
      BY <1>w, <2>1, <2>2, Goes, Zenon
  <1>8. CASE TakeNothing(t)
    <2>1. CountsAfter(t, "idle")
      BY <1>8, <1>w, CountsStay, Zenon DEF TakeNothing, At
    <2>2. SemReturn(t, IF semMode[t] = "no_wait" THEN Sem.busy ELSE Sem.late)
      BY <1>8, Zenon DEF TakeNothing
    <2> QED
      BY <2>1, <2>2, Returns, Zenon
  <1>9. CASE TakeAborted(t)
    <2>1. CountsAfter(t, "idle")
      BY <1>9, <1>w, CountsStay, Zenon DEF TakeAborted, At
    <2>2. SemReturn(t, Sem.aborted[semMode[t]])
      BY <1>9, Zenon DEF TakeAborted
    <2> QED
      BY <2>1, <2>2, Returns, Zenon
  <1> QED
    BY <1>1, <1>2, <1>3, <1>4, <1>5, <1>6, <1>7, <1>8, <1>9, Zenon

(* Every step of a task keeps the invariant.                               *)
LEMMA SemStepHolds ==
  ASSUME SemIInv, [SemNext]_semVars
  PROVE  SemIInv'
  <1>1. CASE UNCHANGED semVars
    BY <1>1, Zenon DEF SemIInv, SemBounded, SemTypeOK, Shadowed, Sem, Inside, semVars
  <1>2. CASE SemNext
    BY <1>2, GiveHolds, TakeHolds, Zenon DEF SemNext, SemStep
  <1> QED
    BY <1>1, <1>2, Zenon

(* osal_semaphore_give never lets a semaphore exceed max_count, and the    *)
(* shadow count is exact, for every backend and every number of tasks.     *)
THEOREM SemBoundedHolds == SemSpec => []SemBounded
  <1>1. (\E os \in DOMAIN Semaphore : SemInit(os)) => SemIInv
    BY SemInitHolds, Zenon
  <1>2. SemIInv /\ [SemNext]_semVars => SemIInv'
    BY SemStepHolds, Zenon
  <1>3. SemIInv => SemBounded
    BY Zenon DEF SemIInv
  <1> QED
    BY <1>1, <1>2, <1>3, PTL DEF SemSpec

-----------------------------------------------------------------------------
(*                           Thread-local data                             *)

TlsTypes ==
  /\ TlsTypeOK
  /\ tlsBuild \in TlsBuilds
  /\ tlsGen \in [TlsSlots -> Nat]
  /\ tlsValue \in [TlsThreads -> [TlsSlots -> Int \X Int]]
  /\ tlsSeen \in [TlsThreads -> [TlsSlots -> Nat]]
  /\ tlsLife \in [TlsThreads -> Nat]

InUse(k) == tlsKey[k] \in {"claimed", "live"}

(* Keys in use have slots of their own, marked in the mask.                *)
SlotsApart ==
  /\ \A k \in Keys : InUse(k) => tlsSlot[k] \in tlsMask
  /\ \A j, k \in Keys : j # k /\ InUse(j) /\ InUse(k) => tlsSlot[j] # tlsSlot[k]

(* No thread has seen a generation that is still to come.                  *)
SeenIsPast == \A t \in TlsThreads, s \in TlsSlots : tlsSeen[t][s] <= tlsGen[s]

(* A value of the current generation of a live key's slot is the key's     *)
(* own.  This is what the two increments of tls_registry are for: both     *)
(* make every value that is already in the slot one of the past.           *)
CurrentIsOwn ==
  tlsBuild # "freertos" =>
     \A t \in TlsThreads, k \in Keys :
        KeyIn(k, "live") /\ tlsSeen[t][tlsSlot[k]] = tlsGen[tlsSlot[k]]
           => tlsValue[t][tlsSlot[k]] = NoValue \/ tlsValue[t][tlsSlot[k]][1] = k

(* Where a thread begins with fresh storage, its values are its own.       *)
ThreadsOwn ==
  tlsBuild # "bare_metal" =>
     \A t \in TlsThreads, s \in TlsSlots :
        tlsValue[t][s] = NoValue \/ tlsValue[t][s][2] = tlsLife[t]

TlsIInv == TlsTypes /\ SlotsApart /\ SeenIsPast /\ CurrentIsOwn /\ ThreadsOwn

(* No slot is claimed and no value stored at first.                        *)
LEMMA TlsInitHolds ==
  ASSUME NEW build \in TlsBuilds, TlsInit(build)
  PROVE  TlsIInv
  <1>1. (CHOOSE s \in TlsSlots : TRUE) \in TlsSlots
    BY TlsAssumption, Zenon
  <1>2. TlsTypes
    BY <1>1 DEF TlsInit, TlsTypes, TlsTypeOK, NoValue
  <1> QED
    BY <1>2 DEF TlsInit, TlsIInv, SlotsApart, InUse, SeenIsPast, CurrentIsOwn, KeyIn, ThreadsOwn

(* A new object takes a slot that nobody has.                              *)
LEMMA AcquireHolds ==
  ASSUME TlsIInv, NEW k \in Keys, acquire(k)
  PROVE  TlsIInv'
  <1>1. PICK s \in TlsSlots \ tlsMask :
           /\ tlsMask' = tlsMask \cup {s} /\ tlsSlot' = [tlsSlot EXCEPT ![k] = s]
    BY Zenon DEF acquire
  <1>2. /\ tlsKey' = [tlsKey EXCEPT ![k] = IF tlsBuild = "freertos" THEN "live" ELSE "claimed"]
        /\ UNCHANGED <<tlsBuild, tlsGen, tlsValue, tlsSeen, tlsLife>>
    BY Zenon DEF acquire, KeyGoto
  <1>3. TlsTypes'
    BY <1>1, <1>2, Zenon DEF TlsIInv, TlsTypes, TlsTypeOK
  <1>4. SlotsApart'
    BY <1>1, <1>2 DEF TlsIInv, TlsTypes, TlsTypeOK, SlotsApart, InUse
  <1>5. CurrentIsOwn'
    BY <1>1, <1>2, Zenon DEF TlsIInv, TlsTypes, TlsTypeOK, CurrentIsOwn, KeyIn
  <1> QED
    BY <1>2, <1>3, <1>4, <1>5, Zenon DEF TlsIInv, SeenIsPast, ThreadsOwn

(* Counting a generation makes every value in the slot one of the past, on *)
(* both of the occasions on which tls_registry does it.                    *)
LEMMA CountHolds ==
  ASSUME TlsIInv, NEW k \in Keys, AcquireCounts(k) \/ ReleaseCounts(k)
  PROVE  TlsIInv'
  <1>1. /\ tlsGen' = [tlsGen EXCEPT ![tlsSlot[k]] = @ + 1]
        /\ UNCHANGED <<tlsBuild, tlsMask, tlsSlot, tlsValue, tlsSeen, tlsLife>>
    BY Zenon DEF AcquireCounts, ReleaseCounts
  <1>2. \/ tlsKey[k] = "claimed" /\ tlsKey' = [tlsKey EXCEPT ![k] = "live"]
        \/ tlsKey[k] = "cleared" /\ tlsKey' = [tlsKey EXCEPT ![k] = "dead"]
    BY Zenon DEF AcquireCounts, ReleaseCounts, KeyIn, KeyGoto
  <1>3. TlsTypes'
    BY <1>1, <1>2 DEF TlsIInv, TlsTypes, TlsTypeOK
  <1>4. SlotsApart'
    <2>1. \A j \in Keys : InUse(j)' => InUse(j)
      BY <1>2, Zenon DEF TlsIInv, TlsTypes, TlsTypeOK, InUse
    <2> QED
      BY <1>1, <2>1, Zenon DEF TlsIInv, SlotsApart
  <1>5. SeenIsPast'
    BY <1>1 DEF TlsIInv, TlsTypes, TlsTypeOK, SeenIsPast
  <1>6. CurrentIsOwn'
    <2> SUFFICES ASSUME tlsBuild # "freertos", NEW t \in TlsThreads, NEW j \in Keys,
                        tlsKey'[j] = "live",
                        tlsSeen[t][tlsSlot[j]] = tlsGen'[tlsSlot[j]]
                 PROVE  tlsValue[t][tlsSlot[j]] = NoValue \/ tlsValue[t][tlsSlot[j]][1] = j
      BY <1>1, Zenon DEF CurrentIsOwn, KeyIn
    <2>1. tlsSlot[j] # tlsSlot[k]
      BY <1>1 DEF TlsIInv, TlsTypes, TlsTypeOK, SeenIsPast
    <2>2. tlsKey[j] = "live" /\ tlsGen'[tlsSlot[j]] = tlsGen[tlsSlot[j]]
      BY <1>1, <1>2, <2>1, Zenon DEF TlsIInv, TlsTypes, TlsTypeOK
    <2> QED
      BY <2>2, Zenon DEF TlsIInv, CurrentIsOwn, KeyIn
  <1> QED
    BY <1>1, <1>3, <1>4, <1>5, <1>6, Zenon DEF TlsIInv, ThreadsOwn

(* A destroyed object gives up only its own slot.                          *)
LEMMA ReleaseHolds ==
  ASSUME TlsIInv, NEW k \in Keys, release(k)
  PROVE  TlsIInv'
  <1>1. /\ tlsKey[k] = "live" /\ tlsMask' = tlsMask \ {tlsSlot[k]}
        /\ tlsKey' = [tlsKey EXCEPT ![k] = IF tlsBuild = "freertos" THEN "dead" ELSE "cleared"]
        /\ UNCHANGED <<tlsBuild, tlsGen, tlsSlot, tlsValue, tlsSeen, tlsLife>>
    BY Zenon DEF release, KeyIn, KeyGoto
  <1>2. TlsTypes'
    BY <1>1, Zenon DEF TlsIInv, TlsTypes, TlsTypeOK
  <1>3. SlotsApart'
    BY <1>1, Zenon DEF TlsIInv, TlsTypes, TlsTypeOK, SlotsApart, InUse
  <1>4. CurrentIsOwn'
    BY <1>1, Zenon DEF TlsIInv, TlsTypes, TlsTypeOK, CurrentIsOwn, KeyIn
  <1> QED
    BY <1>1, <1>2, <1>3, <1>4, Zenon DEF TlsIInv, SeenIsPast, ThreadsOwn

(* A thread sets a value through a live key.                               *)
LEMMA SetHolds ==
  ASSUME TlsIInv, NEW t \in TlsThreads, NEW k \in Keys, set(t, k)
  PROVE  TlsIInv'
  <1> DEFINE s == tlsSlot[k]
  <1>a. k \in Int
    BY DEF Keys
  <1>1. /\ tlsKey[k] = "live" /\ s \in TlsSlots /\ k \in Int
        /\ tlsLife[t] \in Int /\ tlsGen[s] \in Nat
        /\ UNCHANGED <<tlsBuild, tlsMask, tlsGen, tlsKey, tlsSlot, tlsLife>>
    BY <1>a DEF set, KeyIn, TlsIInv, TlsTypes, TlsTypeOK
  <1>2. /\ tlsValue' \in [TlsThreads -> [TlsSlots -> Int \X Int]]
        /\ tlsValue'[t][s] = <<k, tlsLife[t]>>
        /\ \A u \in TlsThreads, r \in TlsSlots :
              u # t \/ r # s => tlsValue'[u][r] = tlsValue[u][r]
    BY <1>1, Zenon DEF set, TlsIInv, TlsTypes
  <1>3. /\ tlsSeen' \in [TlsThreads -> [TlsSlots -> Nat]]
        /\ tlsSeen'[t][s] = tlsGen[s]
        /\ \A u \in TlsThreads, r \in TlsSlots :
              u # t \/ r # s => tlsSeen'[u][r] = tlsSeen[u][r]
    BY <1>1, Zenon DEF set, TlsIInv, TlsTypes
  <1>4. TlsTypes'
    BY <1>1, <1>2, <1>3, Zenon DEF TlsIInv, TlsTypes, TlsTypeOK
  <1>5. SlotsApart'
    BY <1>1, Zenon DEF TlsIInv, SlotsApart, InUse
  <1>6. SeenIsPast'
    <2> SUFFICES ASSUME NEW u \in TlsThreads, NEW r \in TlsSlots
                 PROVE  tlsSeen'[u][r] <= tlsGen[r]
      BY <1>1, Zenon DEF SeenIsPast
    <2>1. CASE u = t /\ r = s
      BY <1>1, <1>3, <2>1
    <2>2. CASE u # t \/ r # s
      BY <1>3, <2>2, Zenon DEF TlsIInv, SeenIsPast
    <2> QED
      BY <2>1, <2>2, Zenon
  <1>7. CurrentIsOwn'
    <2> SUFFICES ASSUME tlsBuild # "freertos", NEW u \in TlsThreads, NEW j \in Keys,
                        tlsKey[j] = "live",
                        tlsSeen'[u][tlsSlot[j]] = tlsGen[tlsSlot[j]]
                 PROVE  tlsValue'[u][tlsSlot[j]] = NoValue \/ tlsValue'[u][tlsSlot[j]][1] = j
      BY <1>1, Zenon DEF CurrentIsOwn, KeyIn
    <2>1. CASE u = t /\ tlsSlot[j] = s
      <3>1. j = k
        BY <1>1, <2>1, Zenon DEF TlsIInv, SlotsApart, InUse
      <3> QED
        BY <1>2, <2>1, <3>1
    <2>2. CASE u # t \/ tlsSlot[j] # s
      BY <1>2, <1>3, <2>2 DEF TlsIInv, TlsTypes, TlsTypeOK, CurrentIsOwn, KeyIn
    <2> QED
      BY <2>1, <2>2, Zenon
  <1>8. ThreadsOwn'
    BY <1>1, <1>2 DEF TlsIInv, ThreadsOwn
  <1> QED
    BY <1>4, <1>5, <1>6, <1>7, <1>8, Zenon DEF TlsIInv

(* A thread starts where another one has ended.                            *)
LEMMA FollowsHolds ==
  ASSUME TlsIInv, NEW t \in TlsThreads, ThreadFollows(t)
  PROVE  TlsIInv'
  <1>1. /\ tlsLife' = [tlsLife EXCEPT ![t] = @ + 1]
        /\ UNCHANGED <<tlsBuild, tlsMask, tlsGen, tlsKey, tlsSlot>>
    BY Zenon DEF ThreadFollows
  <1>2. CASE tlsBuild = "bare_metal"
    <2>1. UNCHANGED <<tlsValue, tlsSeen>>
      BY <1>2, Zenon DEF ThreadFollows
    <2> QED
      BY <1>1, <1>2, <2>1 DEF TlsIInv, TlsTypes, TlsTypeOK, SlotsApart, InUse, SeenIsPast,
                              CurrentIsOwn, KeyIn, ThreadsOwn
  <1>3. CASE tlsBuild # "bare_metal"
    <2>1. /\ tlsValue' = [tlsValue EXCEPT ![t] = [s \in TlsSlots |-> NoValue]]
          /\ tlsSeen' = [tlsSeen EXCEPT ![t] = [s \in TlsSlots |-> 0]]
      BY <1>3, Zenon DEF ThreadFollows
    <2>2. TlsTypes'
      BY <1>1, <2>1 DEF TlsIInv, TlsTypes, TlsTypeOK, NoValue
    <2>3. SlotsApart'
      BY <1>1, Zenon DEF TlsIInv, SlotsApart, InUse
    <2>4. SeenIsPast'
      BY <1>1, <2>1 DEF TlsIInv, TlsTypes, SeenIsPast
    <2>5. CurrentIsOwn'
      BY <1>1, <2>1, Zenon DEF TlsIInv, TlsTypes, TlsTypeOK, CurrentIsOwn, KeyIn
    <2>6. ThreadsOwn'
      BY <1>1, <2>1, Zenon DEF TlsIInv, TlsTypes, ThreadsOwn
    <2> QED
      BY <2>2, <2>3, <2>4, <2>5, <2>6, Zenon DEF TlsIInv
  <1> QED
    BY <1>2, <1>3, Zenon

(* What get returns is the key's own and the thread's own.                 *)
LEMMA TlsIInvSuffices ==
  ASSUME TlsIInv
  PROVE  TlsOwnValue
  <1>1. ASSUME NEW j \in Keys, NEW k \in Keys, j # k,
               {tlsKey[j], tlsKey[k]} \subseteq {"claimed", "live"}
        PROVE  tlsSlot[j] # tlsSlot[k]
    BY <1>1, Zenon DEF TlsIInv, SlotsApart, InUse
  <1>2. ASSUME NEW t \in TlsThreads, NEW k \in Keys, KeyIn(k, "live"), get(t, k) # NoValue
        PROVE  /\ tlsBuild # "freertos" => get(t, k)[1] = k
               /\ tlsBuild # "bare_metal" => get(t, k)[2] = tlsLife[t]
    BY <1>2, Zenon DEF get, TlsIInv, TlsTypes, TlsTypeOK, CurrentIsOwn, ThreadsOwn
  <1> QED
    BY <1>1, <1>2, Zenon DEF TlsOwnValue, TlsIInv, TlsTypes

(* Two thread_local_data objects alive never share a slot, and get() never *)
(* returns what an earlier object of the slot left there, except on        *)
(* FreeRTOS, whose slots have no generations, nor what an earlier thread   *)
(* left there, except on bare metal, where a task takes over the storage.  *)
THEOREM TlsOwnValueHolds == TlsSpec => []TlsOwnValue
  <1>1. (\E build \in TlsBuilds : TlsInit(build)) => TlsIInv
    BY TlsInitHolds, Zenon
  <1>2. TlsIInv /\ [TlsNext]_tlsVars => TlsIInv'
    <2>1. CASE UNCHANGED tlsVars
      BY <2>1, Zenon DEF tlsVars, TlsIInv, TlsTypes, TlsTypeOK, SlotsApart, InUse, SeenIsPast,
                  CurrentIsOwn, KeyIn, ThreadsOwn
    <2> QED
      BY <2>1, AcquireHolds, CountHolds, ReleaseHolds, SetHolds, FollowsHolds, Zenon DEF TlsNext
  <1>3. TlsIInv => TlsOwnValue
    BY TlsIInvSuffices, Zenon
  <1> QED
    BY <1>1, <1>2, <1>3, PTL DEF TlsSpec
=============================================================================
