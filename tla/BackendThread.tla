---------------------------- MODULE BackendThread ----------------------------
(****************************************************************************)
(* Threads of the fifteen native backends: osal_thread_create, _join,       *)
(* _detach, _suspend, _resume and the trampolines the threads start in.     *)
(* What differs between the backends is who owns the memory a thread needs  *)
(* and when it goes back: a pool slot holding the control block, a slot     *)
(* holding a pointer, a heap context the trampoline deletes, a context that *)
(* the trampoline and the handle own together (FreeRTOS), or nothing.       *)
(*                                                                          *)
(* One record per backend translates its section; one state machine runs    *)
(* them.  A handle belongs to one caller.  Threads are identities used      *)
(* once, so a slot or a handle can be seen to serve a second thread.        *)
(****************************************************************************)
EXTENDS Integers, Capabilities

CONSTANTS Threads,     \* identities of the threads ever created
          ThrHandles,  \* thread_handle_t objects, each with one caller
          ThrSlots,    \* entries of the backend's static pool
          NoThread

ASSUME ThrAssumption == NoThread \notin Threads /\ ThrSlots # {}

VARIABLES thrOs,        \* the backend
          thrRun,       \* what each thread is doing
          thrHolds,     \* memory held for each thread
          thrSlot,      \* the pool slot each thread was given
          thrOwners,    \* fr_thread_ctx::owners
          thrDetached,  \* fr_thread_ctx::detached, BM_TASK_DETACHED
          thrOf,        \* handle->native
          thrPc,        \* where the handle's caller is
          thrRes        \* the call that just returned, or NoCall

thrVars == <<thrOs, thrRun, thrHolds, thrSlot, thrOwners, thrDetached, thrOf,
             thrPc, thrRes>>

------------------------------------------------------------------------------
(* What a backend does:                                                     *)
(*   needs   memory obtained by create: a pool slot, a context, an id       *)
(*   block   the slot is memory the running thread uses (its control block  *)
(*           or context), not only a place for its handle                   *)
(*   ctx     who returns the context: the trampoline "after" or "before"    *)
(*           the entry, the last of two "owners", or nobody                 *)
(*   join    "wait", "terminate", "request" or "refused"                    *)
(*   timed   a finite join timeout is "honoured", "ignored" or "refused"    *)
(*   fails   what a failed join leaves: "keeps" the handle, "frees" it,     *)
(*           keeps it after "either" of two calls failed, or "never" fails  *)
(*   detach  "owners", "kernel", "checked", "release", "flag", "forget" or  *)
(*           "refused"                                                      *)
ThreadDesign(needs, block, ctx, join, timed, fails, detach) ==
    [needs |-> needs, block |-> block, ctx |-> ctx, join |-> join,
     timed |-> timed, fails |-> fails, detach |-> detach]

freertos_thread ==
    ThreadDesign({"slot"}, TRUE, "owners", "wait", "honoured", "never", "owners")

zephyr_thread ==
    ThreadDesign({"slot"}, TRUE, "nobody", "wait", "honoured", "keeps", "refused")

posix_thread ==
    ThreadDesign({"ctx", "id"}, FALSE, "after", "wait", "honoured", "keeps", "kernel")

linux_thread ==
    ThreadDesign({"ctx", "id"}, FALSE, "after", "wait", "honoured", "keeps", "kernel")

nuttx_thread ==
    ThreadDesign({"ctx", "id"}, FALSE, "after", "wait", "ignored", "frees", "kernel")

qnx_thread ==
    ThreadDesign({"ctx", "id"}, FALSE, "before", "wait", "honoured", "keeps", "checked")

(* CH_CFG_USE_WAITEXIT enabled: chThdWait.                                  *)
chibios_thread ==
    ThreadDesign({"slot"}, FALSE, "nobody", "wait", "ignored", "never", "release")

(* CH_CFG_USE_WAITEXIT disabled: chThdTerminate only asks the thread.       *)
chibios_noexit_thread == [chibios_thread EXCEPT !.join = "request"]

cmsis_rtos2_thread ==
    ThreadDesign({"slot"}, FALSE, "nobody", "wait", "refused", "keeps", "checked")

cmsis_rtos_thread ==
    ThreadDesign({"slot"}, FALSE, "nobody", "refused", "refused", "keeps", "release")

embos_thread ==
    ThreadDesign({"slot"}, TRUE, "nobody", "terminate", "ignored", "never", "refused")

micrium_thread == [embos_thread EXCEPT !.fails = "keeps"]

px5_thread == [embos_thread EXCEPT !.fails = "either"]

threadx_thread == [embos_thread EXCEPT !.fails = "either"]

vxworks_thread ==
    ThreadDesign({}, FALSE, "nobody", "terminate", "ignored", "never", "forget")

(* The cooperative tasks of OSAL_BM_TEST_SELF_TICK; other bare-metal builds *)
(* have no threads.                                                         *)
bare_metal_thread ==
    ThreadDesign({"slot"}, TRUE, "nobody", "wait", "honoured", "never", "flag")

ThreadOf ==
    [freertos |-> freertos_thread, zephyr |-> zephyr_thread, posix |-> posix_thread,
     linux |-> linux_thread, nuttx |-> nuttx_thread, qnx |-> qnx_thread,
     chibios |-> chibios_thread, chibios_noexit |-> chibios_noexit_thread,
     cmsis_rtos2 |-> cmsis_rtos2_thread, cmsis_rtos |-> cmsis_rtos_thread,
     embos |-> embos_thread, micrium |-> micrium_thread, px5 |-> px5_thread,
     threadx |-> threadx_thread, vxworks |-> vxworks_thread,
     bare_metal |-> bare_metal_thread]

ThreadBuilds == DOMAIN ThreadOf
Thr == ThreadOf[thrOs]
NoCall == [call |-> "none", thread |-> NoThread, result |-> "none"]
Returned(call, k, result) == [call |-> call, thread |-> k, result |-> result]

(* Threads that still execute code of theirs, and threads that are over.    *)
Executing(k) == thrRun[k] \in {"starting", "running", "suspended", "returned"}
Over(k) == thrRun[k] \in {"parked", "ended", "gone"}

(* Fresh identities: it does not matter which one the next thread gets.     *)
Unborn == {k \in Threads : thrRun[k] = "unborn"}

FreeThrSlots == {s \in ThrSlots :
                 \A k \in Threads : ~(thrSlot[k] = s /\ "slot" \in thrHolds[k])}

------------------------------------------------------------------------------
(* osal_thread_create.  thread::create calls it on an empty handle only.    *)
(* The memory is obtained before the kernel call and nothing else reads it  *)
(* until then, so the call is one step; every failing stage hands back what *)
(* the stages before it obtained.                                           *)
thread_create(h) ==
    /\ thrPc[h] = "idle"
    /\ thrOf[h] = NoThread
    /\ "slot" \in Thr.needs => FreeThrSlots # {}
    /\ Unborn # {}
    /\ LET k == CHOOSE t \in Unborn : TRUE
       IN  /\ thrRun' = [thrRun EXCEPT ![k] = "starting"]
           /\ thrHolds' = [thrHolds EXCEPT ![k] = Thr.needs]
           /\ thrSlot' = [thrSlot EXCEPT
                 ![k] = IF "slot" \in Thr.needs THEN CHOOSE s \in FreeThrSlots : TRUE ELSE @]
           /\ thrOwners' = [thrOwners EXCEPT ![k] = IF Thr.ctx = "owners" THEN 2 ELSE 0]
           /\ thrOf' = [thrOf EXCEPT ![h] = k]
           /\ thrRes' = Returned("create", k, "ok")
    /\ UNCHANGED <<thrOs, thrDetached, thrPc>>

CreateFails(h) ==
    /\ thrPc[h] = "idle"
    /\ thrOf[h] = NoThread
    /\ thrRes' = Returned("create", NoThread, "out_of_resources")
    /\ UNCHANGED <<thrOs, thrRun, thrHolds, thrSlot, thrOwners, thrDetached, thrOf, thrPc>>

------------------------------------------------------------------------------
(* The trampolines.                                                         *)

(* The thread starts; QNX copies its context to the stack and deletes it    *)
(* before it calls the entry.                                               *)
Start(k) ==
    /\ thrRun[k] = "starting"
    /\ thrRun' = [thrRun EXCEPT ![k] = "running"]
    /\ thrHolds' = [thrHolds EXCEPT ![k] = IF Thr.ctx = "before" THEN @ \ {"ctx"} ELSE @]
    /\ thrRes' = NoCall
    /\ UNCHANGED <<thrOs, thrSlot, thrOwners, thrDetached, thrOf, thrPc>>

EntryReturns(k) ==
    /\ thrRun[k] = "running"
    /\ thrRun' = [thrRun EXCEPT ![k] = "returned"]
    /\ thrRes' = NoCall
    /\ UNCHANGED <<thrOs, thrHolds, thrSlot, thrOwners, thrDetached, thrOf, thrPc>>

(* fr_thread_ctx_release_owner: the memory of k after n owners let go.      *)
ReleaseOwner(k, n) ==
    /\ thrOwners' = [thrOwners EXCEPT ![k] = @ - n]
    /\ thrHolds' = [thrHolds EXCEPT ![k] = IF thrOwners[k] = n THEN {} ELSE @]

(* The critical section fr_thread_wrapper_fn ends with.                     *)
FinishOwned_ForgetsOwner(k) ==
    /\ thrRun[k] = "returned"
    /\ Thr.ctx = "owners"
    /\ thrRun' = [thrRun EXCEPT ![k] = IF thrDetached[k] THEN "gone" ELSE "parked"]
    /\ UNCHANGED <<thrHolds, thrOwners>>
    /\ thrRes' = NoCall
    /\ UNCHANGED <<thrOs, thrSlot, thrDetached, thrOf, thrPc>>

FinishOwned(k) ==
    /\ thrRun[k] = "returned"
    /\ Thr.ctx = "owners"
    /\ \/ /\ thrDetached[k]
          /\ ReleaseOwner(k, 1)
          /\ thrRun' = [thrRun EXCEPT ![k] = "gone"]
       \/ /\ ~thrDetached[k]
          /\ thrRun' = [thrRun EXCEPT ![k] = "parked"]
          /\ UNCHANGED <<thrHolds, thrOwners>>
    /\ thrRes' = NoCall
    /\ UNCHANGED <<thrOs, thrSlot, thrDetached, thrOf, thrPc>>

(* thread_entry of the pthread ports deletes its context; bm_task_trampoline *)
(* frees the slot of a detached task; the other kernels just end the thread. *)
Finish(k) ==
    /\ thrRun[k] = "returned"
    /\ Thr.ctx # "owners"
    /\ thrRun' = [thrRun EXCEPT ![k] = "ended"]
    /\ thrHolds' = [thrHolds EXCEPT
          ![k] = IF Thr.ctx = "after" THEN @ \ {"ctx"}
                 ELSE IF Thr.detach = "flag" /\ thrDetached[k] THEN {}
                 ELSE @]
    /\ thrRes' = NoCall
    /\ UNCHANGED <<thrOs, thrSlot, thrOwners, thrDetached, thrOf, thrPc>>

------------------------------------------------------------------------------
(* osal_thread_join.                                                        *)

(* The handle's memory goes back and the handle is cleared.                 *)
LetGo(h) ==
    LET k == thrOf[h]
    IN  /\ thrHolds' = [thrHolds EXCEPT ![k] = @ \ {"slot", "id"}]
        /\ thrOf' = [thrOf EXCEPT ![h] = NoThread]

(* Waiting without and with a timeout.                                      *)
Joining == {"join", "join_for"}

thread_join(h) ==
    /\ thrPc[h] = "idle"
    /\ thrOf[h] # NoThread
    /\ \E pc \in Joining :
          LET refused == Thr.join = "refused" \/ (pc = "join_for" /\ Thr.timed = "refused")
          IN  /\ thrPc' = [thrPc EXCEPT ![h] = IF refused THEN @ ELSE pc]
              /\ thrRes' = IF refused THEN Returned("join", thrOf[h], "not_supported")
                                      ELSE NoCall
    /\ UNCHANGED <<thrOs, thrRun, thrHolds, thrSlot, thrOwners, thrDetached, thrOf>>

(* The wait is over because the thread is; FreeRTOS deletes the parked task *)
(* and both shares of its context.                                          *)
JoinDone(h) ==
    /\ thrPc[h] \in Joining
    /\ Thr.join = "wait"
    /\ Over(thrOf[h])
    /\ \/ /\ Thr.ctx = "owners"
          /\ ReleaseOwner(thrOf[h], 2)
          /\ thrRun' = [thrRun EXCEPT ![thrOf[h]] = "gone"]
          /\ thrOf' = [thrOf EXCEPT ![h] = NoThread]
       \/ /\ Thr.ctx # "owners"
          /\ LetGo(h)
          /\ UNCHANGED <<thrRun, thrOwners>>
    /\ thrPc' = [thrPc EXCEPT ![h] = "idle"]
    /\ thrRes' = Returned("join", thrOf[h], "ok")
    /\ UNCHANGED <<thrOs, thrSlot, thrDetached>>

JoinTimesOut_Releases(h) ==
    /\ thrPc[h] = "join_for"
    /\ Thr.join = "wait"
    /\ Thr.timed = "honoured"
    /\ LetGo(h)
    /\ thrPc' = [thrPc EXCEPT ![h] = "idle"]
    /\ thrRes' = Returned("join", thrOf[h], "timeout")
    /\ UNCHANGED <<thrOs, thrRun, thrSlot, thrOwners, thrDetached>>

JoinTimesOut(h) ==
    /\ thrPc[h] = "join_for"
    /\ Thr.join = "wait"
    /\ Thr.timed = "honoured"
    /\ thrPc' = [thrPc EXCEPT ![h] = "idle"]
    /\ thrRes' = Returned("join", thrOf[h], "timeout")
    /\ UNCHANGED <<thrOs, thrRun, thrHolds, thrSlot, thrOwners, thrDetached, thrOf>>

(* The kernel call fails: NuttX deletes the id all the same.                *)
JoinFails(h) ==
    /\ thrPc[h] \in Joining
    /\ \/ /\ Thr.fails \in {"keeps", "either"}
          /\ UNCHANGED <<thrHolds, thrOf>>
       \/ /\ Thr.fails = "frees"
          /\ LetGo(h)
    /\ thrPc' = [thrPc EXCEPT ![h] = "idle"]
    /\ thrRes' = Returned("join", thrOf[h], "unknown")
    /\ UNCHANGED <<thrOs, thrRun, thrSlot, thrOwners, thrDetached>>

(* OS_TASK_Terminate, OSTaskDel, tx_thread_terminate, taskDelete: the       *)
(* thread ends wherever it is.                                              *)
Terminate(h) ==
    /\ thrPc[h] \in Joining
    /\ Thr.join = "terminate"
    /\ thrRun' = [thrRun EXCEPT ![thrOf[h]] = "gone"]
    /\ thrPc' = [thrPc EXCEPT ![h] = "terminated"]
    /\ thrRes' = NoCall
    /\ UNCHANGED <<thrOs, thrHolds, thrSlot, thrOwners, thrDetached, thrOf>>

(* ... and the slot goes back, or a failed tx_thread_delete keeps it.       *)
TerminateDone(h) ==
    /\ thrPc[h] = "terminated"
    /\ \/ /\ LetGo(h)
          /\ thrRes' = Returned("join", thrOf[h], "ok")
       \/ /\ Thr.fails = "either"
          /\ UNCHANGED <<thrHolds, thrOf>>
          /\ thrRes' = Returned("join", thrOf[h], "unknown")
    /\ thrPc' = [thrPc EXCEPT ![h] = "idle"]
    /\ UNCHANGED <<thrOs, thrRun, thrSlot, thrOwners, thrDetached>>

(* chThdTerminate sets a request flag and the join returns at once.         *)
JoinRequested(h) ==
    /\ thrPc[h] \in Joining
    /\ Thr.join = "request"
    /\ LetGo(h)
    /\ thrPc' = [thrPc EXCEPT ![h] = "idle"]
    /\ thrRes' = Returned("join", thrOf[h], "ok")
    /\ UNCHANGED <<thrOs, thrRun, thrSlot, thrOwners, thrDetached>>

------------------------------------------------------------------------------
(* osal_thread_detach.                                                      *)
DetachCall(h) ==
    /\ thrPc[h] = "idle"
    /\ thrOf[h] # NoThread

DetachRefused(h) ==
    /\ DetachCall(h)
    /\ Thr.detach \in {"refused", "checked"}
    /\ thrRes' = Returned("detach", thrOf[h],
                          IF Thr.detach = "refused" THEN "not_supported" ELSE "unknown")
    /\ UNCHANGED <<thrOs, thrRun, thrHolds, thrSlot, thrOwners, thrDetached, thrOf, thrPc>>

(* pthread_detach or osThreadDetach and the id or slot goes back; or only   *)
(* that (ChibiOS, CMSIS-RTOS), or only the handle is cleared (VxWorks).     *)
DetachReleases(h) ==
    /\ DetachCall(h)
    /\ Thr.detach \in {"kernel", "checked", "release", "forget"}
    /\ LetGo(h)
    /\ thrRes' = Returned("detach", thrOf[h], "ok")
    /\ UNCHANGED <<thrOs, thrRun, thrSlot, thrOwners, thrDetached, thrPc>>

(* BM_TASK_DETACHED is set, whatever the task is doing.                     *)
DetachFlags(h) ==
    /\ DetachCall(h)
    /\ Thr.detach = "flag"
    /\ thrDetached' = [thrDetached EXCEPT ![thrOf[h]] = TRUE]
    /\ thrOf' = [thrOf EXCEPT ![h] = NoThread]
    /\ thrRes' = Returned("detach", thrOf[h], "ok")
    /\ UNCHANGED <<thrOs, thrRun, thrHolds, thrSlot, thrOwners, thrPc>>

(* FreeRTOS: one critical section sets detached and reads finished ...      *)
DetachOwned(h) ==
    /\ DetachCall(h)
    /\ Thr.detach = "owners"
    /\ thrDetached' = [thrDetached EXCEPT ![thrOf[h]] = TRUE]
    /\ thrPc' = [thrPc EXCEPT ![h] = IF thrRun[thrOf[h]] = "parked"
                                     THEN "detach_finished" ELSE "detach_running"]
    /\ thrRes' = NoCall
    /\ UNCHANGED <<thrOs, thrRun, thrHolds, thrSlot, thrOwners, thrOf>>

(* ... and after it a finished task is deleted and the shares are dropped.  *)
DetachOwnedDone(h) ==
    /\ thrPc[h] \in {"detach_finished", "detach_running"}
    /\ \/ /\ thrPc[h] = "detach_finished"
          /\ thrRun' = [thrRun EXCEPT ![thrOf[h]] = "gone"]
          /\ ReleaseOwner(thrOf[h], 2)
       \/ /\ thrPc[h] = "detach_running"
          /\ ReleaseOwner(thrOf[h], 1)
          /\ UNCHANGED thrRun
    /\ thrOf' = [thrOf EXCEPT ![h] = NoThread]
    /\ thrPc' = [thrPc EXCEPT ![h] = "idle"]
    /\ thrRes' = Returned("detach", thrOf[h], "ok")
    /\ UNCHANGED <<thrOs, thrSlot, thrDetached>>

------------------------------------------------------------------------------
(* osal_thread_suspend and _resume, where the kernel has them.              *)
CanSuspend == {os \in Backends : "thread_suspend_resume" \in Capabilities[os]}

Switch(h, from, to) ==
    /\ thrPc[h] = "idle"
    /\ thrOf[h] # NoThread
    /\ thrOs \in CanSuspend
    /\ thrRun[thrOf[h]] = from
    /\ thrRun' = [thrRun EXCEPT ![thrOf[h]] = to]
    /\ thrRes' = NoCall
    /\ UNCHANGED <<thrOs, thrHolds, thrSlot, thrOwners, thrDetached, thrOf, thrPc>>

thread_suspend(h) == Switch(h, "running", "suspended")
thread_resume(h) == Switch(h, "suspended", "running")

------------------------------------------------------------------------------
ThrInit(os) ==
    /\ thrOs = os
    /\ thrRun = [k \in Threads |-> "unborn"]
    /\ thrHolds = [k \in Threads |-> {}]
    /\ thrSlot = [k \in Threads |-> CHOOSE s \in ThrSlots : TRUE]
    /\ thrOwners = [k \in Threads |-> 0]
    /\ thrDetached = [k \in Threads |-> FALSE]
    /\ thrOf = [h \in ThrHandles |-> NoThread]
    /\ thrPc = [h \in ThrHandles |-> "idle"]
    /\ thrRes = NoCall

ThrCall(h) ==
    \/ thread_create(h) \/ CreateFails(h)
    \/ thread_join(h) \/ JoinDone(h) \/ JoinTimesOut(h) \/ JoinFails(h)
    \/ Terminate(h) \/ TerminateDone(h) \/ JoinRequested(h)
    \/ DetachRefused(h) \/ DetachReleases(h) \/ DetachFlags(h)
    \/ DetachOwned(h) \/ DetachOwnedDone(h)
    \/ thread_suspend(h) \/ thread_resume(h)

ThrNext ==
    \/ \E h \in ThrHandles : ThrCall(h)
    \/ \E k \in Threads : Start(k) \/ EntryReturns(k) \/ FinishOwned(k) \/ Finish(k)

ThrSpec == (\E os \in ThreadBuilds : ThrInit(os)) /\ [][ThrNext]_thrVars

------------------------------------------------------------------------------
ThrTypeOK ==
    /\ thrOs \in ThreadBuilds
    /\ thrRun \in [Threads -> {"unborn", "starting", "running", "suspended",
                                "returned", "parked", "ended", "gone"}]
    /\ thrHolds \in [Threads -> SUBSET {"slot", "ctx", "id"}]
    /\ thrSlot \in [Threads -> ThrSlots]
    /\ thrOwners \in [Threads -> 0 .. 2]
    /\ thrDetached \in [Threads -> BOOLEAN]
    /\ thrOf \in [ThrHandles -> Threads \cup {NoThread}]
    /\ thrPc \in [ThrHandles -> Joining \cup {"idle", "terminated", "detach_finished",
                                             "detach_running"}]

(* The memory a thread or a call on its handle is still going to use has    *)
(* not been given back, let alone to another thread: a trampoline that has  *)
(* yet to finish finds its control block or its context, the second step of *)
(* a FreeRTOS detach and a join find theirs, and nothing is freed twice.    *)
(* Concerns fr_thread_ctx_release_owner, thread_entry and the pool_release  *)
(* calls of the joins.                                                      *)
ThrMemoryIsThere ==
    /\ ThrTypeOK
    /\ \A k \in Threads :
          Executing(k) =>
            /\ Thr.block => "slot" \in thrHolds[k]
            /\ Thr.ctx = "after" \/ (Thr.ctx = "before" /\ thrRun[k] = "starting")
                 => "ctx" \in thrHolds[k]
    /\ \A h \in ThrHandles :
          thrOf[h] # NoThread =>
            (Thr.needs \cap {"slot", "id"}) \subseteq thrHolds[thrOf[h]]
    /\ \A k, l \in Threads :
          k # l /\ "slot" \in thrHolds[k] \cap thrHolds[l] => thrSlot[k] # thrSlot[l]

(* A bare-metal task that ended before it was detached keeps its slot for   *)
(* good: osal_thread_detach does not look at BM_TASK_FINISHED.              *)
LeakedTask(k) == Thr.detach = "flag" /\ thrDetached[k]

(* Once a thread is over and no handle leads to it any more, everything     *)
(* obtained for it has gone back, however the end of the thread, a timed    *)
(* join, a failed join and a detach were interleaved (fr_thread_wrapper_fn  *)
(* against osal_thread_detach on FreeRTOS), and a join that reported        *)
(* success left a thread that is over.  Left out: bare-metal tasks detached *)
(* after their end, which do leak, and the join of ChibiOS without          *)
(* CH_CFG_USE_WAITEXIT, which only asks the thread to stop.                 *)
ThrNothingStays ==
    /\ \A k \in Threads :
          Over(k) /\ (\A h \in ThrHandles : thrOf[h] # k) /\ ~LeakedTask(k)
             => thrHolds[k] = {}
    /\ thrRes.call = "join" /\ thrRes.result = "ok" /\ Thr.join # "request"
          => Over(thrRes.thread)

(* What a thread runs on is there while it runs, and given back, once, when *)
(* the thread and its handle are done with it.                              *)
ThreadMemoryIsExact == ThrMemoryIsThere /\ ThrNothingStays
==============================================================================
