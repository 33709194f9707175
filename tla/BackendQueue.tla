---------------------------- MODULE BackendQueue ----------------------------
(***************************************************************************)
(* osal_queue_send, receive, peek and their ISR variants of the fifteen    *)
(* backends: one state machine, and for each backend the record of what    *)
(* its source does.  Four designs keep the items:                          *)
(*   "direct"    the kernel's queue, or a ring under an interrupt lock     *)
(*               that a waiting call polls every tick;                     *)
(*   "monitor"   a ring under a mutex with the condition variables         *)
(*               not_full and not_empty, each signalled once per item;     *)
(*   "mailboxes" two mailboxes, free and ready, of indices into a store;   *)
(*   "counted"   the kernel's queue behind an atomic count that a send     *)
(*               raises before it puts and a receive lowers after it got.  *)
(* Creation and destruction are life cycles of BackendObjects.             *)
(***************************************************************************)
EXTENDS Integers, Sequences, FiniteSets

CONSTANTS QueTasks,
          Items,
          Capacity,
          NoItem,
          PeekMayWait   \* callers give peek a timeout (only the C API can)

ASSUME QueAssumption ==
  /\ IsFiniteSet(QueTasks)
  /\ Capacity \in Nat \ {0}
  /\ NoItem \notin Items
  /\ PeekMayWait \in BOOLEAN

VARIABLES queOs,     \* the backend this build is for
          queBuf,    \* the ring, or the kernel's queue
          queCache,  \* NuttX: the item that a peek has read ahead
          queFree,   \* ChibiOS: the mailbox of free indices,
          queReady,  \* of indices of queued items,
          queStore,  \* and the items
          queCount,  \* CMSIS-RTOS: slot->count
          quePc,
          queMode,   \* the timeout of the call in progress
          queItem,   \* the item in the caller's hands
          queIndex,  \* the index, or the count, the call has read
          queOut,    \* the item the last step delivered, if it did
          queRes     \* what the last step returned to its caller, if it returned

queVars == <<queOs, queBuf, queCache, queFree, queReady, queStore, queCount,
             quePc, queMode, queItem, queIndex, queOut, queRes>>

(* full, empty: a send that found no room and a receive that found nothing,*)
(* by the timeout it was given.  peek: "none", "now" (never waits) or      *)
(* "waits".  aborted: what a wait that the kernel ends returns.            *)
Queue(keeper, full, empty, peek, aborted) ==
  [keeper |-> keeper, full |-> full, empty |-> empty, peek |-> peek, aborted |-> aborted]

By(no_wait, isr, timed) == [no_wait |-> no_wait, isr |-> isr, timed |-> timed]
Late == By("timeout", "timeout", "timeout")
Block == By("would_block", "would_block", "timeout")

freertos_queue ==
  Queue("direct", By("timeout", "overflow", "timeout"), By("timeout", "underflow", "timeout"),
        "waits", "none")
zephyr_queue == Queue("direct", Late, Late, "now", "timeout")
cmsis_rtos2_queue == Queue("direct", Block, Block, "none", "timeout")
px5_queue == Queue("direct", Late, Late, "none", "timeout")
threadx_queue == Queue("direct", Late, Late, "none", "timeout")
vxworks_queue == Queue("direct", Late, Late, "none", "timeout")
qnx_queue == Queue("direct", Block, Block, "none", "would_block")

(* Rings under an interrupt lock.                                          *)
embos_queue == Queue("direct", Block, Block, "none", "none")
micrium_queue == Queue("direct", Block, Block, "none", "unknown")
bare_metal_queue ==
  Queue("direct", By("would_block", "would_block", "would_block"), Late, "now", "none")

posix_queue == Queue("monitor", Block, Block, "now", "none")
linux_queue == Queue("monitor", Block, Block, "now", "none")
nuttx_queue == Queue("monitor", Block, Block, "waits", "none")

chibios_queue == Queue("mailboxes", Block, Block, "none", "timeout")
cmsis_rtos_queue == Queue("counted", Block, Block, "none", "unknown")

QueueOf ==
  [freertos |-> freertos_queue, zephyr |-> zephyr_queue, posix |-> posix_queue,
   linux |-> linux_queue, nuttx |-> nuttx_queue, chibios |-> chibios_queue,
   embos |-> embos_queue, cmsis_rtos2 |-> cmsis_rtos2_queue, bare_metal |-> bare_metal_queue,
   micrium |-> micrium_queue, px5 |-> px5_queue, cmsis_rtos |-> cmsis_rtos_queue,
   qnx |-> qnx_queue, threadx |-> threadx_queue, vxworks |-> vxworks_queue]

Que == QueueOf[queOs]
Indices == 0 .. Capacity - 1

QueInit(os) ==
  /\ queOs = os
  /\ queBuf = <<>>
  /\ queCache = NoItem
  /\ queFree = [i \in 1 .. Capacity |-> i - 1]
  /\ queReady = <<>>
  /\ queStore = [i \in Indices |-> NoItem]
  /\ queCount = 0
  /\ quePc = [t \in QueTasks |-> "idle"]
  /\ queMode = [t \in QueTasks |-> "no_wait"]
  /\ queItem = [t \in QueTasks |-> NoItem]
  /\ queIndex = [t \in QueTasks |-> 0]
  /\ queOut = NoItem
  /\ queRes = "none"

boxes == <<queFree, queReady, queStore>>
shelf == <<queBuf, queCache>>

QueAt(t, here) == quePc[t] = here
QueGoto(t, there) ==
  /\ quePc' = [quePc EXCEPT ![t] = there]
  /\ queOut' = NoItem
  /\ queRes' = "none"
  /\ UNCHANGED queOs

(* The call of t returns; pc is the program counters it leaves behind.     *)
QueReturn(t, result, item, pc) ==
  /\ quePc' = [pc EXCEPT ![t] = "idle"]
  /\ queMode' = [queMode EXCEPT ![t] = "no_wait"]
  /\ queItem' = [queItem EXCEPT ![t] = NoItem]
  /\ queIndex' = [queIndex EXCEPT ![t] = 0]
  /\ queOut' = item
  /\ queRes' = result
  /\ UNCHANGED queOs

(* pthread_cond_signal wakes one of the sleepers, if there is one; it will *)
(* test its condition again.                                               *)
Again(here) == CASE here = "full" -> "send" [] here = "empty" -> "receive" [] here = "peek_empty" -> "peek"
Signalled(sleepers) ==
  IF Que.keeper # "monitor" \/ sleepers = {}
  THEN {quePc}
  ELSE {[quePc EXCEPT ![s] = Again(@)] : s \in sleepers}
OnNotFull == {s \in QueTasks : quePc[s] = "full"}
OnNotEmpty == {s \in QueTasks : quePc[s] \in {"empty", "peek_empty"}}

Shelved == Que.keeper \in {"direct", "monitor"}
Cached == IF queCache = NoItem THEN <<>> ELSE <<queCache>>
Room == Len(Cached) + Len(queBuf) < Capacity
Something == Cached \o queBuf # <<>>

-----------------------------------------------------------------------------
(* A call that may wait: the wait is over or ended by a step below.        *)
QueCall(t) ==
  /\ QueAt(t, "idle")
  /\ \E m \in {"forever", "timed"} \cup (IF Shelved THEN {} ELSE {"no_wait"}) :
        queMode' = [queMode EXCEPT ![t] = m]
  /\ \/ /\ \E v \in Items : queItem' = [queItem EXCEPT ![t] = v]
        /\ QueGoto(t, "send")
     \/ /\ QueGoto(t, "receive")
        /\ UNCHANGED queItem
     \/ /\ Que.peek = "waits" /\ PeekMayWait
        /\ QueGoto(t, "peek")
        /\ UNCHANGED queItem
  /\ UNCHANGED <<shelf, boxes, queCount, queIndex>>

(* osal_queue_send on a kernel queue or a ring: the guarded section.       *)
Enqueue_NoSignal(t, v) ==
  /\ Room
  /\ queBuf' = Append(queBuf, v)
  /\ QueReturn(t, "ok", NoItem, quePc)
  /\ UNCHANGED <<queCache, boxes, queCount>>

Enqueue(t, v) ==
  /\ Room
  /\ queBuf' = Append(queBuf, v)
  /\ \E pc \in Signalled(OnNotEmpty) : QueReturn(t, "ok", NoItem, pc)
  /\ UNCHANGED <<queCache, boxes, queCount>>

(* osal_queue_receive: NuttX takes the item that a peek has cached first.  *)
Dequeue_IgnoresCache(t) ==
  /\ queBuf # <<>>
  /\ queBuf' = Tail(queBuf)
  /\ \E pc \in Signalled(OnNotFull) : QueReturn(t, "ok", Head(queBuf), pc)
  /\ UNCHANGED <<queCache, boxes, queCount>>

Dequeue(t) ==
  /\ Something
  /\ IF queCache # NoItem
     THEN queCache' = NoItem /\ UNCHANGED queBuf
     ELSE queBuf' = Tail(queBuf) /\ UNCHANGED queCache
  /\ \E pc \in Signalled(OnNotFull) : QueReturn(t, "ok", Head(Cached \o queBuf), pc)
  /\ UNCHANGED <<boxes, queCount>>

(* osal_queue_peek: NuttX moves the front item to the cache.               *)
PeekFront(t) ==
  /\ Something
  /\ IF queOs = "nuttx" /\ queCache = NoItem
     THEN queCache' = Head(queBuf) /\ queBuf' = Tail(queBuf)
     ELSE UNCHANGED shelf
  /\ QueReturn(t, "ok", Head(Cached \o queBuf), quePc)
  /\ UNCHANGED <<boxes, queCount>>

ShelfStep(t) ==
  /\ Shelved
  /\ \/ QueAt(t, "send") /\ Enqueue(t, queItem[t])
     \/ QueAt(t, "receive") /\ Dequeue(t)
     \/ QueAt(t, "peek") /\ PeekFront(t)

(* The condition is false: a monitor's caller sleeps, and the condition    *)
(* variable may wake it for no reason.                                     *)
MonitorSleep(t) ==
  /\ Que.keeper = "monitor"
  /\ \/ QueAt(t, "send") /\ ~Room /\ QueGoto(t, "full")
     \/ QueAt(t, "receive") /\ ~Something /\ QueGoto(t, "empty")
     \/ QueAt(t, "peek") /\ ~Something /\ QueGoto(t, "peek_empty")
  /\ UNCHANGED <<shelf, boxes, queCount, queMode, queItem, queIndex>>

SpuriousWakeup(t) ==
  /\ quePc[t] \in {"full", "empty", "peek_empty"}
  /\ QueGoto(t, Again(quePc[t]))
  /\ UNCHANGED <<shelf, boxes, queCount, queMode, queItem, queIndex>>

(* Calls that do not wait, from a task or from an interrupt.               *)
SendNow(t) ==
  /\ Shelved /\ QueAt(t, "idle")
  /\ \/ \E v \in Items : Enqueue(t, v)
     \/ /\ ~Room
        /\ \E m \in {"no_wait", "isr"} : QueReturn(t, Que.full[m], NoItem, quePc)
        /\ UNCHANGED <<shelf, boxes, queCount>>

ReceiveNow(t) ==
  /\ Shelved /\ QueAt(t, "idle")
  /\ \/ Dequeue(t)
     \/ /\ ~Something
        /\ \E m \in {"no_wait", "isr"} : QueReturn(t, Que.empty[m], NoItem, quePc)
        /\ UNCHANGED <<shelf, boxes, queCount>>

PeekNow(t) ==
  /\ QueAt(t, "idle")
  /\ \/ Que.peek # "none" /\ PeekFront(t)
     \/ /\ Que.peek = "none" \/ ~Something
        /\ QueReturn(t, IF Que.peek = "none" THEN "not_supported" ELSE "would_block", NoItem, quePc)
        /\ UNCHANGED <<shelf, boxes, queCount>>

-----------------------------------------------------------------------------
(* ChibiOS: an index is fetched from one mailbox, used, and posted to the  *)
(* other one.                                                              *)
MailboxFetch_FreesEarly(t) ==
  /\ Que.keeper = "mailboxes" /\ QueAt(t, "receive") /\ queReady # <<>>
  /\ queIndex' = [queIndex EXCEPT ![t] = Head(queReady)]
  /\ queReady' = Tail(queReady)
  /\ queFree' = Append(queFree, Head(queReady))
  /\ QueGoto(t, "copy")
  /\ UNCHANGED <<shelf, queStore, queCount, queMode, queItem>>

MailboxFetch(t) ==
  /\ Que.keeper = "mailboxes"
  /\ \/ /\ QueAt(t, "send") /\ queFree # <<>>
        /\ queIndex' = [queIndex EXCEPT ![t] = Head(queFree)]
        /\ queFree' = Tail(queFree)
        /\ QueGoto(t, "fill")
        /\ UNCHANGED queReady
     \/ /\ QueAt(t, "receive") /\ queReady # <<>>
        /\ queIndex' = [queIndex EXCEPT ![t] = Head(queReady)]
        /\ queReady' = Tail(queReady)
        /\ QueGoto(t, "copy")
        /\ UNCHANGED queFree
  /\ UNCHANGED <<shelf, queStore, queCount, queMode, queItem>>

MailboxCopy(t) ==
  /\ \/ /\ QueAt(t, "fill")
        /\ queStore' = [queStore EXCEPT ![queIndex[t]] = queItem[t]]
        /\ QueGoto(t, "post")
        /\ UNCHANGED queItem
     \/ /\ QueAt(t, "copy")
        /\ queItem' = [queItem EXCEPT ![t] = queStore[queIndex[t]]]
        /\ QueGoto(t, "give_back")
        /\ UNCHANGED queStore
  /\ UNCHANGED <<shelf, queFree, queReady, queCount, queMode, queIndex>>

(* A post that fails gives a send's index back, and loses a receive's.     *)
MailboxPost(t) ==
  /\ \/ /\ QueAt(t, "post")
        /\ IF Len(queReady) < Capacity
           THEN /\ queReady' = Append(queReady, queIndex[t])
                /\ QueReturn(t, "ok", NoItem, quePc)
                /\ UNCHANGED queFree
           ELSE /\ queFree' = Append(queFree, queIndex[t])
                /\ QueReturn(t, "out_of_resources", NoItem, quePc)
                /\ UNCHANGED queReady
     \/ /\ QueAt(t, "give_back")
        /\ IF Len(queFree) < Capacity
           THEN /\ queFree' = Append(queFree, queIndex[t])
                /\ QueReturn(t, "ok", queItem[t], quePc)
           ELSE /\ QueReturn(t, "out_of_resources", NoItem, quePc)
                /\ UNCHANGED queFree
        /\ UNCHANGED queReady
  /\ UNCHANGED <<shelf, queStore, queCount>>

(* The ISR variants do all of it under chSysLockFromISR.                   *)
MailboxIsr(t) ==
  /\ Que.keeper = "mailboxes" /\ QueAt(t, "idle")
  /\ \/ /\ queFree # <<>>
        /\ \E v \in Items : queStore' = [queStore EXCEPT ![Head(queFree)] = v]
        /\ queReady' = Append(queReady, Head(queFree))
        /\ queFree' = Tail(queFree)
        /\ QueReturn(t, "ok", NoItem, quePc)
     \/ /\ queReady # <<>>
        /\ queFree' = Append(queFree, Head(queReady))
        /\ queReady' = Tail(queReady)
        /\ QueReturn(t, "ok", queStore[Head(queReady)], quePc)
        /\ UNCHANGED queStore
     \/ /\ queFree = <<>> \/ queReady = <<>>
        /\ QueReturn(t, "would_block", NoItem, quePc)
        /\ UNCHANGED boxes
  /\ UNCHANGED <<shelf, queCount>>

-----------------------------------------------------------------------------
(* CMSIS-RTOS: the count is loaded, raised by compare-and-swap and then the *)
(* item is put; whatever fails, a send that may not wait is over.          *)
CountLoad(t) ==
  /\ Que.keeper = "counted" /\ QueAt(t, "send")
  /\ queIndex' = [queIndex EXCEPT ![t] = queCount]
  /\ QueGoto(t, "swap")
  /\ UNCHANGED <<shelf, boxes, queCount, queMode, queItem>>

CountRetry(t) ==
  /\ \/ /\ queMode[t] # "forever"
        /\ QueReturn(t, Que.full[queMode[t]], NoItem, quePc)
     \/ /\ queMode[t] # "no_wait"
        /\ QueReturn(t, Que.aborted, NoItem, quePc)
     \/ /\ queMode[t] # "no_wait"
        /\ QueGoto(t, "send")
        /\ UNCHANGED <<queMode, queItem, queIndex>>

CountSwap(t) ==
  /\ QueAt(t, "swap")
  /\ IF queIndex[t] < Capacity /\ queIndex[t] = queCount
     THEN /\ queCount' = queCount + 1
          /\ QueGoto(t, "put")
          /\ UNCHANGED <<queMode, queItem, queIndex>>
     ELSE /\ CountRetry(t)
          /\ UNCHANGED queCount
  /\ UNCHANGED <<shelf, boxes>>

CountPut(t) ==
  /\ QueAt(t, "put")
  /\ IF Len(queBuf) < Capacity
     THEN /\ queBuf' = Append(queBuf, queItem[t])
          /\ QueReturn(t, "ok", NoItem, quePc)
          /\ UNCHANGED queCount
     ELSE /\ queCount' = queCount - 1
          /\ CountRetry(t)
          /\ UNCHANGED queBuf
  /\ UNCHANGED <<queCache, boxes>>

CountGet(t) ==
  /\ Que.keeper = "counted" /\ QueAt(t, "receive") /\ queBuf # <<>>
  /\ queItem' = [queItem EXCEPT ![t] = Head(queBuf)]
  /\ queBuf' = Tail(queBuf)
  /\ QueGoto(t, "settle")
  /\ UNCHANGED <<queCache, boxes, queCount, queMode, queIndex>>

CountSettle_Forgotten(t) ==
  /\ QueAt(t, "settle")
  /\ QueReturn(t, "ok", queItem[t], quePc)
  /\ UNCHANGED <<shelf, boxes, queCount>>

CountSettle(t) ==
  /\ QueAt(t, "settle")
  /\ queCount' = queCount - 1
  /\ QueReturn(t, "ok", queItem[t], quePc)
  /\ UNCHANGED <<shelf, boxes>>

-----------------------------------------------------------------------------
(* A wait ends without success: its time is up, or the kernel ended it.    *)
NothingToSend(t) ==
  CASE Que.keeper = "direct" -> QueAt(t, "send") /\ ~Room
    [] Que.keeper = "monitor" -> QueAt(t, "full")
    [] Que.keeper = "mailboxes" -> QueAt(t, "send") /\ queFree = <<>>
    [] OTHER -> FALSE
NothingToReceive(t) ==
  CASE Que.keeper = "direct" -> quePc[t] \in {"receive", "peek"} /\ ~Something
    [] Que.keeper = "monitor" -> quePc[t] \in {"empty", "peek_empty"}
    [] Que.keeper = "mailboxes" -> QueAt(t, "receive") /\ queReady = <<>>
    [] OTHER -> QueAt(t, "receive") /\ queBuf = <<>>

WaitOver(t) ==
  /\ queMode[t] # "forever"
  /\ \/ NothingToSend(t) /\ QueReturn(t, Que.full[queMode[t]], NoItem, quePc)
     \/ /\ NothingToReceive(t)
        /\ QueReturn(t, IF QueAt(t, "peek") THEN "would_block" ELSE Que.empty[queMode[t]], NoItem, quePc)
  /\ UNCHANGED <<shelf, boxes, queCount>>

WaitAborted(t) ==
  /\ queMode[t] # "no_wait" /\ Que.aborted # "none"
  /\ NothingToSend(t) \/ NothingToReceive(t)
  /\ QueReturn(t, IF Que.keeper = "counted" THEN Que.empty.timed ELSE Que.aborted, NoItem, quePc)
  /\ UNCHANGED <<shelf, boxes, queCount>>

QueStep(t) ==
  \/ ShelfStep(t) \/ MonitorSleep(t)
  \/ MailboxFetch(t) \/ MailboxCopy(t) \/ MailboxPost(t)
  \/ CountLoad(t) \/ CountSwap(t) \/ CountPut(t) \/ CountGet(t) \/ CountSettle(t)

QueNext ==
  \E t \in QueTasks :
     \/ QueCall(t) \/ SendNow(t) \/ ReceiveNow(t) \/ PeekNow(t) \/ MailboxIsr(t)
     \/ SpuriousWakeup(t) \/ WaitOver(t) \/ WaitAborted(t)
     \/ QueStep(t)

(* Calls are made freely; a call in progress goes on, and a wait for an    *)
(* item or for room is served if it can be served again and again.         *)
QueFairness == \A t \in QueTasks : SF_queVars(QueStep(t))

QueSpec == (\E os \in DOMAIN QueueOf : QueInit(os)) /\ [][QueNext]_queVars
-----------------------------------------------------------------------------
Sending == {"send", "full", "fill", "post", "swap", "put"}
Receiving == {"receive", "empty", "peek", "peek_empty", "copy", "give_back", "settle"}

Contents ==
  IF Que.keeper = "mailboxes"
  THEN [i \in 1 .. Len(queReady) |-> queStore[queReady[i]]]
  ELSE Cached \o queBuf

InHand(pcs) == {t \in QueTasks : quePc[t] \in pcs}

(* The shape of the state.  Every index of a ChibiOS queue is in exactly   *)
(* one place, so no post can fail; the count of a CMSIS-RTOS queue is the  *)
(* items in the kernel's queue and those on their way in or out.           *)
QueWellFormed ==
  /\ queOs \in DOMAIN QueueOf
  /\ queBuf \in Seq(Items) /\ queCache \in Items \cup {NoItem}
  /\ Len(Contents) <= Capacity
  /\ quePc \in [QueTasks -> {"idle"} \cup Sending \cup Receiving]
  /\ queMode \in [QueTasks -> {"forever", "timed", "no_wait"}]
  /\ queItem \in [QueTasks -> Items \cup {NoItem}]
  /\ Que.keeper = "mailboxes" =>
        \A i \in Indices :
           Cardinality({n \in 1 .. Len(queFree) : queFree[n] = i})
           + Cardinality({n \in 1 .. Len(queReady) : queReady[n] = i})
           + Cardinality({t \in InHand({"fill", "post", "copy", "give_back"}) : queIndex[t] = i}) = 1
  /\ Que.keeper = "counted" =>
        queCount = Len(queBuf) + Cardinality(InHand({"put", "settle"}))

(* What a send in progress wants to append, and what a receive in progress *)
(* has taken and not returned yet.                                         *)
Offered == [t \in QueTasks |-> IF quePc[t] \in Sending THEN queItem[t] ELSE NoItem]
Held ==
  [t \in QueTasks |-> CASE quePc[t] = "copy" -> queStore[queIndex[t]]
                       [] quePc[t] \in {"give_back", "settle"} -> queItem[t]
                       [] OTHER -> NoItem]

Fifo == INSTANCE AbstractQueue WITH
  Tasks <- QueTasks, Values <- Items, Bound <- Capacity, NoValue <- NoItem,
  items <- Contents, out <- queOut, offer <- Offered, held <- Held

(* Every backend's queue is the bounded FIFO of AbstractQueue: no item is  *)
(* lost, duplicated, overtaken or overwritten while it is being copied.    *)
ImplementsQueue == Fifo!AbsSpec

(* A receive that waits for ever does not wait while the queue holds items *)
(* that nobody else takes, nor a send while the queue has room.  (The send *)
(* of CMSIS-RTOS is left out: it may lose its compare-and-swap each time.)  *)
QueueServed ==
  \A t \in QueTasks :
     /\ (queMode[t] = "forever" /\ quePc[t] \in {"receive", "empty"} /\ Contents # <<>>)
           ~> (quePc[t] \notin {"receive", "empty"} \/ Contents = <<>>)
     /\ (Que.keeper # "counted" /\ queMode[t] = "forever" /\ quePc[t] \in Sending /\ Len(Contents) < Capacity)
           ~> (quePc[t] \notin Sending \/ Len(Contents) >= Capacity)

(* osal::queue::try_send returns "true if enqueued; false if the queue was *)
(* full".                                                                  *)
TrySendFalseMeansFull ==
  [][queRes' \in {"would_block", "overflow"} /\ (\E t \in QueTasks : quePc[t] \in {"swap", "put"} /\ quePc'[t] = "idle")
        => Len(Contents) + Cardinality(InHand({"put"})) >= Capacity]_queVars
=============================================================================
