------------------------- MODULE BackendQueueProofs -------------------------
(***************************************************************************)
(* The queue of each of the fifteen backends implements the bounded FIFO   *)
(* of AbstractQueue, for every number of tasks, set of items and capacity. *)
(***************************************************************************)
EXTENDS BackendQueue, FiniteSetTheorems, TLAPS

Carrying == {"fill", "post", "copy", "give_back"}
Counting == {"swap", "put", "settle"}
Sleeping == {"full", "empty", "peek_empty"}

QueTypes ==
  /\ queOs \in DOMAIN QueueOf
  /\ queBuf \in Seq(Items)
  /\ queCache \in Items \cup {NoItem}
  /\ queFree \in Seq(Indices)
  /\ queReady \in Seq(Indices)
  /\ queStore \in [Indices -> Items \cup {NoItem}]
  /\ quePc \in [QueTasks -> {"idle"} \cup Sending \cup Receiving]
  /\ queItem \in [QueTasks -> Items \cup {NoItem}]

(* queIndex is an index only while its task carries one.                   *)
IndexTypes ==
  /\ DOMAIN queIndex = QueTasks
  /\ \A t \in QueTasks : quePc[t] \in Carrying => queIndex[t] \in Indices

(* Each design has its own places in a call, and only NuttX, a monitor,    *)
(* has a cache.                                                            *)
PlacesFit ==
  /\ queCache # NoItem => Que.keeper = "monitor"
  /\ \A t \in QueTasks :
       /\ quePc[t] \in Carrying => Que.keeper = "mailboxes"
       /\ quePc[t] \in Counting => Que.keeper = "counted"
       /\ quePc[t] \in Sleeping => Que.keeper = "monitor"
       /\ quePc[t] = "peek" => Shelved

(* A call that sends has an item, and so has one that has received.        *)
HandsFull ==
  \A t \in QueTasks :
    quePc[t] \in Sending \cup {"give_back", "settle"} => queItem[t] \in Items

InBox(box, x) == \E n \in 1 .. Len(box) : box[n] = x
Distinct(box) == \A m, n \in 1 .. Len(box) : box[m] = box[n] => m = n

(* No index of a ChibiOS queue is in two places.                           *)
IndicesApart ==
  /\ Distinct(queFree) /\ Distinct(queReady)
  /\ \A x : ~ (InBox(queFree, x) /\ InBox(queReady, x))
  /\ \A t \in QueTasks :
       quePc[t] \in Carrying =>
         /\ ~ InBox(queFree, queIndex[t]) /\ ~ InBox(queReady, queIndex[t])
         /\ \A u \in QueTasks \ {t} : quePc[u] \in Carrying => queIndex[u] # queIndex[t]

(* What lies behind an index that is queued, being posted or being copied. *)
StoreFilled ==
  /\ \A x : InBox(queReady, x) => queStore[x] \in Items
  /\ \A t \in QueTasks :
       /\ quePc[t] = "copy" => queStore[queIndex[t]] \in Items
       /\ quePc[t] = "post" => queStore[queIndex[t]] = queItem[t]

QueIInv == QueTypes /\ IndexTypes /\ PlacesFit /\ HandsFull /\ IndicesApart /\ StoreFilled

-----------------------------------------------------------------------------
(* The designs of the fifteen backends, and which of them can peek.        *)
LEMMA Designs ==
  ASSUME NEW os \in DOMAIN QueueOf
  PROVE  /\ QueueOf[os].keeper \in {"direct", "monitor", "mailboxes", "counted"}
         /\ QueueOf[os].peek # "none" => QueueOf[os].keeper \in {"direct", "monitor"}
         /\ os = "nuttx" => QueueOf[os].keeper = "monitor"
  BY DEF QueueOf, Queue, freertos_queue, zephyr_queue, posix_queue, linux_queue, nuttx_queue,
         chibios_queue, embos_queue, cmsis_rtos2_queue, bare_metal_queue, micrium_queue,
         px5_queue, cmsis_rtos_queue, qnx_queue, threadx_queue, vxworks_queue

(* Sequences with one element in front.                                    *)
LEMMA InFront ==
  ASSUME NEW S, NEW c \in S, NEW b \in Seq(S)
  PROVE  /\ <<c>> \o b \in Seq(S)
         /\ <<c>> \o b # <<>>
         /\ Len(<<c>> \o b) = Len(b) + 1
         /\ Head(<<c>> \o b) = c
         /\ Tail(<<c>> \o b) = b
         /\ \A v \in S : Append(<<c>> \o b, v) = <<c>> \o Append(b, v)
  OBVIOUS

(* A sequence is a function on its positions.                              *)
LEMMA SeqIsFunction ==
  ASSUME NEW S, NEW s \in Seq(S)
  PROVE  Len(s) \in Nat /\ s \in [1 .. Len(s) -> S]
  OBVIOUS

(* Two sequences are equal when their elements are.                        *)
LEMMA SeqsEqual ==
  ASSUME NEW S, NEW a \in Seq(S), NEW b \in Seq(S), Len(a) = Len(b),
         \A i \in 1 .. Len(a) : a[i] = b[i]
  PROVE  a = b
  OBVIOUS

(* Nothing in front, and a sequence put together again.                    *)
LEMMA NoneInFront ==
  ASSUME NEW S, NEW b \in Seq(S)
  PROVE  /\ <<>> \o b = b
         /\ b # <<>> => <<Head(b)>> \o Tail(b) = b
<1>1. <<>> \o b = b
  OBVIOUS
<1>2. ASSUME b # <<>> PROVE <<Head(b)>> \o Tail(b) = b
  <2>1. <<Head(b)>> \in Seq(S) /\ Tail(b) \in Seq(S) /\ Len(b) > 0
    BY <1>2
  <2>2. Len(<<Head(b)>> \o Tail(b)) = Len(b)
    BY <2>1, <1>2
  <2>3. \A i \in 1 .. Len(b) : (<<Head(b)>> \o Tail(b))[i] = b[i]
    BY <2>1, <1>2
  <2>4. QED
    BY <2>1, <2>2, <2>3, SeqsEqual
<1>3. QED
  BY <1>1, <1>2, Zenon

(* An index that is not in a mailbox leaves room in it: no post fails.     *)
LEMMA RoomForIndex ==
  ASSUME NEW s \in Seq(Indices), NEW x \in Indices, Distinct(s), ~ InBox(s, x)
  PROVE  Len(s) < Capacity
<1>1. IsFiniteSet(Indices) /\ Cardinality(Indices) = Capacity
  <2>1. 0 \in Int /\ Capacity - 1 \in Int /\ ~ (0 > Capacity - 1)
    BY QueAssumption
  <2>2. QED
    BY <2>1, FS_Interval, QueAssumption DEF Indices
<1>2. IsFiniteSet(Indices \ {x}) /\ Cardinality(Indices \ {x}) = Capacity - 1
  BY <1>1, FS_RemoveElement, Zenon
<1>3. Len(s) \in Nat /\ s \in [1 .. Len(s) -> Indices \ {x}]
  BY DEF InBox
<1>4. s \in Injection(1 .. Len(s), Indices \ {x})
  BY <1>3, Zenon DEF Injection, IsInjective, Distinct
<1>5. Cardinality(1 .. Len(s)) <= Capacity - 1
  BY <1>2, <1>4, FS_Injection
<1>6. Cardinality(1 .. Len(s)) = Len(s)
  <2>1. 1 \in Int /\ Len(s) \in Int
    BY <1>3
  <2>2. Cardinality(1 .. Len(s)) = IF 1 > Len(s) THEN 0 ELSE Len(s) - 1 + 1
    BY <2>1, FS_Interval, Zenon
  <2>3. QED
    BY <1>3, <2>2
<1>7. QED
  BY <1>5, <1>6, QueAssumption

-----------------------------------------------------------------------------
(* What a step of t may do to another task: wake it.                       *)
Kept(before, after) ==
  \/ after = before
  \/ before = "full" /\ after = "send"
  \/ before = "empty" /\ after = "receive"
  \/ before = "peek_empty" /\ after = "peek"

Others(t) ==
  \A u \in QueTasks \ {t} :
    /\ Kept(quePc[u], quePc'[u])
    /\ queItem'[u] = queItem[u]
    /\ queIndex'[u] = queIndex[u]

LocalTypes ==
  /\ quePc' \in [QueTasks -> {"idle"} \cup Sending \cup Receiving]
  /\ queItem' \in [QueTasks -> Items \cup {NoItem}]
  /\ DOMAIN queIndex' = QueTasks

(* t is somewhere else; its locals and the other tasks are well.           *)
Moved(t, there) == Others(t) /\ LocalTypes /\ quePc'[t] = there /\ UNCHANGED queOs

(* The program counters after at most one waiter of a monitor was woken.   *)
Woken(pc) ==
  \/ pc = quePc
  \/ /\ Que.keeper = "monitor"
     /\ \E s \in QueTasks : quePc[s] \in Sleeping /\ pc = [quePc EXCEPT ![s] = Again(quePc[s])]

(* A condition variable is signalled only by a monitor.                    *)
LEMMA SignalWakes ==
  ASSUME QueIInv, NEW pc,
         pc \in Signalled(OnNotFull) \/ pc \in Signalled(OnNotEmpty)
  PROVE  Woken(pc)
  BY Zenon DEF Signalled, OnNotFull, OnNotEmpty, Woken, Sleeping

(* The return of a call, with or without a wake-up.                        *)
LEMMA ReturnMoves ==
  ASSUME QueIInv, NEW t \in QueTasks, NEW result, NEW item, NEW pc,
         Woken(pc), QueReturn(t, result, item, pc)
  PROVE  Moved(t, "idle") /\ queOut' = item
<1>1. /\ quePc' = [pc EXCEPT ![t] = "idle"]
      /\ queItem' = [queItem EXCEPT ![t] = NoItem]
      /\ queIndex' = [queIndex EXCEPT ![t] = 0]
      /\ queOut' = item /\ queOs' = queOs
  BY Zenon DEF QueReturn
<1>2. /\ pc \in [QueTasks -> {"idle"} \cup Sending \cup Receiving]
      /\ \A u \in QueTasks : Kept(quePc[u], pc[u])
  <2>1. CASE pc = quePc
    BY <2>1, Zenon DEF Kept, QueIInv, QueTypes
  <2>2. ASSUME NEW s \in QueTasks, quePc[s] \in Sleeping,
               pc = [quePc EXCEPT ![s] = Again(quePc[s])]
        PROVE  /\ pc \in [QueTasks -> {"idle"} \cup Sending \cup Receiving]
               /\ \A u \in QueTasks : Kept(quePc[u], pc[u])
    <3>1. /\ Again(quePc[s]) \in {"send", "receive", "peek"}
          /\ Kept(quePc[s], Again(quePc[s]))
      BY <2>2, Zenon DEF Sleeping, Again, Kept
    <3>2. QED
      BY <2>2, <3>1, Zenon DEF Kept, QueIInv, QueTypes, Sending, Receiving
  <2>3. QED
    BY <2>1, <2>2, Zenon DEF Woken
<1>3. LocalTypes
  BY <1>1, <1>2, Zenon DEF LocalTypes, QueIInv, QueTypes, IndexTypes
<1>4. Others(t)
  BY <1>1, <1>2, Zenon DEF Others, QueIInv, QueTypes, IndexTypes
<1>5. QED
  BY <1>1, <1>2, <1>3, <1>4, Zenon DEF Moved

(* A step inside a call.                                                   *)
LEMMA GotoMoves ==
  ASSUME QueIInv, NEW t \in QueTasks, NEW there \in Sending \cup Receiving, QueGoto(t, there),
         queItem' = queItem \/ \E v \in Items \cup {NoItem} : queItem' = [queItem EXCEPT ![t] = v],
         queIndex' = queIndex \/ \E n : queIndex' = [queIndex EXCEPT ![t] = n]
  PROVE  Moved(t, there) /\ queOut' = NoItem
<1>1. quePc' = [quePc EXCEPT ![t] = there] /\ queOut' = NoItem /\ queOs' = queOs
  BY Zenon DEF QueGoto
<1>2. LocalTypes
  BY <1>1, Zenon DEF LocalTypes, QueIInv, QueTypes, IndexTypes
<1>3. Others(t)
  BY <1>1, Zenon DEF Others, Kept, QueIInv, QueTypes, IndexTypes
<1>4. QED
  BY <1>1, <1>2, <1>3, Zenon DEF Moved, QueIInv, QueTypes

(* The abstract offers and holdings of the other tasks stay as they are.   *)
LEMMA ViewAfter ==
  ASSUME QueIInv, NEW t \in QueTasks, NEW there, Moved(t, there),
         \A u \in QueTasks \ {t} :
           quePc[u] = "copy" => queStore'[queIndex[u]] = queStore[queIndex[u]]
  PROVE  /\ \A v : Offered'[t] = v => Offered' = [Offered EXCEPT ![t] = v]
         /\ \A v : Held'[t] = v => Held' = [Held EXCEPT ![t] = v]
         /\ Offered'[t] = Offered[t] => Offered' = Offered
         /\ Held'[t] = Held[t] => Held' = Held
<1>1. \A u \in QueTasks \ {t} : Offered'[u] = Offered[u]
  BY Zenon DEF Moved, Others, Kept, Offered, Sending
<1>2. \A u \in QueTasks \ {t} : Held'[u] = Held[u]
  <2> SUFFICES ASSUME NEW u \in QueTasks \ {t} PROVE Held'[u] = Held[u]
    BY Zenon
  <2>1. CASE quePc'[u] = quePc[u]
    BY <2>1, Zenon DEF Moved, Others, Held
  <2>2. CASE quePc'[u] # quePc[u]
    BY <2>2, Zenon DEF Moved, Others, Kept, Held
  <2>3. QED
    BY <2>1, <2>2, Zenon
<1>3. /\ Offered = [u \in QueTasks |-> Offered[u]] /\ Offered' = [u \in QueTasks |-> Offered'[u]]
      /\ Held = [u \in QueTasks |-> Held[u]] /\ Held' = [u \in QueTasks |-> Held'[u]]
  BY Zenon DEF Offered, Held
<1>4. QED
  BY <1>1, <1>2, <1>3, Zenon

(* The abstract queue while its representation stays as it is.             *)
LEMMA ContentsKept ==
  ASSUME UNCHANGED <<queOs, queBuf, queCache, queReady>>,
         \A n \in 1 .. Len(queReady) : queStore'[queReady[n]] = queStore[queReady[n]]
  PROVE  Contents' = Contents
<1>1. CASE Que.keeper = "mailboxes"
  BY <1>1, Zenon DEF Contents, Que
<1>2. CASE Que.keeper # "mailboxes"
  BY <1>2, Zenon DEF Contents, Que, Cached
<1>3. QED
  BY <1>1, <1>2, Zenon

(* Steps that leave the mailboxes alone preserve the invariant.            *)
LEMMA PlainStep ==
  ASSUME QueIInv, NEW t \in QueTasks, NEW there, Moved(t, there), UNCHANGED boxes,
         queBuf' \in Seq(Items), queCache' \in Items \cup {NoItem},
         queCache' # NoItem => Que.keeper = "monitor",
         there \notin Carrying,
         there \in Counting => Que.keeper = "counted",
         there \in Sleeping => Que.keeper = "monitor",
         there = "peek" => Shelved,
         there \in Sending \cup {"settle"} => queItem'[t] \in Items
  PROVE  QueIInv'
<1>1. QueTypes'
  BY Zenon DEF QueIInv, QueTypes, Moved, LocalTypes, boxes
<1>2. Que' = Que /\ Shelved' = Shelved
  BY Zenon DEF Moved, Que, Shelved
<1>3. \A u \in QueTasks : quePc'[u] \in Carrying =>
        u # t /\ quePc[u] = quePc'[u] /\ queIndex'[u] = queIndex[u] /\ queItem'[u] = queItem[u]
  BY Zenon DEF Moved, Others, Kept, Carrying
<1>4. IndexTypes'
  BY <1>3, Zenon DEF QueIInv, IndexTypes, Moved, LocalTypes
<1>5. PlacesFit'
  <2>1. ASSUME NEW u \in QueTasks \ {t}
        PROVE  /\ quePc'[u] \in Carrying => Que.keeper = "mailboxes"
               /\ quePc'[u] \in Counting => Que.keeper = "counted"
               /\ quePc'[u] \in Sleeping => Que.keeper = "monitor"
               /\ quePc'[u] = "peek" => Shelved
    BY <2>1, Zenon DEF Moved, Others, Kept, QueIInv, PlacesFit, Shelved, Carrying, Counting, Sleeping
  <2>2. QED
    BY <1>2, <2>1, Zenon DEF PlacesFit, Moved
<1>6. HandsFull'
  <2>1. ASSUME NEW u \in QueTasks \ {t},
               quePc'[u] \in Sending \cup {"give_back", "settle"}
        PROVE  queItem'[u] \in Items
    BY <2>1, Zenon DEF Moved, Others, Kept, QueIInv, HandsFull, Sending
  <2>2. QED
    BY <2>1, Zenon DEF HandsFull, Moved, Carrying
<1>7. IndicesApart'
  BY <1>3, Zenon DEF QueIInv, IndicesApart, boxes
<1>8. StoreFilled'
  BY <1>3, Zenon DEF QueIInv, StoreFilled, boxes, Carrying
<1>9. QED
  BY <1>1, <1>4, <1>5, <1>6, <1>7, <1>8, Zenon DEF QueIInv

-----------------------------------------------------------------------------
(* A call that returns without an item: a send withdraws its offer.        *)
LEMMA EndStep ==
  ASSUME QueIInv, NEW t \in QueTasks, Moved(t, "idle"), UNCHANGED <<shelf, boxes>>,
         queOut' = NoItem, quePc[t] \notin {"copy", "give_back", "settle"}
  PROVE  QueIInv' /\ Fifo!AbsNext
<1>1. QueIInv'
  <2>1. UNCHANGED <<queBuf, queCache>>
    BY Zenon DEF shelf
  <2>2. QED
    BY <2>1, PlainStep, Zenon
    DEF QueIInv, QueTypes, PlacesFit, Carrying, Counting, Sleeping, Sending
<1>2. Contents' = Contents
  BY ContentsKept, Zenon DEF Moved, shelf, boxes
<1>3. UNCHANGED queStore
  BY Zenon DEF boxes
<1>4. Held'[t] = NoItem /\ Held[t] = NoItem /\ Offered'[t] = NoItem
  BY Zenon DEF Held, Offered, Moved, Sending
<1>5. Held' = Held
  BY <1>3, <1>4, ViewAfter, Zenon
<1>6. CASE quePc[t] \in Sending
  <2>1. Offered[t] # NoItem
    BY <1>6, QueAssumption, Zenon DEF Offered, QueIInv, HandsFull
  <2>2. Offered' = [Offered EXCEPT ![t] = NoItem]
    BY <1>3, <1>4, ViewAfter, Zenon
  <2>3. Fifo!Withdraw(t)
    BY <1>2, <1>5, <2>1, <2>2, Zenon DEF Fifo!Withdraw
  <2>4. QED
    BY <1>1, <2>3, Zenon DEF Fifo!AbsNext
<1>7. CASE quePc[t] \notin Sending
  <2>1. Offered[t] = NoItem
    BY <1>7, Zenon DEF Offered
  <2>2. Offered' = Offered
    BY <1>3, <1>4, <2>1, ViewAfter, Zenon
  <2>3. QED
    BY <1>1, <1>2, <1>5, <2>2, Zenon DEF Fifo!Quiet, Fifo!AbsNext
<1>8. QED
  BY <1>6, <1>7, Zenon

(* A step inside a call that neither offers nor takes anything.            *)
LEMMA InsideStep ==
  ASSUME QueIInv, NEW t \in QueTasks, NEW there, Moved(t, there), UNCHANGED <<shelf, boxes>>,
         queOut' = NoItem,
         quePc[t] \notin {"copy", "give_back", "settle"},
         there \notin Carrying \cup {"settle"},
         there \in Counting => Que.keeper = "counted",
         there \in Sleeping => Que.keeper = "monitor",
         there = "peek" => Shelved,
         there \in Sending <=> quePc[t] \in Sending,
         quePc[t] \in Sending => queItem'[t] = queItem[t]
  PROVE  QueIInv' /\ Fifo!AbsNext
<1>1. QueIInv'
  <2>1. UNCHANGED <<queBuf, queCache>>
    BY Zenon DEF shelf
  <2>2. there \in Sending => queItem'[t] \in Items
    BY Zenon DEF QueIInv, HandsFull
  <2>3. QED
    BY <2>1, <2>2, PlainStep, Zenon DEF QueIInv, QueTypes, PlacesFit
<1>2. Contents' = Contents
  BY ContentsKept, Zenon DEF Moved, shelf, boxes
<1>3. UNCHANGED queStore
  BY Zenon DEF boxes
<1>4. Held'[t] = Held[t] /\ Offered'[t] = Offered[t]
  <2>1. there \notin {"copy", "give_back", "settle"}
    BY Zenon DEF Carrying
  <2>2. QED
    BY <2>1, Zenon DEF Held, Offered, Moved
<1>5. Held' = Held /\ Offered' = Offered
  BY <1>3, <1>4, ViewAfter, Zenon
<1>6. QED
  BY <1>1, <1>2, <1>5, Zenon DEF Fifo!Quiet, Fifo!AbsNext

(* A call begins: a send offers its item.                                  *)
LEMMA CallStep ==
  ASSUME QueIInv, NEW t \in QueTasks, QueCall(t)
  PROVE  QueIInv' /\ Fifo!AbsNext
<1>1. quePc[t] = "idle" /\ UNCHANGED <<shelf, boxes, queIndex>>
  BY Zenon DEF QueCall, QueAt
<1>2. ASSUME NEW v \in Items, queItem' = [queItem EXCEPT ![t] = v], QueGoto(t, "send")
      PROVE  QueIInv' /\ Fifo!AbsNext
  <2>1. Moved(t, "send") /\ queOut' = NoItem
    BY <1>1, <1>2, GotoMoves, Zenon DEF Sending
  <2>2. queItem'[t] = v
    BY <1>2, Zenon DEF QueIInv, QueTypes
  <2>3. QueIInv'
    BY <1>1, <2>1, <2>2, PlainStep, Zenon
    DEF QueIInv, QueTypes, PlacesFit, Carrying, Counting, Sleeping, shelf
  <2>4. Contents' = Contents
    BY <1>1, <2>1, ContentsKept, Zenon DEF Moved, shelf, boxes
  <2>5. Offered[t] = NoItem /\ Offered'[t] = v /\ Held[t] = NoItem /\ Held'[t] = NoItem
    BY <1>1, <2>1, <2>2, Zenon DEF Offered, Held, Moved, Sending
  <2>6. Offered' = [Offered EXCEPT ![t] = v] /\ Held' = Held
    BY <1>1, <2>1, <2>5, ViewAfter, Zenon DEF boxes
  <2>7. Fifo!Offer(t)
    BY <2>1, <2>4, <2>5, <2>6, Zenon DEF Fifo!Offer
  <2>8. QED
    BY <2>3, <2>7, Zenon DEF Fifo!AbsNext
<1>3. ASSUME NEW there \in {"receive", "peek"}, QueGoto(t, there), UNCHANGED queItem,
             there = "peek" => Que.peek # "none"
      PROVE  QueIInv' /\ Fifo!AbsNext
  <2>1. Moved(t, there) /\ queOut' = NoItem
    BY <1>1, <1>3, GotoMoves, Zenon DEF Receiving
  <2>2. there = "peek" => Shelved
    BY <1>3, Designs, Zenon DEF Shelved, Que, QueIInv, QueTypes
  <2>3. QED
    BY <1>1, <1>3, <2>1, <2>2, InsideStep, Zenon DEF Carrying, Counting, Sleeping, Sending
<1>4. QED
  BY <1>2, <1>3, Zenon DEF QueCall

(* The items of a kernel queue or a ring, with NuttX's cache in front.     *)
LEMMA ShelfContents ==
  ASSUME QueIInv, Que.keeper # "mailboxes"
  PROVE  /\ Contents = Cached \o queBuf
         /\ Contents \in Seq(Items)
         /\ Len(Contents) = Len(Cached) + Len(queBuf)
         /\ queCache = NoItem => Contents = queBuf
         /\ queCache # NoItem => queCache \in Items /\ Contents = <<queCache>> \o queBuf
<1>1. Contents = Cached \o queBuf
  BY Zenon DEF Contents
<1>2. CASE queCache = NoItem
  <2>1. Cached = <<>>
    BY <1>2, Zenon DEF Cached
  <2>2. queBuf \in Seq(Items) /\ Len(queBuf) \in Nat
    BY DEF QueIInv, QueTypes
  <2>3. QED
    BY <1>1, <1>2, <2>1, <2>2, NoneInFront
<1>3. CASE queCache # NoItem
  <2>1. Cached = <<queCache>> /\ queCache \in Items /\ Len(Cached) = 1
    BY <1>3, Zenon DEF Cached, QueIInv, QueTypes
  <2>2. queBuf \in Seq(Items) /\ Len(queBuf) \in Nat
    BY DEF QueIInv, QueTypes
  <2>3. QED
    BY <1>1, <1>3, <2>1, <2>2, InFront
<1>4. QED
  BY <1>2, <1>3, Zenon

(* The guarded section of a send.                                          *)
LEMMA EnqueueStep ==
  ASSUME QueIInv, NEW t \in QueTasks, NEW v \in Items, Shelved, Enqueue(t, v),
         quePc[t] = "idle" \/ (quePc[t] = "send" /\ v = queItem[t])
  PROVE  QueIInv' /\ Fifo!AbsNext
<1>1. Room /\ queBuf' = Append(queBuf, v) /\ UNCHANGED <<queCache, boxes>>
  BY Zenon DEF Enqueue
<1>2. Moved(t, "idle") /\ queOut' = NoItem
  BY SignalWakes, ReturnMoves, Zenon DEF Enqueue
<1>3. Que.keeper # "mailboxes" /\ Que' = Que
  BY <1>2, Zenon DEF Shelved, Moved, Que
<1>4. QueIInv'
  <2>1. queBuf' \in Seq(Items)
    BY <1>1 DEF QueIInv, QueTypes
  <2>2. QED
    BY <1>1, <1>2, <2>1, PlainStep, Zenon
    DEF QueIInv, QueTypes, PlacesFit, Carrying, Counting, Sleeping, Sending
<1>5. Contents' = Append(Contents, v) /\ Len(Contents) < Capacity
  <2>1. Len(Contents) < Capacity
    BY <1>1, <1>3, ShelfContents, Zenon DEF Room
  <2>2. Contents' = Cached \o Append(queBuf, v)
    BY <1>1, <1>3, Zenon DEF Contents, Cached
  <2>3. queBuf \in Seq(Items) /\ Append(queBuf, v) \in Seq(Items)
    BY DEF QueIInv, QueTypes
  <2>4. CASE queCache = NoItem
    BY <1>3, <2>1, <2>2, <2>3, <2>4, ShelfContents, NoneInFront, Zenon DEF Cached
  <2>5. CASE queCache # NoItem
    BY <1>3, <2>1, <2>2, <2>3, <2>5, ShelfContents, InFront DEF Cached
  <2>6. QED
    BY <2>4, <2>5, <2>1, Zenon
<1>6. Held'[t] = NoItem /\ Held[t] = NoItem /\ Offered'[t] = NoItem
  BY <1>2, Zenon DEF Held, Offered, Moved, Sending
<1>7. Held' = Held /\ Offered' = [Offered EXCEPT ![t] = NoItem]
  BY <1>1, <1>2, <1>6, ViewAfter, Zenon DEF boxes
<1>8. CASE quePc[t] = "idle"
  <2>1. Offered' = Offered
    BY <1>1, <1>2, <1>6, <1>8, ViewAfter, Zenon DEF boxes, Offered, Sending
  <2>2. Fifo!PutNow
    BY <1>2, <1>5, <1>7, <2>1, Zenon DEF Fifo!PutNow
  <2>3. QED
    BY <1>4, <2>2, Zenon DEF Fifo!AbsNext
<1>9. CASE quePc[t] = "send" /\ v = queItem[t]
  <2>1. Offered[t] = v /\ v # NoItem
    BY <1>9, QueAssumption, Zenon DEF Offered, Sending
  <2>2. Fifo!Put(t)
    BY <1>2, <1>5, <1>7, <2>1, Zenon DEF Fifo!Put
  <2>3. QED
    BY <1>4, <2>2, Zenon DEF Fifo!AbsNext
<1>10. QED
  BY <1>8, <1>9, Zenon

(* The guarded section of a receive.                                       *)
LEMMA DequeueStep ==
  ASSUME QueIInv, NEW t \in QueTasks, Shelved, Dequeue(t), quePc[t] \in {"idle", "receive"}
  PROVE  QueIInv' /\ Fifo!AbsNext
<1>1. /\ Something /\ UNCHANGED boxes
      /\ IF queCache # NoItem THEN queCache' = NoItem /\ UNCHANGED queBuf
                              ELSE queBuf' = Tail(queBuf) /\ UNCHANGED queCache
  BY Zenon DEF Dequeue
<1>2. Moved(t, "idle") /\ queOut' = Head(Cached \o queBuf)
  BY SignalWakes, ReturnMoves, Zenon DEF Dequeue
<1>3. Que.keeper # "mailboxes" /\ Que' = Que
  BY <1>2, Zenon DEF Shelved, Moved, Que
<1>4. Contents # <<>> /\ queOut' = Head(Contents)
  BY <1>1, <1>2, <1>3, ShelfContents, Zenon DEF Something
<1>5. QueIInv' /\ Contents' = Tail(Contents)
  <2>1. CASE queCache # NoItem
    <3>1. QueIInv'
      BY <1>1, <1>2, <2>1, PlainStep, Zenon
      DEF QueIInv, QueTypes, PlacesFit, Carrying, Counting, Sleeping, Sending
    <3>2. Contents' = <<>> \o queBuf
      BY <1>1, <1>3, <2>1, Zenon DEF Contents, Cached
    <3>3. queBuf \in Seq(Items)
      BY Zenon DEF QueIInv, QueTypes
    <3>4. QED
      BY <1>3, <2>1, <3>1, <3>2, <3>3, ShelfContents, InFront, NoneInFront
  <2>2. CASE queCache = NoItem
    <3>1. Contents = queBuf /\ queBuf # <<>> /\ Tail(queBuf) \in Seq(Items)
      BY <1>3, <1>4, <2>2, ShelfContents DEF QueIInv, QueTypes
    <3>2. QueIInv'
      BY <1>1, <1>2, <2>2, <3>1, PlainStep, Zenon
      DEF QueIInv, QueTypes, PlacesFit, Carrying, Counting, Sleeping, Sending
    <3>3. Contents' = <<>> \o Tail(queBuf)
      BY <1>1, <1>3, <2>2, Zenon DEF Contents, Cached
    <3>4. QED
      BY <3>1, <3>2, <3>3, NoneInFront, Zenon
  <2>3. QED
    BY <2>1, <2>2, Zenon
<1>6. Held'[t] = Held[t] /\ Offered'[t] = Offered[t]
  BY <1>2, Zenon DEF Held, Offered, Moved, Sending
<1>7. Held' = Held /\ Offered' = Offered
  BY <1>1, <1>2, <1>6, ViewAfter, Zenon DEF boxes
<1>8. QED
  BY <1>4, <1>5, <1>7, Zenon DEF Fifo!Get, Fifo!AbsNext

(* A peek; NuttX's reads the front item ahead, which stays in front.       *)
LEMMA PeekStep ==
  ASSUME QueIInv, NEW t \in QueTasks, Shelved, PeekFront(t), quePc[t] \in {"idle", "peek"}
  PROVE  QueIInv' /\ Fifo!AbsNext
<1>1. Something /\ UNCHANGED boxes
  BY Zenon DEF PeekFront
<1>2. Moved(t, "idle") /\ queOut' = Head(Cached \o queBuf)
  BY ReturnMoves, Zenon DEF PeekFront, Woken
<1>3. Que.keeper # "mailboxes" /\ Que' = Que
  BY <1>2, Zenon DEF Shelved, Moved, Que
<1>4. Contents # <<>> /\ queOut' = Head(Contents)
  BY <1>1, <1>2, <1>3, ShelfContents, Zenon DEF Something
<1>5. QueIInv' /\ Contents' = Contents
  <2>1. CASE queOs = "nuttx" /\ queCache = NoItem
    <3>1. queCache' = Head(queBuf) /\ queBuf' = Tail(queBuf)
      BY <2>1, Zenon DEF PeekFront
    <3>2. Contents = queBuf /\ queBuf # <<>> /\ queBuf \in Seq(Items)
      BY <1>3, <1>4, <2>1, ShelfContents, Zenon DEF QueIInv, QueTypes
    <3>3. Head(queBuf) \in Items /\ Head(queBuf) # NoItem /\ Tail(queBuf) \in Seq(Items)
      BY <3>2, QueAssumption
    <3>4. Que.keeper = "monitor"
      BY <2>1, Designs, Zenon DEF Que, QueIInv, QueTypes
    <3>5. QueIInv'
      BY <1>1, <1>2, <3>1, <3>3, <3>4, PlainStep, Zenon DEF Carrying, Counting, Sleeping, Sending
    <3>6. Contents' = <<Head(queBuf)>> \o Tail(queBuf)
      BY <1>3, <3>1, <3>3, Zenon DEF Contents, Cached
    <3>7. QED
      BY <3>2, <3>5, <3>6, NoneInFront, Zenon
  <2>2. CASE ~ (queOs = "nuttx" /\ queCache = NoItem)
    <3>1. UNCHANGED <<queBuf, queCache>>
      BY <2>2, Zenon DEF PeekFront, shelf
    <3>2. QueIInv'
      BY <1>1, <1>2, <3>1, PlainStep, Zenon
      DEF QueIInv, QueTypes, PlacesFit, Carrying, Counting, Sleeping, Sending
    <3>3. Contents' = Contents
      BY <1>3, <3>1, Zenon DEF Contents, Cached
    <3>4. QED
      BY <3>2, <3>3, Zenon
  <2>3. QED
    BY <2>1, <2>2, Zenon
<1>6. Held'[t] = Held[t] /\ Offered'[t] = Offered[t]
  BY <1>2, Zenon DEF Held, Offered, Moved, Sending
<1>7. Held' = Held /\ Offered' = Offered
  BY <1>1, <1>2, <1>6, ViewAfter, Zenon DEF boxes
<1>8. QED
  BY <1>4, <1>5, <1>7, Zenon DEF Fifo!Peek, Fifo!AbsNext

(* Everything a kernel queue or a monitor does.                            *)
LEMMA ShelvedSteps ==
  ASSUME QueIInv, NEW t \in QueTasks,
         \/ ShelfStep(t) \/ MonitorSleep(t) \/ SpuriousWakeup(t)
         \/ SendNow(t) \/ ReceiveNow(t) \/ PeekNow(t)
  PROVE  QueIInv' /\ Fifo!AbsNext
<1>1. CASE ShelfStep(t)
  <2>1. quePc[t] = "send" => queItem[t] \in Items
    BY Zenon DEF QueIInv, HandsFull, Sending
  <2>2. QED
    BY <1>1, <2>1, EnqueueStep, DequeueStep, PeekStep, Zenon DEF ShelfStep, QueAt
<1>2. CASE MonitorSleep(t)
  <2>1. PICK there \in Sleeping :
          /\ QueGoto(t, there)
          /\ there \in Sending <=> quePc[t] \in Sending
          /\ quePc[t] \in {"send", "receive", "peek"}
    BY <1>2, Zenon DEF MonitorSleep, QueAt, Sleeping, Sending
  <2>2. UNCHANGED <<shelf, boxes, queItem, queIndex>> /\ Que.keeper = "monitor"
    BY <1>2, Zenon DEF MonitorSleep
  <2>3. there \in Sending \cup Receiving
    BY Zenon DEF Sleeping, Sending, Receiving
  <2>4. Moved(t, there) /\ queOut' = NoItem
    BY <2>1, <2>2, <2>3, GotoMoves, Zenon
  <2>5. there \notin Carrying \cup {"settle", "peek"} \cup Counting
    BY Zenon DEF Carrying, Sleeping, Counting
  <2>6. QED
    BY <2>1, <2>2, <2>4, <2>5, InsideStep, Zenon
<1>3. CASE SpuriousWakeup(t)
  <2>1. PICK there \in {"send", "receive", "peek"} :
          /\ QueGoto(t, there)
          /\ there \in Sending <=> quePc[t] \in Sending
          /\ quePc[t] \in Sleeping
    BY <1>3, Zenon DEF SpuriousWakeup, Again, Sleeping, Sending
  <2>2. UNCHANGED <<shelf, boxes, queItem, queIndex>>
    BY <1>3, Zenon DEF SpuriousWakeup
  <2>3. there \in Sending \cup Receiving
    BY Zenon DEF Sending, Receiving
  <2>4. Moved(t, there) /\ queOut' = NoItem
    BY <2>1, <2>2, <2>3, GotoMoves, Zenon
  <2>5. there \notin Carrying \cup Counting \cup Sleeping /\ Shelved
    BY <2>1, Zenon DEF Carrying, Sleeping, Counting, QueIInv, PlacesFit, Shelved
  <2>6. QED
    BY <2>1, <2>2, <2>4, <2>5, InsideStep, Zenon DEF Sleeping, Counting
<1>4. ASSUME quePc[t] = "idle", UNCHANGED <<shelf, boxes>>,
             \E result : QueReturn(t, result, NoItem, quePc)
      PROVE  QueIInv' /\ Fifo!AbsNext
  BY <1>4, ReturnMoves, EndStep, Zenon DEF Woken
<1>5. CASE SendNow(t)
  BY <1>4, <1>5, EnqueueStep, Zenon DEF SendNow, QueAt
<1>6. CASE ReceiveNow(t)
  BY <1>4, <1>6, DequeueStep, Zenon DEF ReceiveNow, QueAt
<1>7. CASE PeekNow(t)
  <2>1. Que.peek # "none" => Shelved
    BY Designs, Zenon DEF Shelved, Que, QueIInv, QueTypes
  <2>2. QED
    BY <1>4, <1>7, <2>1, PeekStep, Zenon DEF PeekNow, QueAt
<1>8. QED
  BY <1>1, <1>2, <1>3, <1>5, <1>6, <1>7, Zenon

(* A wait that ends without success.                                       *)
LEMMA WaitEnds ==
  ASSUME QueIInv, NEW t \in QueTasks, WaitOver(t) \/ WaitAborted(t)
  PROVE  QueIInv' /\ Fifo!AbsNext
<1>1. UNCHANGED <<shelf, boxes>> /\ (NothingToSend(t) \/ NothingToReceive(t))
  BY Zenon DEF WaitOver, WaitAborted
<1>2. \E result : QueReturn(t, result, NoItem, quePc)
  BY Zenon DEF WaitOver, WaitAborted
<1>3. quePc[t] \notin {"copy", "give_back", "settle"}
  BY <1>1, Zenon DEF NothingToSend, NothingToReceive, QueAt
<1>4. QED
  BY <1>1, <1>2, <1>3, ReturnMoves, EndStep, Zenon DEF Woken

-----------------------------------------------------------------------------
(* CMSIS-RTOS: the count decides when a send tries, the kernel's queue     *)
(* whether it succeeds.                                                    *)
LEMMA RetryStep ==
  ASSUME QueIInv, NEW t \in QueTasks, quePc[t] \in {"swap", "put"}, CountRetry(t),
         UNCHANGED <<shelf, boxes>>
  PROVE  QueIInv' /\ Fifo!AbsNext
<1>1. CASE \E result : QueReturn(t, result, NoItem, quePc)
  BY <1>1, ReturnMoves, EndStep, Zenon DEF Woken
<1>2. CASE QueGoto(t, "send") /\ UNCHANGED <<queItem, queIndex>>
  <2>1. Moved(t, "send") /\ queOut' = NoItem
    BY <1>2, GotoMoves, Zenon DEF Sending
  <2>2. QED
    BY <1>2, <2>1, InsideStep, Zenon DEF Carrying, Counting, Sleeping, Sending
<1>3. QED
  BY <1>1, <1>2, Zenon DEF CountRetry

(* The item is put, or a receiver takes one.                               *)
LEMMA CountedSteps ==
  ASSUME QueIInv, NEW t \in QueTasks,
         CountLoad(t) \/ CountSwap(t) \/ CountPut(t) \/ CountGet(t) \/ CountSettle(t)
  PROVE  QueIInv' /\ Fifo!AbsNext
<1>1. Que.keeper = "counted" /\ queCache = NoItem /\ UNCHANGED boxes
  BY Zenon DEF CountLoad, CountSwap, CountPut, CountGet, CountSettle, QueAt, QueIInv, PlacesFit, Counting
<1>2. queBuf \in Seq(Items) /\ Contents = queBuf
  BY <1>1, ShelfContents, Zenon DEF QueIInv, QueTypes
<1>3. ASSUME queOs' = queOs, queCache' = queCache, queBuf' \in Seq(Items)
      PROVE  Contents' = queBuf'
  <2>1. Contents' = <<>> \o queBuf'
    BY <1>1, <1>3, Zenon DEF Contents, Que, Cached
  <2>2. QED
    BY <1>3, <2>1, NoneInFront, Zenon
<1>4. CASE CountLoad(t)
  <2>1. Moved(t, "swap") /\ queOut' = NoItem /\ quePc[t] = "send" /\ UNCHANGED <<shelf, queItem>>
    BY <1>4, GotoMoves, Zenon DEF CountLoad, QueAt, Sending
  <2>2. QED
    BY <1>1, <2>1, InsideStep, Zenon DEF Carrying, Counting, Sleeping, Sending
<1>5. CASE CountSwap(t)
  <2>1. quePc[t] = "swap" /\ UNCHANGED shelf
    BY <1>5, Zenon DEF CountSwap, QueAt
  <2>2. CASE CountRetry(t)
    BY <1>1, <2>1, <2>2, RetryStep, Zenon
  <2>3. CASE QueGoto(t, "put") /\ UNCHANGED <<queItem, queIndex>>
    <3>1. Moved(t, "put") /\ queOut' = NoItem
      BY <2>3, GotoMoves, Zenon DEF Sending
    <3>2. QED
      BY <1>1, <2>1, <2>3, <3>1, InsideStep, Zenon DEF Carrying, Counting, Sleeping, Sending
  <2>4. QED
    BY <1>5, <2>2, <2>3, Zenon DEF CountSwap
<1>6. CASE CountPut(t)
  <2>1. quePc[t] = "put" /\ UNCHANGED queCache
    BY <1>6, Zenon DEF CountPut, QueAt
  <2>2. CASE Len(queBuf) < Capacity
    <3>1. queBuf' = Append(queBuf, queItem[t]) /\ QueReturn(t, "ok", NoItem, quePc)
      BY <1>6, <2>2, Zenon DEF CountPut
    <3>2. Moved(t, "idle") /\ queOut' = NoItem
      BY <3>1, ReturnMoves, Zenon DEF Woken
    <3>3. queItem[t] \in Items /\ queItem[t] # NoItem
      BY <2>1, QueAssumption, Zenon DEF QueIInv, HandsFull, Sending
    <3>4. queBuf' \in Seq(Items)
      BY <1>2, <3>1, <3>3
    <3>5. QueIInv'
      BY <1>1, <2>1, <3>2, <3>4, PlainStep, Zenon
      DEF QueIInv, QueTypes, PlacesFit, Carrying, Counting, Sleeping, Sending
    <3>6. Contents' = Append(Contents, queItem[t])
      BY <1>2, <1>3, <2>1, <3>1, <3>2, <3>4, Zenon DEF Moved
    <3>7. Offered[t] = queItem[t] /\ Offered'[t] = NoItem /\ Held[t] = Held'[t]
      BY <2>1, <3>2, Zenon DEF Offered, Held, Moved, Sending
    <3>8. Offered' = [Offered EXCEPT ![t] = NoItem] /\ Held' = Held
      BY <1>1, <3>2, <3>7, ViewAfter, Zenon DEF boxes
    <3>9. Fifo!Put(t)
      BY <1>2, <2>2, <3>2, <3>3, <3>6, <3>7, <3>8, Zenon DEF Fifo!Put
    <3>10. QED
      BY <3>5, <3>9, Zenon DEF Fifo!AbsNext
  <2>3. CASE ~ (Len(queBuf) < Capacity)
    <3>1. CountRetry(t) /\ UNCHANGED shelf
      BY <1>6, <2>1, <2>3, Zenon DEF CountPut, shelf
    <3>2. QED
      BY <1>1, <2>1, <3>1, RetryStep, Zenon
  <2>4. QED
    BY <2>2, <2>3, Zenon
<1>7. CASE CountGet(t)
  <2>1. /\ quePc[t] = "receive" /\ queBuf # <<>> /\ queBuf' = Tail(queBuf)
        /\ queItem' = [queItem EXCEPT ![t] = Head(queBuf)] /\ QueGoto(t, "settle")
        /\ UNCHANGED <<queCache, queIndex>>
    BY <1>7, Zenon DEF CountGet, QueAt
  <2>2. Head(queBuf) \in Items /\ Tail(queBuf) \in Seq(Items)
    BY <1>2, <2>1
  <2>3. Moved(t, "settle") /\ queOut' = NoItem
    BY <2>1, <2>2, GotoMoves, Zenon DEF Receiving
  <2>4. queItem'[t] = Head(queBuf)
    BY <2>1, Zenon DEF QueIInv, QueTypes
  <2>5. QueIInv'
    BY <1>1, <2>1, <2>2, <2>3, <2>4, PlainStep, Zenon
    DEF QueIInv, QueTypes, PlacesFit, Carrying, Counting, Sleeping, Sending
  <2>6. Contents' = Tail(Contents)
    BY <1>2, <1>3, <2>1, <2>2, <2>3, Zenon DEF Moved
  <2>7. /\ Offered[t] = NoItem /\ Offered'[t] = NoItem
        /\ Held[t] = NoItem /\ Held'[t] = Head(queBuf)
    BY <2>1, <2>3, <2>4, Zenon DEF Offered, Held, Moved, Sending
  <2>8. Offered' = Offered /\ Held' = [Held EXCEPT ![t] = Head(queBuf)]
    BY <1>1, <2>3, <2>7, ViewAfter, Zenon DEF boxes
  <2>9. Fifo!Take(t)
    BY <1>2, <2>1, <2>3, <2>6, <2>7, <2>8, Zenon DEF Fifo!Take
  <2>10. QED
    BY <2>5, <2>9, Zenon DEF Fifo!AbsNext
<1>8. CASE CountSettle(t)
  <2>1. quePc[t] = "settle" /\ QueReturn(t, "ok", queItem[t], quePc) /\ UNCHANGED shelf
    BY <1>8, Zenon DEF CountSettle, QueAt
  <2>2. Moved(t, "idle") /\ queOut' = queItem[t]
    BY <2>1, ReturnMoves, Zenon DEF Woken
  <2>3. QueIInv'
    BY <1>1, <2>1, <2>2, PlainStep, Zenon
    DEF QueIInv, QueTypes, PlacesFit, Carrying, Counting, Sleeping, Sending, shelf
  <2>4. Contents' = Contents
    BY <1>1, <2>1, <2>2, ContentsKept, Zenon DEF Moved, shelf, boxes
  <2>5. /\ Offered[t] = NoItem /\ Offered'[t] = NoItem
        /\ Held[t] = queItem[t] /\ Held'[t] = NoItem
    BY <2>1, <2>2, Zenon DEF Offered, Held, Moved, Sending
  <2>6. Offered' = Offered /\ Held' = [Held EXCEPT ![t] = NoItem]
    BY <1>1, <2>2, <2>5, ViewAfter, Zenon DEF boxes
  <2>7. Held[t] # NoItem
    BY <2>1, <2>5, QueAssumption, Zenon DEF QueIInv, HandsFull
  <2>8. Fifo!Deliver(t)
    BY <2>2, <2>4, <2>5, <2>6, <2>7, Zenon DEF Fifo!Deliver
  <2>9. QED
    BY <2>3, <2>8, Zenon DEF Fifo!AbsNext
<1>9. QED
  BY <1>4, <1>5, <1>6, <1>7, <1>8, Zenon

-----------------------------------------------------------------------------
(* Fetching from a mailbox, and posting to one.                            *)
LEMMA BoxTail ==
  ASSUME NEW s \in Seq(Indices), s # <<>>, Distinct(s)
  PROVE  /\ Head(s) \in Indices /\ Tail(s) \in Seq(Indices) /\ Len(Tail(s)) = Len(s) - 1
         /\ InBox(s, Head(s)) /\ Distinct(Tail(s))
         /\ \A x : InBox(Tail(s), x) => InBox(s, x) /\ x # Head(s)
<1>1. /\ Head(s) \in Indices /\ Tail(s) \in Seq(Indices) /\ Len(Tail(s)) = Len(s) - 1
      /\ \A i \in 1 .. Len(Tail(s)) : Tail(s)[i] = s[i + 1]
      /\ Len(s) \in Nat \ {0} /\ Head(s) = s[1]
  OBVIOUS
<1>2. InBox(s, Head(s))
  BY <1>1 DEF InBox
<1>3. Distinct(Tail(s))
  BY <1>1 DEF Distinct
<1>4. ASSUME NEW x, InBox(Tail(s), x) PROVE InBox(s, x) /\ x # Head(s)
  BY <1>1, <1>4 DEF InBox, Distinct
<1>5. QED
  BY <1>1, <1>2, <1>3, <1>4, Zenon

(* Posting an index that is in no mailbox keeps the mailbox without repeats.*)
LEMMA BoxAppend ==
  ASSUME NEW s \in Seq(Indices), NEW x \in Indices, Distinct(s), ~ InBox(s, x)
  PROVE  /\ Append(s, x) \in Seq(Indices) /\ Len(Append(s, x)) = Len(s) + 1
         /\ Distinct(Append(s, x))
         /\ \A y : InBox(Append(s, x), y) <=> InBox(s, y) \/ y = x
<1>1. /\ Append(s, x) \in Seq(Indices) /\ Len(Append(s, x)) = Len(s) + 1 /\ Len(s) \in Nat
      /\ \A i \in 1 .. Len(s) + 1 : Append(s, x)[i] = IF i = Len(s) + 1 THEN x ELSE s[i]
  OBVIOUS
<1>2. Distinct(Append(s, x))
  BY <1>1 DEF Distinct, InBox
<1>3. ASSUME NEW y PROVE InBox(Append(s, x), y) <=> InBox(s, y) \/ y = x
  BY <1>1 DEF InBox
<1>4. QED
  BY <1>1, <1>2, <1>3, Zenon

(* The items of a ChibiOS queue are those behind the ready indices.        *)
LEMMA BoxContents ==
  ASSUME QueIInv, Que.keeper = "mailboxes"
  PROVE  /\ Contents = [n \in 1 .. Len(queReady) |-> queStore[queReady[n]]]
         /\ Contents \in Seq(Items) /\ Len(Contents) = Len(queReady)
<1>1. Contents = [n \in 1 .. Len(queReady) |-> queStore[queReady[n]]]
  BY Zenon DEF Contents
<1>2. Len(queReady) \in Nat /\ \A n \in 1 .. Len(queReady) : queStore[queReady[n]] \in Items
  BY DEF QueIInv, QueTypes, StoreFilled, InBox
<1>3. QED
  BY <1>1, <1>2

(* Steps of the mailboxes preserve the invariant if they keep the indices  *)
(* apart and the store filled.                                             *)
LEMMA BoxStep ==
  ASSUME QueIInv, NEW t \in QueTasks, NEW there, Moved(t, there), UNCHANGED shelf,
         Que.keeper = "mailboxes",
         queFree' \in Seq(Indices), queReady' \in Seq(Indices),
         queStore' \in [Indices -> Items \cup {NoItem}],
         there \notin Counting \cup Sleeping \cup {"peek"},
         there \in Carrying => queIndex'[t] \in Indices,
         there \in Sending \cup {"give_back"} => queItem'[t] \in Items,
         IndicesApart', StoreFilled'
  PROVE  QueIInv'
<1>1. QueTypes'
  BY Zenon DEF QueIInv, QueTypes, Moved, LocalTypes, shelf
<1>2. Que' = Que /\ queCache' = queCache
  BY Zenon DEF Moved, Que, shelf
<1>3. IndexTypes'
  <2>1. ASSUME NEW u \in QueTasks \ {t}, quePc'[u] \in Carrying PROVE queIndex'[u] \in Indices
    BY <2>1, Zenon DEF Moved, Others, Kept, Carrying, QueIInv, IndexTypes
  <2>2. QED
    BY <2>1, Zenon DEF IndexTypes, Moved, LocalTypes
<1>4. PlacesFit'
  <2>1. ASSUME NEW u \in QueTasks
        PROVE  quePc'[u] \notin Counting \cup Sleeping \cup {"peek"}
    <3>1. \A v \in QueTasks : quePc[v] \notin Counting \cup Sleeping \cup {"peek"}
      BY Zenon DEF QueIInv, PlacesFit, Shelved
    <3>2. QED
      BY <3>1, Zenon DEF Moved, Others, Kept, Counting, Sleeping
  <2>2. queCache' = NoItem
    BY <1>2, Zenon DEF QueIInv, PlacesFit
  <2>3. QED
    BY <1>2, <2>1, <2>2, Zenon DEF PlacesFit
<1>5. HandsFull'
  <2>1. ASSUME NEW u \in QueTasks \ {t},
               quePc'[u] \in Sending \cup {"give_back", "settle"}
        PROVE  queItem'[u] \in Items
    BY <2>1, Zenon DEF Moved, Others, Kept, QueIInv, HandsFull, Sending
  <2>2. QED
    BY <2>1, Zenon DEF HandsFull, Moved, Counting
<1>6. QED
  BY <1>1, <1>3, <1>4, <1>5, Zenon DEF QueIInv

(* The other tasks keep the indices they carry.                            *)
LEMMA OthersCarry ==
  ASSUME QueIInv, NEW t \in QueTasks, NEW there, Moved(t, there)
  PROVE  \A u \in QueTasks \ {t} :
           /\ quePc'[u] \in Carrying <=> quePc[u] \in Carrying
           /\ quePc[u] \in Carrying =>
                /\ quePc'[u] = quePc[u] /\ queIndex'[u] = queIndex[u] /\ queItem'[u] = queItem[u]
                /\ queIndex[u] \in Indices
  BY Zenon DEF Moved, Others, Kept, Carrying, QueIInv, IndexTypes

(* The indices stay apart if the mailboxes do and t carries none of theirs. *)
LEMMA ApartAfter ==
  ASSUME QueIInv, NEW t \in QueTasks, NEW there, Moved(t, there),
         Distinct(queFree'), Distinct(queReady'),
         \A x : ~ (InBox(queFree', x) /\ InBox(queReady', x)),
         \A u \in QueTasks \ {t} : quePc[u] \in Carrying =>
            ~ InBox(queFree', queIndex[u]) /\ ~ InBox(queReady', queIndex[u]),
         there \in Carrying =>
            /\ ~ InBox(queFree', queIndex'[t]) /\ ~ InBox(queReady', queIndex'[t])
            /\ \A u \in QueTasks \ {t} : quePc[u] \in Carrying => queIndex[u] # queIndex'[t]
  PROVE  IndicesApart'
<1>1. \A u \in QueTasks \ {t} : quePc'[u] \in Carrying =>
        quePc[u] \in Carrying /\ queIndex'[u] = queIndex[u]
  BY OthersCarry, Zenon
<1>2. quePc'[t] = there
  BY Zenon DEF Moved
<1>3. \A u, v \in QueTasks \ {t} :
        quePc[u] \in Carrying /\ quePc[v] \in Carrying /\ u # v => queIndex[u] # queIndex[v]
  BY Zenon DEF QueIInv, IndicesApart
<1>4. ASSUME NEW u \in QueTasks, quePc'[u] \in Carrying
      PROVE  /\ ~ InBox(queFree', queIndex'[u]) /\ ~ InBox(queReady', queIndex'[u])
             /\ \A v \in QueTasks \ {u} : quePc'[v] \in Carrying => queIndex'[v] # queIndex'[u]
  <2>1. CASE u = t
    BY <1>1, <1>2, <1>4, <2>1, Zenon
  <2>2. CASE u # t
    BY <1>1, <1>2, <1>3, <1>4, <2>2, Zenon
  <2>3. QED
    BY <2>1, <2>2, Zenon
<1>5. QED
  BY <1>4, Zenon DEF IndicesApart

(* The store stays filled where the other tasks and the mailboxes look.    *)
LEMMA FilledAfter ==
  ASSUME QueIInv, NEW t \in QueTasks, NEW there, Moved(t, there),
         \A x : InBox(queReady', x) => queStore'[x] \in Items,
         \A u \in QueTasks \ {t} : quePc[u] \in Carrying =>
            queStore'[queIndex[u]] = queStore[queIndex[u]],
         there = "copy" => queStore'[queIndex'[t]] \in Items,
         there = "post" => queStore'[queIndex'[t]] = queItem'[t]
  PROVE  StoreFilled'
<1>1. ASSUME NEW u \in QueTasks \ {t}, quePc'[u] \in {"copy", "post"}
      PROVE  /\ quePc[u] = quePc'[u] /\ queIndex'[u] = queIndex[u] /\ queItem'[u] = queItem[u]
             /\ queStore'[queIndex[u]] = queStore[queIndex[u]]
  <2>1. quePc'[u] \in Carrying
    BY <1>1, Zenon DEF Carrying
  <2>2. QED
    BY <2>1, OthersCarry, Zenon
<1>2. ASSUME NEW u \in QueTasks
      PROVE  /\ quePc'[u] = "copy" => queStore'[queIndex'[u]] \in Items
             /\ quePc'[u] = "post" => queStore'[queIndex'[u]] = queItem'[u]
  <2>1. CASE u = t
    BY <2>1, Zenon DEF Moved
  <2>2. CASE u # t
    BY <1>1, <2>2 DEF QueIInv, StoreFilled
  <2>3. QED
    BY <2>1, <2>2, Zenon
<1>3. QED
  BY <1>2, Zenon DEF StoreFilled

(* A free index is fetched for an item that stays offered.                 *)
LEMMA FetchFreeStep ==
  ASSUME QueIInv, NEW t \in QueTasks, Que.keeper = "mailboxes",
         quePc[t] = "send", queFree # <<>>, queFree' = Tail(queFree),
         queIndex' = [queIndex EXCEPT ![t] = Head(queFree)], QueGoto(t, "fill"),
         UNCHANGED <<queReady, shelf, queStore, queItem>>
  PROVE  QueIInv' /\ Fifo!AbsNext
<1>1. Moved(t, "fill") /\ queOut' = NoItem
  BY GotoMoves, Zenon DEF Sending
<1>2. queIndex'[t] = Head(queFree) /\ quePc'[t] = "fill"
  BY <1>1, Zenon DEF QueIInv, IndexTypes, Moved
<1>3. queFree \in Seq(Indices) /\ queReady \in Seq(Indices) /\ Distinct(queFree)
  BY Zenon DEF QueIInv, QueTypes, IndicesApart
<1>4. IndicesApart'
  <2>1. Distinct(queFree') /\ Distinct(queReady')
    BY <1>3, BoxTail, Zenon DEF QueIInv, IndicesApart
  <2>2. \A x : ~ (InBox(queFree', x) /\ InBox(queReady', x))
    BY <1>3, BoxTail, Zenon DEF QueIInv, IndicesApart
  <2>3. ~ InBox(queFree', queIndex'[t]) /\ ~ InBox(queReady', queIndex'[t])
    BY <1>2, <1>3, BoxTail, Zenon DEF QueIInv, IndicesApart
  <2>4. ASSUME NEW u \in QueTasks \ {t}, quePc[u] \in Carrying
        PROVE  /\ ~ InBox(queFree', queIndex[u]) /\ ~ InBox(queReady', queIndex[u])
               /\ queIndex[u] # queIndex'[t]
    BY <1>2, <1>3, <2>4, BoxTail DEF QueIInv, IndicesApart
  <2>5. QED
    BY <1>1, <2>1, <2>2, <2>3, <2>4, ApartAfter, Zenon
<1>5. StoreFilled'
  <2>1. \A x : InBox(queReady', x) => queStore'[x] \in Items
    BY Zenon DEF QueIInv, StoreFilled
  <2>2. QED
    BY <1>1, <2>1, FilledAfter, Zenon
<1>6. QueIInv'
  <2>1. queItem'[t] \in Items
    BY Zenon DEF QueIInv, HandsFull, Sending
  <2>2. Head(queFree) \in Indices /\ Tail(queFree) \in Seq(Indices)
    BY <1>3, BoxTail, Zenon
  <2>3. QED
    BY <1>1, <1>2, <1>3, <1>4, <1>5, <2>1, <2>2, BoxStep, Zenon
    DEF Counting, Sleeping, QueIInv, QueTypes
<1>7. Contents' = Contents
  BY <1>1, ContentsKept, Zenon DEF Moved, shelf
<1>8. Offered'[t] = Offered[t] /\ Held'[t] = Held[t]
  BY <1>2, Zenon DEF Offered, Held, Sending
<1>9. Offered' = Offered /\ Held' = Held
  BY <1>1, <1>8, ViewAfter, Zenon
<1>10. QED
  BY <1>1, <1>6, <1>7, <1>9, Zenon DEF Fifo!Quiet, Fifo!AbsNext

(* Without its first ready index the queue is without its first item.      *)
LEMMA BoxContentsTail ==
  ASSUME QueIInv, Que.keeper = "mailboxes", queReady # <<>>,
         queReady' = Tail(queReady), UNCHANGED <<queOs, queStore>>
  PROVE  /\ Contents # <<>> /\ Head(Contents) = queStore[Head(queReady)]
         /\ Head(Contents) \in Items
         /\ Contents' = Tail(Contents)
<1>1. /\ queReady \in Seq(Indices) /\ Len(queReady) \in Nat \ {0}
      /\ Len(Tail(queReady)) = Len(queReady) - 1 /\ Tail(queReady) \in Seq(Indices)
      /\ \A i \in 1 .. Len(Tail(queReady)) : Tail(queReady)[i] = queReady[i + 1]
      /\ Head(queReady) = queReady[1]
  BY DEF QueIInv, QueTypes
<1>2. /\ Contents = [n \in 1 .. Len(queReady) |-> queStore[queReady[n]]]
      /\ Contents \in Seq(Items) /\ Len(Contents) = Len(queReady)
  BY BoxContents, Zenon
<1>3. Contents # <<>>
  BY <1>1, <1>2, Zenon
<1>4. Head(Contents) = queStore[Head(queReady)] /\ Head(Contents) \in Items
  BY <1>1, <1>2, <1>3
<1>5. Contents' = [n \in 1 .. Len(queReady) - 1 |-> queStore[queReady[n + 1]]]
  <2>1. Contents' = [n \in 1 .. Len(Tail(queReady)) |-> queStore[Tail(queReady)[n]]]
    BY Zenon DEF Contents, Que
  <2>2. QED
    BY <1>1, <2>1, Zenon
<1>6. /\ Tail(Contents) \in Seq(Items) /\ Len(Tail(Contents)) = Len(queReady) - 1
      /\ \A i \in 1 .. Len(queReady) - 1 : Tail(Contents)[i] = queStore[queReady[i + 1]]
  BY <1>1, <1>2, <1>3
<1>7. Tail(Contents) = [n \in 1 .. Len(queReady) - 1 |-> queStore[queReady[n + 1]]]
  <2>1. Tail(Contents) \in [1 .. Len(queReady) - 1 -> Items]
    BY <1>6, SeqIsFunction, Zenon
  <2>2. QED
    BY <1>6, <2>1, Zenon
<1>8. QED
  BY <1>3, <1>4, <1>5, <1>7, Zenon

(* A ready index is fetched: its item is taken.                            *)
LEMMA FetchReadyStep ==
  ASSUME QueIInv, NEW t \in QueTasks, Que.keeper = "mailboxes",
         quePc[t] = "receive", queReady # <<>>, queReady' = Tail(queReady),
         queIndex' = [queIndex EXCEPT ![t] = Head(queReady)], QueGoto(t, "copy"),
         UNCHANGED <<queFree, shelf, queStore, queItem>>
  PROVE  QueIInv' /\ Fifo!AbsNext
<1>1. Moved(t, "copy") /\ queOut' = NoItem
  BY GotoMoves, Zenon DEF Receiving
<1>2. queIndex'[t] = Head(queReady) /\ quePc'[t] = "copy"
  BY <1>1, Zenon DEF QueIInv, IndexTypes, Moved
<1>3. queFree \in Seq(Indices) /\ queReady \in Seq(Indices) /\ Distinct(queReady)
  BY Zenon DEF QueIInv, QueTypes, IndicesApart
<1>4. IndicesApart'
  <2>1. Distinct(queFree') /\ Distinct(queReady')
    BY <1>3, BoxTail, Zenon DEF QueIInv, IndicesApart
  <2>2. \A x : ~ (InBox(queFree', x) /\ InBox(queReady', x))
    BY <1>3, BoxTail, Zenon DEF QueIInv, IndicesApart
  <2>3. ~ InBox(queFree', queIndex'[t]) /\ ~ InBox(queReady', queIndex'[t])
    BY <1>2, <1>3, BoxTail DEF QueIInv, IndicesApart
  <2>4. ASSUME NEW u \in QueTasks \ {t}, quePc[u] \in Carrying
        PROVE  /\ ~ InBox(queFree', queIndex[u]) /\ ~ InBox(queReady', queIndex[u])
               /\ queIndex[u] # queIndex'[t]
    BY <1>2, <1>3, <2>4, BoxTail DEF QueIInv, IndicesApart
  <2>5. QED
    BY <1>1, <2>1, <2>2, <2>3, <2>4, ApartAfter, Zenon
<1>5. /\ Contents # <<>> /\ Head(Contents) = queStore[Head(queReady)]
      /\ Head(Contents) \in Items /\ Contents' = Tail(Contents)
  BY <1>1, BoxContentsTail, Zenon DEF Moved
<1>6. StoreFilled'
  <2>1. \A x : InBox(queReady', x) => queStore'[x] \in Items
    BY <1>3, BoxTail, Zenon DEF QueIInv, StoreFilled
  <2>2. QED
    BY <1>1, <1>2, <1>5, <2>1, FilledAfter, Zenon
<1>7. QueIInv'
  <2>1. Head(queReady) \in Indices /\ Tail(queReady) \in Seq(Indices)
    BY <1>3, BoxTail, Zenon
  <2>2. QED
    BY <1>1, <1>2, <1>3, <1>4, <1>6, <2>1, BoxStep, Zenon
    DEF Counting, Sleeping, Sending, QueIInv, QueTypes
<1>8. /\ Offered[t] = NoItem /\ Offered'[t] = NoItem
      /\ Held[t] = NoItem /\ Held'[t] = Head(Contents)
  BY <1>2, <1>5, Zenon DEF Offered, Held, Sending
<1>9. Offered' = Offered /\ Held' = [Held EXCEPT ![t] = Head(Contents)]
  BY <1>1, <1>8, ViewAfter, Zenon
<1>10. Fifo!Take(t)
  BY <1>1, <1>5, <1>8, <1>9, Zenon DEF Fifo!Take
<1>11. QED
  BY <1>7, <1>10, Zenon DEF Fifo!AbsNext

(* An item is written behind an index that nobody else can see, or read    *)
(* from one.                                                               *)
LEMMA CopyStep ==
  ASSUME QueIInv, NEW t \in QueTasks, MailboxCopy(t)
  PROVE  QueIInv' /\ Fifo!AbsNext
<1>1. UNCHANGED <<shelf, queFree, queReady, queIndex>> /\ quePc[t] \in {"fill", "copy"}
  BY Zenon DEF MailboxCopy, QueAt
<1>2. Que.keeper = "mailboxes" /\ queIndex[t] \in Indices /\ queIndex'[t] = queIndex[t]
  BY <1>1, Zenon DEF QueIInv, PlacesFit, IndexTypes, Carrying
<1>3. ASSUME NEW there \in Carrying, Moved(t, there) PROVE IndicesApart'
  <2>1. \A u \in QueTasks : (quePc'[u] \in Carrying <=> quePc[u] \in Carrying)
                            /\ queIndex'[u] = queIndex[u]
    BY <1>1, <1>3, OthersCarry, Zenon DEF Moved, Carrying
  <2>2. QED
    BY <1>1, <2>1, Zenon DEF QueIInv, IndicesApart
<1>4. CASE quePc[t] = "fill"
  <2>1. /\ queStore' = [queStore EXCEPT ![queIndex[t]] = queItem[t]]
        /\ QueGoto(t, "post") /\ UNCHANGED queItem
    BY <1>4, Zenon DEF MailboxCopy, QueAt
  <2>2. Moved(t, "post") /\ queOut' = NoItem /\ quePc'[t] = "post"
    BY <1>1, <2>1, GotoMoves, Zenon DEF Sending, Moved
  <2>3. queItem[t] \in Items
    BY <1>4, Zenon DEF QueIInv, HandsFull, Sending
  <2>4. /\ queStore' \in [Indices -> Items \cup {NoItem}]
        /\ queStore'[queIndex[t]] = queItem[t]
        /\ \A x \in Indices : x # queIndex[t] => queStore'[x] = queStore[x]
    BY <1>2, <2>1, <2>3, Zenon DEF QueIInv, QueTypes
  <2>5. \A x : InBox(queReady, x) => x \in Indices /\ x # queIndex[t]
    <3>1. queReady \in Seq(Indices) /\ ~ InBox(queReady, queIndex[t])
      BY <1>4, Zenon DEF QueIInv, QueTypes, IndicesApart, Carrying
    <3>2. \A n \in 1 .. Len(queReady) : queReady[n] \in Indices
      BY <3>1
    <3>3. QED
      BY <3>1, <3>2, Zenon DEF InBox
  <2>6. \A u \in QueTasks \ {t} : quePc[u] \in Carrying =>
          queIndex[u] \in Indices /\ queIndex[u] # queIndex[t]
    BY <1>4, Zenon DEF QueIInv, IndexTypes, IndicesApart, Carrying
  <2>7. StoreFilled'
    <3>1. \A x : InBox(queReady', x) => queStore'[x] \in Items
      BY <1>1, <2>4, <2>5, Zenon DEF QueIInv, StoreFilled
    <3>2. QED
      BY <1>2, <2>1, <2>2, <2>4, <2>6, <3>1, FilledAfter, Zenon
  <2>8. QueIInv'
    BY <1>1, <1>2, <1>3, <2>1, <2>2, <2>3, <2>4, <2>7, BoxStep, Zenon
    DEF Counting, Sleeping, Carrying, QueIInv, QueTypes
  <2>9. Contents' = Contents
    <3>1. \A n \in 1 .. Len(queReady) : queStore'[queReady[n]] = queStore[queReady[n]]
      BY <2>4, <2>5, Zenon DEF InBox
    <3>2. QED
      BY <1>1, <2>2, <3>1, ContentsKept, Zenon DEF Moved, shelf
  <2>10. Offered'[t] = Offered[t] /\ Held'[t] = Held[t]
    BY <1>4, <2>1, <2>2, Zenon DEF Offered, Held, Sending
  <2>11. Offered' = Offered /\ Held' = Held
    BY <2>2, <2>4, <2>6, <2>10, ViewAfter, Zenon DEF Carrying
  <2>12. QED
    BY <2>2, <2>8, <2>9, <2>11, Zenon DEF Fifo!Quiet, Fifo!AbsNext
<1>5. CASE quePc[t] = "copy"
  <2>1. /\ queItem' = [queItem EXCEPT ![t] = queStore[queIndex[t]]]
        /\ QueGoto(t, "give_back") /\ UNCHANGED queStore
    BY <1>5, Zenon DEF MailboxCopy, QueAt
  <2>2. queStore[queIndex[t]] \in Items
    BY <1>5, Zenon DEF QueIInv, StoreFilled
  <2>3. Moved(t, "give_back") /\ queOut' = NoItem /\ quePc'[t] = "give_back"
    BY <1>1, <2>1, <2>2, GotoMoves, Zenon DEF Receiving, Moved
  <2>4. queItem'[t] = queStore[queIndex[t]]
    BY <2>1, Zenon DEF QueIInv, QueTypes
  <2>5. StoreFilled'
    <3>1. \A y : InBox(queReady', y) => queStore'[y] \in Items
      BY <1>1, <2>1, Zenon DEF QueIInv, StoreFilled
    <3>2. QED
      BY <2>1, <2>3, <3>1, FilledAfter, Zenon
  <2>6. QueIInv'
    BY <1>1, <1>2, <1>3, <2>1, <2>2, <2>3, <2>4, <2>5, BoxStep, Zenon
    DEF Counting, Sleeping, Carrying, QueIInv, QueTypes
  <2>7. Contents' = Contents
    BY <1>1, <2>1, <2>3, ContentsKept, Zenon DEF Moved, shelf
  <2>8. Offered'[t] = Offered[t] /\ Held'[t] = Held[t]
    BY <1>5, <2>3, <2>4, Zenon DEF Offered, Held, Sending
  <2>9. Offered' = Offered /\ Held' = Held
    BY <2>1, <2>3, <2>8, ViewAfter, Zenon
  <2>10. QED
    BY <2>3, <2>6, <2>7, <2>9, Zenon DEF Fifo!Quiet, Fifo!AbsNext
<1>6. QED
  BY <1>1, <1>4, <1>5, Zenon

(* With another ready index the queue has its item at the end.             *)
LEMMA BoxContentsAppend ==
  ASSUME QueIInv, Que.keeper = "mailboxes", NEW x \in Indices, ~ InBox(queReady, x),
         queReady' = Append(queReady, x), UNCHANGED queOs,
         \A y \in Indices : y # x => queStore'[y] = queStore[y],
         queStore'[x] \in Items
  PROVE  /\ Len(Contents) < Capacity
         /\ Contents' = Append(Contents, queStore'[x])
<1>1. queReady \in Seq(Indices) /\ Len(queReady) \in Nat /\ Distinct(queReady)
  BY DEF QueIInv, QueTypes, IndicesApart
<1>2. /\ Contents = [n \in 1 .. Len(queReady) |-> queStore[queReady[n]]]
      /\ Contents \in Seq(Items) /\ Len(Contents) = Len(queReady)
  BY BoxContents, Zenon
<1>3. Len(Contents) < Capacity
  BY <1>1, <1>2, RoomForIndex, Zenon
<1>4. /\ Len(Append(queReady, x)) = Len(queReady) + 1
      /\ \A i \in 1 .. Len(queReady) + 1 :
           Append(queReady, x)[i] = IF i = Len(queReady) + 1 THEN x ELSE queReady[i]
  BY <1>1
<1>5. \A i \in 1 .. Len(queReady) : queReady[i] \in Indices /\ queReady[i] # x
  BY <1>1 DEF InBox
<1>6. Contents' = [n \in 1 .. Len(queReady) + 1 |->
                     IF n = Len(queReady) + 1 THEN queStore'[x] ELSE queStore[queReady[n]]]
  <2>1. Contents' = [n \in 1 .. Len(Append(queReady, x)) |-> queStore'[Append(queReady, x)[n]]]
    BY Zenon DEF Contents, Que
  <2>2. QED
    BY <1>1, <1>4, <1>5, <2>1
<1>7. Append(Contents, queStore'[x])
        = [n \in 1 .. Len(queReady) + 1 |->
             IF n = Len(queReady) + 1 THEN queStore'[x] ELSE queStore[queReady[n]]]
  BY <1>1, <1>2
<1>8. QED
  BY <1>3, <1>6, <1>7, Zenon

(* A task that ends carries no index any more.                             *)
LEMMA ApartAtTheEnd ==
  ASSUME QueIInv, NEW t \in QueTasks, Moved(t, "idle"), Distinct(queFree'), Distinct(queReady'),
         \A x : ~ (InBox(queFree', x) /\ InBox(queReady', x)),
         \A u \in QueTasks \ {t} : quePc[u] \in Carrying =>
            ~ InBox(queFree', queIndex[u]) /\ ~ InBox(queReady', queIndex[u])
  PROVE  IndicesApart'
<1>1. "idle" \notin Carrying
  BY Zenon DEF Carrying
<1>2. QED
  BY <1>1, ApartAfter, Zenon

(* The index is posted: the offered item is queued, or the item that was   *)
(* taken is delivered.                                                     *)
LEMMA PostStep ==
  ASSUME QueIInv, NEW t \in QueTasks, MailboxPost(t)
  PROVE  QueIInv' /\ Fifo!AbsNext
<1> DEFINE x == queIndex[t]
<1>1. UNCHANGED <<shelf, queStore>> /\ quePc[t] \in {"post", "give_back"}
  BY Zenon DEF MailboxPost, QueAt
<1>2. /\ Que.keeper = "mailboxes" /\ x \in Indices /\ ~ InBox(queFree, x) /\ ~ InBox(queReady, x)
      /\ \A u \in QueTasks \ {t} : quePc[u] \in Carrying =>
           /\ ~ InBox(queFree, queIndex[u]) /\ ~ InBox(queReady, queIndex[u]) /\ queIndex[u] # x
  BY <1>1, Zenon DEF QueIInv, PlacesFit, IndexTypes, IndicesApart, Carrying
<1>3. /\ queFree \in Seq(Indices) /\ queReady \in Seq(Indices)
      /\ Distinct(queFree) /\ Distinct(queReady)
      /\ \A y : ~ (InBox(queFree, y) /\ InBox(queReady, y))
  BY Zenon DEF QueIInv, QueTypes, IndicesApart
<1>4. queItem[t] \in Items /\ queItem[t] # NoItem
  BY <1>1, QueAssumption, Zenon DEF QueIInv, HandsFull, Sending
<1>5. CASE quePc[t] = "post"
  <2>1. Len(queReady) < Capacity
    BY <1>2, <1>3, RoomForIndex, Zenon
  <2>2. /\ queReady' = Append(queReady, x) /\ UNCHANGED queFree
        /\ QueReturn(t, "ok", NoItem, quePc)
    BY <1>5, <2>1, Zenon DEF MailboxPost, QueAt
  <2>3. Moved(t, "idle") /\ queOut' = NoItem /\ quePc'[t] = "idle"
    BY <2>2, ReturnMoves, Zenon DEF Woken, Moved
  <2>4. IndicesApart'
    BY <1>2, <1>3, <2>2, <2>3, BoxAppend, ApartAtTheEnd, Zenon
  <2>5. queStore[x] = queItem[t]
    BY <1>5, Zenon DEF QueIInv, StoreFilled
  <2>6. StoreFilled'
    <3>1. \A y : InBox(queReady', y) => queStore'[y] \in Items
      BY <1>1, <1>2, <1>3, <1>4, <2>2, <2>5, BoxAppend, Zenon DEF QueIInv, StoreFilled
    <3>2. QED
      BY <1>1, <2>3, <3>1, FilledAfter, Zenon
  <2>7. QueIInv'
    <3>1. queReady' \in Seq(Indices)
      BY <1>2, <1>3, <2>2, BoxAppend, Zenon
    <3>2. QED
      BY <1>1, <1>2, <1>3, <2>2, <2>3, <2>4, <2>6, <3>1, BoxStep, Zenon
      DEF Counting, Sleeping, Carrying, Sending, QueIInv, QueTypes
  <2>8. Len(Contents) < Capacity /\ Contents' = Append(Contents, queItem[t])
    BY <1>1, <1>2, <1>4, <2>2, <2>3, <2>5, BoxContentsAppend, Zenon DEF Moved
  <2>9. Offered[t] = queItem[t] /\ Offered'[t] = NoItem /\ Held[t] = NoItem /\ Held'[t] = NoItem
    BY <1>5, <2>3, Zenon DEF Offered, Held, Sending
  <2>10. Offered' = [Offered EXCEPT ![t] = NoItem] /\ Held' = Held
    BY <1>1, <2>3, <2>9, ViewAfter, Zenon
  <2>11. Fifo!Put(t)
    BY <1>4, <2>3, <2>8, <2>9, <2>10, Zenon DEF Fifo!Put
  <2>12. QED
    BY <2>7, <2>11, Zenon DEF Fifo!AbsNext
<1>6. CASE quePc[t] = "give_back"
  <2>1. Len(queFree) < Capacity
    BY <1>2, <1>3, RoomForIndex, Zenon
  <2>2. /\ queFree' = Append(queFree, x) /\ UNCHANGED queReady
        /\ QueReturn(t, "ok", queItem[t], quePc)
    BY <1>6, <2>1, Zenon DEF MailboxPost, QueAt
  <2>3. Moved(t, "idle") /\ queOut' = queItem[t] /\ quePc'[t] = "idle"
    BY <2>2, ReturnMoves, Zenon DEF Woken, Moved
  <2>4. IndicesApart'
    BY <1>2, <1>3, <2>2, <2>3, BoxAppend, ApartAtTheEnd, Zenon
  <2>5. StoreFilled'
    <3>1. \A y : InBox(queReady', y) => queStore'[y] \in Items
      BY <1>1, <2>2, Zenon DEF QueIInv, StoreFilled
    <3>2. QED
      BY <1>1, <2>3, <3>1, FilledAfter, Zenon
  <2>6. QueIInv'
    <3>1. queFree' \in Seq(Indices)
      BY <1>2, <1>3, <2>2, BoxAppend, Zenon
    <3>2. QED
      BY <1>1, <1>2, <1>3, <2>2, <2>3, <2>4, <2>5, <3>1, BoxStep, Zenon
      DEF Counting, Sleeping, Carrying, Sending, QueIInv, QueTypes
  <2>7. Contents' = Contents
    BY <1>1, <2>2, <2>3, ContentsKept, Zenon DEF Moved, shelf
  <2>8. Offered[t] = NoItem /\ Offered'[t] = NoItem /\ Held[t] = queItem[t] /\ Held'[t] = NoItem
    BY <1>6, <2>3, Zenon DEF Offered, Held, Sending
  <2>9. Offered' = Offered /\ Held' = [Held EXCEPT ![t] = NoItem]
    BY <1>1, <2>3, <2>8, ViewAfter, Zenon
  <2>10. Fifo!Deliver(t)
    BY <1>4, <2>3, <2>7, <2>8, <2>9, Zenon DEF Fifo!Deliver
  <2>11. QED
    BY <2>6, <2>10, Zenon DEF Fifo!AbsNext
<1>7. QED
  BY <1>1, <1>5, <1>6, Zenon

(* The ISR variants send or receive in one step.                           *)
LEMMA IsrStep ==
  ASSUME QueIInv, NEW t \in QueTasks, MailboxIsr(t)
  PROVE  QueIInv' /\ Fifo!AbsNext
<1>1. Que.keeper = "mailboxes" /\ quePc[t] = "idle" /\ UNCHANGED shelf
  BY Zenon DEF MailboxIsr, QueAt
<1>2. /\ queFree \in Seq(Indices) /\ queReady \in Seq(Indices)
      /\ Distinct(queFree) /\ Distinct(queReady)
      /\ \A y : ~ (InBox(queFree, y) /\ InBox(queReady, y))
      /\ \A u \in QueTasks : quePc[u] \in Carrying =>
           /\ ~ InBox(queFree, queIndex[u]) /\ ~ InBox(queReady, queIndex[u])
           /\ queIndex[u] \in Indices
  BY Zenon DEF QueIInv, QueTypes, IndicesApart, IndexTypes
<1>3. ASSUME queFree # <<>>, NEW v \in Items,
             queStore' = [queStore EXCEPT ![Head(queFree)] = v],
             queReady' = Append(queReady, Head(queFree)), queFree' = Tail(queFree),
             QueReturn(t, "ok", NoItem, quePc)
      PROVE  QueIInv' /\ Fifo!AbsNext
  <2> DEFINE x == Head(queFree)
  <2>1. Moved(t, "idle") /\ queOut' = NoItem /\ quePc'[t] = "idle"
    BY <1>3, ReturnMoves, Zenon DEF Woken, Moved
  <2>2. /\ x \in Indices /\ InBox(queFree, x) /\ ~ InBox(queReady, x)
        /\ Tail(queFree) \in Seq(Indices) /\ Distinct(Tail(queFree))
        /\ \A y : InBox(Tail(queFree), y) => InBox(queFree, y) /\ y # x
    BY <1>2, <1>3, BoxTail, Zenon
  <2>3. /\ queReady' \in Seq(Indices) /\ Distinct(queReady')
        /\ \A y : InBox(queReady', y) <=> InBox(queReady, y) \/ y = x
    BY <1>2, <1>3, <2>2, BoxAppend, Zenon
  <2>4. IndicesApart'
    BY <1>2, <1>3, <2>1, <2>2, <2>3, ApartAtTheEnd, Zenon
  <2>5. /\ queStore' \in [Indices -> Items \cup {NoItem}] /\ queStore'[x] = v
        /\ \A y \in Indices : y # x => queStore'[y] = queStore[y]
    BY <1>3, <2>2, Zenon DEF QueIInv, QueTypes
  <2>6. \A y : InBox(queReady, y) => y \in Indices /\ y # x
    BY <1>2, <2>2 DEF InBox
  <2>7. \A u \in QueTasks : quePc[u] \in Carrying => queIndex[u] # x
    BY <1>2, <2>2, Zenon
  <2>8. StoreFilled'
    <3>1. \A y : InBox(queReady', y) => queStore'[y] \in Items
      BY <2>3, <2>5, <2>6, Zenon DEF QueIInv, StoreFilled
    <3>2. \A u \in QueTasks \ {t} : quePc[u] \in Carrying =>
            queStore'[queIndex[u]] = queStore[queIndex[u]]
      BY <1>2, <2>5, <2>7, Zenon
    <3>3. QED
      BY <2>1, <3>1, <3>2, FilledAfter, Zenon
  <2>9. QueIInv'
    BY <1>1, <1>3, <2>1, <2>2, <2>3, <2>4, <2>5, <2>8, BoxStep, Zenon
    DEF Counting, Sleeping, Carrying, Sending
  <2>10. Len(Contents) < Capacity /\ Contents' = Append(Contents, v)
    BY <1>1, <1>3, <2>1, <2>2, <2>5, BoxContentsAppend, Zenon DEF Moved
  <2>11. Offered'[t] = Offered[t] /\ Held'[t] = Held[t]
    BY <1>1, <2>1, Zenon DEF Offered, Held, Sending
  <2>12. \A u \in QueTasks \ {t} :
           quePc[u] = "copy" => queStore'[queIndex[u]] = queStore[queIndex[u]]
    BY <1>2, <2>5, <2>7, Zenon DEF Carrying
  <2>13. Offered' = Offered /\ Held' = Held
    BY <2>1, <2>11, <2>12, ViewAfter, Zenon
  <2>14. QED
    BY <2>1, <2>9, <2>10, <2>13, Zenon DEF Fifo!PutNow, Fifo!AbsNext
<1>4. ASSUME queReady # <<>>, queFree' = Append(queFree, Head(queReady)),
             queReady' = Tail(queReady), UNCHANGED queStore,
             QueReturn(t, "ok", queStore[Head(queReady)], quePc)
      PROVE  QueIInv' /\ Fifo!AbsNext
  <2> DEFINE x == Head(queReady)
  <2>1. Moved(t, "idle") /\ queOut' = queStore[x] /\ quePc'[t] = "idle"
    BY <1>4, ReturnMoves, Zenon DEF Woken, Moved
  <2>2. /\ x \in Indices /\ InBox(queReady, x) /\ ~ InBox(queFree, x)
        /\ Tail(queReady) \in Seq(Indices) /\ Distinct(Tail(queReady))
        /\ \A y : InBox(Tail(queReady), y) => InBox(queReady, y) /\ y # x
    BY <1>2, <1>4, BoxTail, Zenon
  <2>3. /\ queFree' \in Seq(Indices) /\ Distinct(queFree')
        /\ \A y : InBox(queFree', y) <=> InBox(queFree, y) \/ y = x
    BY <1>2, <1>4, <2>2, BoxAppend, Zenon
  <2>4. IndicesApart'
    BY <1>2, <1>4, <2>1, <2>2, <2>3, ApartAtTheEnd, Zenon
  <2>5. StoreFilled'
    <3>1. \A y : InBox(queReady', y) => queStore'[y] \in Items
      BY <1>4, <2>2, Zenon DEF QueIInv, StoreFilled
    <3>2. QED
      BY <1>4, <2>1, <3>1, FilledAfter, Zenon
  <2>6. QueIInv'
    BY <1>1, <1>4, <2>1, <2>2, <2>3, <2>4, <2>5, BoxStep, Zenon
    DEF Counting, Sleeping, Carrying, Sending, QueIInv, QueTypes
  <2>7. Contents # <<>> /\ Head(Contents) = queStore[x] /\ Contents' = Tail(Contents)
    BY <1>1, <1>4, <2>1, BoxContentsTail, Zenon DEF Moved
  <2>8. Offered'[t] = Offered[t] /\ Held'[t] = Held[t]
    BY <1>1, <2>1, Zenon DEF Offered, Held, Sending
  <2>9. Offered' = Offered /\ Held' = Held
    BY <1>4, <2>1, <2>8, ViewAfter, Zenon
  <2>10. QED
    BY <2>1, <2>6, <2>7, <2>9, Zenon DEF Fifo!Get, Fifo!AbsNext
<1>5. ASSUME QueReturn(t, "would_block", NoItem, quePc), UNCHANGED boxes
      PROVE  QueIInv' /\ Fifo!AbsNext
  BY <1>1, <1>5, ReturnMoves, EndStep, Zenon DEF Woken
<1>6. QED
  BY <1>3, <1>4, <1>5, Zenon DEF MailboxIsr

-----------------------------------------------------------------------------
(* Every step of every backend.                                            *)
LEMMA QueStepHolds ==
  ASSUME QueIInv, [QueNext]_queVars
  PROVE  QueIInv' /\ [Fifo!AbsNext]_(Fifo!absVars)
<1>1. CASE UNCHANGED queVars
  <2>1. QueIInv'
    BY <1>1, Zenon DEF queVars, QueIInv, QueTypes, IndexTypes, PlacesFit, HandsFull, IndicesApart,
                StoreFilled, Que, Shelved
  <2>2. UNCHANGED Fifo!absVars
    BY <1>1, Zenon DEF queVars, Fifo!absVars, Contents, Offered, Held, Que, Cached
  <2>3. QED
    BY <2>1, <2>2, Zenon
<1>2. ASSUME NEW t \in QueTasks, MailboxFetch(t) PROVE QueIInv' /\ Fifo!AbsNext
  BY <1>2, FetchFreeStep, FetchReadyStep, Zenon DEF MailboxFetch, QueAt
<1>3. ASSUME NEW t \in QueTasks, QueStep(t) PROVE QueIInv' /\ Fifo!AbsNext
  BY <1>2, <1>3, ShelvedSteps, CopyStep, PostStep, CountedSteps, Zenon DEF QueStep
<1>4. CASE QueNext
  BY <1>3, <1>4, CallStep, ShelvedSteps, IsrStep, WaitEnds, Zenon DEF QueNext
<1>5. QED
  BY <1>1, <1>4, Zenon

(* osal_queue_create leaves every index free.                              *)
LEMMA QueInitHolds ==
  ASSUME NEW os \in DOMAIN QueueOf, QueInit(os)
  PROVE  QueIInv /\ Fifo!AbsInit
<1>1. /\ queOs = os /\ queBuf = <<>> /\ queCache = NoItem /\ queReady = <<>>
      /\ queFree = [i \in 1 .. Capacity |-> i - 1]
      /\ queStore = [i \in Indices |-> NoItem]
      /\ quePc = [t \in QueTasks |-> "idle"] /\ queItem = [t \in QueTasks |-> NoItem]
      /\ queIndex = [t \in QueTasks |-> 0] /\ queOut = NoItem
  BY Zenon DEF QueInit
<1>2. queFree \in Seq(Indices) /\ Len(queFree) = Capacity /\ Distinct(queFree)
  <2>1. \A i \in 1 .. Capacity : i - 1 \in Indices
    BY QueAssumption DEF Indices
  <2>2. queFree \in [1 .. Capacity -> Indices]
    BY <1>1, <2>1, Zenon
  <2>3. queFree \in Seq(Indices) /\ Len(queFree) = Capacity
    BY <2>2, QueAssumption
  <2>4. QED
    BY <1>1, <2>3, QueAssumption DEF Distinct
<1>3. QueTypes
  <2>1. queBuf \in Seq(Items) /\ queReady \in Seq(Indices)
    BY <1>1
  <2>2. QED
    BY <1>1, <1>2, <2>1, Zenon DEF QueTypes
<1>4. IndexTypes /\ PlacesFit /\ HandsFull
  BY <1>1, Zenon DEF IndexTypes, PlacesFit, HandsFull, Carrying, Counting, Sleeping, Sending
<1>5. ~ \E x : InBox(queReady, x)
  BY <1>1 DEF InBox
<1>6. IndicesApart /\ StoreFilled
  <2>1. Distinct(queReady)
    BY <1>1 DEF Distinct
  <2>2. \A t \in QueTasks : quePc[t] \notin Carrying /\ quePc[t] # "copy" /\ quePc[t] # "post"
    BY <1>1, Zenon DEF Carrying
  <2>3. QED
    BY <1>2, <1>5, <2>1, <2>2, Zenon DEF IndicesApart, StoreFilled
<1>7. Contents = <<>>
  <2>1. Len(queReady) = 0 /\ Cached = <<>>
    BY <1>1, Zenon DEF Cached
  <2>2. [i \in 1 .. 0 |-> queStore[queReady[i]]] = <<>>
    OBVIOUS
  <2>3. <<>> \o queBuf = <<>>
    BY <1>1
  <2>4. QED
    BY <2>1, <2>2, <2>3, Zenon DEF Contents
<1>8. Offered = [t \in QueTasks |-> NoItem] /\ Held = [t \in QueTasks |-> NoItem]
  BY <1>1, Zenon DEF Offered, Held, Sending
<1>9. QED
  BY <1>1, <1>3, <1>4, <1>6, <1>7, <1>8, Zenon DEF QueIInv, Fifo!AbsInit

(* osal_queue_send, receive and peek of every backend implement the        *)
(* bounded FIFO: no item is lost, duplicated, overtaken, or overwritten    *)
(* while it is being copied, whatever the tasks and interrupts do.         *)
THEOREM QueueRefines == QueSpec => ImplementsQueue
<1>1. (\E os \in DOMAIN QueueOf : QueInit(os)) => QueIInv /\ Fifo!AbsInit
  BY QueInitHolds, Zenon
<1>2. QueIInv /\ [QueNext]_queVars => QueIInv' /\ [Fifo!AbsNext]_(Fifo!absVars)
  BY QueStepHolds, Zenon
<1>3. QED
  BY <1>1, <1>2, PTL DEF QueSpec, ImplementsQueue, Fifo!AbsSpec
=============================================================================
