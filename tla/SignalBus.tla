----------------------------- MODULE SignalBus -----------------------------
(***************************************************************************)
(* Publish and subscribe: osal_signal over the generic backend ("generic": *)
(* publish copies the message into every subscriber's queue) and           *)
(* zero_copy_signal over message_pool ("zero_copy": the queues hold the    *)
(* indices of reference-counted buffers).  A section under the signal's    *)
(* mutex_ is one step, but for publish, which holds it over all slots      *)
(* while receivers, who wait on their queue outside the lock, take from    *)
(* them.  A message is its number, so that any two can be told apart.      *)
(***************************************************************************)
EXTENDS Integers, Sequences, FiniteSets, FiniteSetsExt, SequencesExt

CONSTANTS SigKinds,    \* which of "generic", "zero_copy"
          Readers,     \* tasks that subscribe and receive
          SlotCount,   \* MaxSubscribers
          PerSub,      \* PerSubCapacity
          PoolSize,
          StampMod,    \* generations of a slot, ids of a zero-copy signal
          MaxSent      \* bound on the messages of one behaviour

ASSUME SigAssumption ==
  /\ SigKinds \subseteq {"generic", "zero_copy"}
  /\ {SlotCount, PerSub, PoolSize, StampMod, MaxSent} \subseteq Nat \ {0}

VARIABLES sigKind,
          sigUsed,       \* slot -> in_use_
          sigStamp,      \* slot -> generation_, or id
          sigNextId,     \* next_id_
          sigIds,        \* the ids that subscribe has handed out
          sigQueue,      \* slot -> its queue: [msg, buf]
          sigReceivers, sigBacklog,
          sigRefs,       \* buffer -> references
          sigBuf,        \* buffer -> the message in it
          sigPub,        \* the publisher: "idle", "loan", "retain", "send"
          sigLoan,       \* its buffer
          sigCursor,     \* the slot publish is at; 0: it does not hold mutex_
          sigAny,        \* some queue took the message
          sigPc, sigCall,   \* reader -> step, and the id of its receive
          sigGot,        \* reader -> what it took, or NoMsg
          sigHeld,       \* reader -> its read loans of it
          sigSent,       \* ghost: messages so far
          sigSince       \* ghost: slot -> the last message before it was subscribed

slotVars == <<sigUsed, sigStamp, sigNextId, sigIds, sigSince>>
pubVars == <<sigPub, sigLoan, sigCursor, sigAny, sigSent>>
readVars == <<sigPc, sigCall, sigGot, sigHeld>>
sigVars == <<sigKind, slotVars, sigQueue, sigReceivers, sigBacklog, sigRefs, sigBuf, pubVars, readVars>>

SigSlots == 1 .. SlotCount
Buffers == 1 .. PoolSize
NoMsg == [msg |-> 0, buf |-> 0]
NoId == [slot |-> 0, stamp |-> 0]
ZeroCopy == sigKind = "zero_copy"
Unlocked == sigCursor = 0
SigGoto(t, there) == sigPc' = [sigPc EXCEPT ![t] = there]

SigInit(kind) ==
  /\ sigKind = kind
  /\ sigUsed = [s \in SigSlots |-> FALSE]
  /\ sigStamp = [s \in SigSlots |-> 0]
  /\ sigNextId = 0 /\ sigIds = {}
  /\ sigQueue = [s \in SigSlots |-> <<>>]
  /\ sigReceivers = [s \in SigSlots |-> 0] /\ sigBacklog = [s \in SigSlots |-> 0]
  /\ sigRefs = [b \in Buffers |-> 0] /\ sigBuf = [b \in Buffers |-> 0]
  /\ sigPub = "idle" /\ sigLoan = NoMsg /\ sigCursor = 0 /\ sigAny = FALSE
  /\ sigPc = [t \in Readers |-> "idle"]
  /\ sigCall = [t \in Readers |-> NoId]
  /\ sigGot = [t \in Readers |-> NoMsg]
  /\ sigHeld = [t \in Readers |-> 0]
  /\ sigSent = 0 /\ sigSince = [s \in SigSlots |-> 0]
-----------------------------------------------------------------------------
(* subscribe takes the first free slot.  The generic one empties the queue *)
(* that its last subscriber left behind; the zero-copy one gives out a     *)
(* fresh id.                                                               *)
FreeSlots == {s \in SigSlots : ~sigUsed[s]}

Published == IF sigPub = "loan" THEN sigSent - 1 ELSE sigSent

Claimed(s, stamp) ==
  /\ sigUsed' = [sigUsed EXCEPT ![s] = TRUE]
  /\ sigStamp' = [sigStamp EXCEPT ![s] = stamp]
  /\ sigIds' = sigIds \cup {[slot |-> s, stamp |-> stamp]}
  /\ sigSince' = [sigSince EXCEPT ![s] = Published]
  /\ UNCHANGED <<sigKind, sigReceivers, sigBacklog, sigRefs, sigBuf, pubVars, readVars>>

subscribe_NoPurge ==
  /\ ~ZeroCopy /\ Unlocked /\ FreeSlots # {}
  /\ Claimed(Min(FreeSlots), sigStamp[Min(FreeSlots)])
  /\ UNCHANGED <<sigQueue, sigNextId>>

subscribe ==
  /\ ~ZeroCopy /\ Unlocked /\ FreeSlots # {}
  /\ Claimed(Min(FreeSlots), sigStamp[Min(FreeSlots)])
  /\ sigQueue' = [sigQueue EXCEPT ![Min(FreeSlots)] = <<>>]
  /\ UNCHANGED sigNextId

subscribe_loans ==
  /\ ZeroCopy /\ Unlocked /\ FreeSlots # {}
  /\ sigNextId < StampMod
  /\ Claimed(Min(FreeSlots), sigNextId)
  /\ sigNextId' = sigNextId + 1
  /\ UNCHANGED sigQueue

(* subscriber_id_matches_slot_, for ids that may be stale.                 *)
Matches(id) == sigUsed[id.slot] /\ sigStamp[id.slot] = id.stamp

(* unsubscribe is refused while a receive is in progress.  The generic one *)
(* advances the slot's generation (here it stops before it wraps), the     *)
(* zero-copy one gives back what is queued.                                *)
Queued(s, b) == Cardinality({i \in 1 .. Len(sigQueue[s]) : sigQueue[s][i].buf = b})

Leaves(id) ==
  /\ Unlocked /\ Matches(id)
  /\ sigReceivers[id.slot] = 0
  /\ sigUsed' = [sigUsed EXCEPT ![id.slot] = FALSE]
  /\ UNCHANGED <<sigKind, sigNextId, sigIds, sigSince, sigReceivers, sigBuf, pubVars, readVars>>

unsubscribe(id) ==
  /\ ~ZeroCopy
  /\ Leaves(id)
  /\ sigStamp[id.slot] + 1 < StampMod
  /\ sigStamp' = [sigStamp EXCEPT ![id.slot] = @ + 1]
  /\ UNCHANGED <<sigQueue, sigRefs, sigBacklog>>

unsubscribe_loans(id) ==
  /\ ZeroCopy
  /\ Leaves(id)
  /\ sigQueue' = [sigQueue EXCEPT ![id.slot] = <<>>]
  /\ sigRefs' = [b \in Buffers |-> sigRefs[b] - Queued(id.slot, b)]
  /\ sigBacklog' = [sigBacklog EXCEPT ![id.slot] = 0]
  /\ UNCHANGED sigStamp
-----------------------------------------------------------------------------
(* try_loan, and the producer writes its message; or it drops the loan.    *)
try_loan ==
  /\ ZeroCopy /\ sigPub = "idle" /\ sigSent < MaxSent
  /\ \E b \in Buffers :
        /\ sigRefs[b] = 0 /\ \A c \in 1 .. b - 1 : sigRefs[c] # 0
        /\ sigRefs' = [sigRefs EXCEPT ![b] = 1]
        /\ sigBuf' = [sigBuf EXCEPT ![b] = sigSent + 1]
        /\ sigLoan' = [msg |-> sigSent + 1, buf |-> b]
  /\ sigPub' = "loan"
  /\ sigSent' = sigSent + 1
  /\ UNCHANGED <<sigKind, slotVars, sigQueue, sigReceivers, sigBacklog, sigCursor, sigAny, readVars>>

DropLoan ==
  /\ sigPub = "loan"
  /\ sigRefs' = [sigRefs EXCEPT ![sigLoan.buf] = @ - 1]
  /\ sigPub' = "idle" /\ sigLoan' = NoMsg
  /\ UNCHANGED <<sigKind, slotVars, sigQueue, sigReceivers, sigBacklog, sigBuf, sigCursor, sigAny,
                 sigSent, readVars>>

(* publish, publish_zero_copy: mutex_, then slot after slot.               *)
NextUsed_Same(s) == {u \in SigSlots : u >= s /\ sigUsed[u]}

NextUsed(s) == {u \in SigSlots : u > s /\ sigUsed[u]}
ToSlot(s) ==
  IF NextUsed(s) # {}
  THEN sigCursor' = Min(NextUsed(s)) /\ sigPub' = IF ZeroCopy THEN "retain" ELSE "send"
  ELSE sigCursor' = SlotCount + 1 /\ sigPub' = "end"

publish ==
  /\ Unlocked
  /\ IF ZeroCopy
     THEN sigPub = "loan" /\ UNCHANGED <<sigLoan, sigSent>>
     ELSE /\ sigPub = "idle" /\ sigSent < MaxSent
          /\ sigLoan' = [msg |-> sigSent + 1, buf |-> 0]
          /\ sigSent' = sigSent + 1
  /\ sigAny' = FALSE
  /\ ToSlot(0)
  /\ UNCHANGED <<sigKind, slotVars, sigQueue, sigReceivers, sigBacklog, sigRefs, sigBuf, readVars>>

PublishRetain_Late ==
  /\ sigPub = "retain"
  /\ sigPub' = "send"
  /\ UNCHANGED <<sigKind, slotVars, sigQueue, sigReceivers, sigBacklog, sigRefs, sigBuf, sigLoan,
                 sigCursor, sigAny, sigSent, readVars>>

PublishRetain ==
  /\ sigPub = "retain"
  /\ sigRefs' = [sigRefs EXCEPT ![sigLoan.buf] = @ + 1]
  /\ sigPub' = "send"
  /\ UNCHANGED <<sigKind, slotVars, sigQueue, sigReceivers, sigBacklog, sigBuf, sigLoan, sigCursor,
                 sigAny, sigSent, readVars>>

(* try_send: a full queue drops the message for this subscriber.           *)
PublishSend ==
  /\ sigPub = "send"
  /\ IF Len(sigQueue[sigCursor]) < PerSub
     THEN /\ sigQueue' = [sigQueue EXCEPT ![sigCursor] = Append(@, sigLoan)]
          /\ sigBacklog' = IF ZeroCopy THEN [sigBacklog EXCEPT ![sigCursor] = @ + 1] ELSE sigBacklog
          /\ sigAny' = TRUE
          /\ UNCHANGED sigRefs
     ELSE /\ sigRefs' = IF ZeroCopy THEN [sigRefs EXCEPT ![sigLoan.buf] = @ - 1] ELSE sigRefs
          /\ UNCHANGED <<sigQueue, sigBacklog, sigAny>>
  /\ ToSlot(sigCursor)
  /\ UNCHANGED <<sigKind, slotVars, sigReceivers, sigBuf, sigLoan, sigSent, readVars>>

(* A loan that nobody accepted stays with the producer.                    *)
PublishEnd ==
  /\ sigPub = "end"
  /\ sigCursor' = 0
  /\ IF ZeroCopy /\ ~sigAny
     THEN sigPub' = "loan" /\ UNCHANGED <<sigLoan, sigRefs>>
     ELSE /\ sigPub' = "idle" /\ sigLoan' = NoMsg
          /\ sigRefs' = IF ZeroCopy THEN [sigRefs EXCEPT ![sigLoan.buf] = @ - 1] ELSE sigRefs
  /\ sigAny' = FALSE
  /\ UNCHANGED <<sigKind, slotVars, sigQueue, sigReceivers, sigBacklog, sigBuf, sigSent, readVars>>
-----------------------------------------------------------------------------
(* receive, receive_loan: counted in under the lock, waits without it, and *)
(* is counted out under the lock.                                          *)
receive(t, id) ==
  /\ Unlocked /\ sigPc[t] = "idle" /\ sigHeld[t] = 0
  /\ Matches(id)
  /\ sigReceivers' = [sigReceivers EXCEPT ![id.slot] = @ + 1]
  /\ sigCall' = [sigCall EXCEPT ![t] = id]
  /\ SigGoto(t, "wait")
  /\ UNCHANGED <<sigKind, slotVars, sigQueue, sigBacklog, sigRefs, sigBuf, pubVars, sigGot, sigHeld>>

ReceiveItem(t) ==
  /\ sigPc[t] = "wait"
  /\ LET s == sigCall[t].slot
     IN  /\ sigQueue[s] # <<>>
         /\ sigGot' = [sigGot EXCEPT ![t] = Head(sigQueue[s])]
         /\ sigQueue' = [sigQueue EXCEPT ![s] = Tail(@)]
  /\ SigGoto(t, "count")
  /\ UNCHANGED <<sigKind, slotVars, sigReceivers, sigBacklog, sigRefs, sigBuf, pubVars, sigCall, sigHeld>>

ReceiveTimesOut(t) ==
  /\ sigPc[t] = "wait"
  /\ SigGoto(t, "count")
  /\ UNCHANGED <<sigKind, slotVars, sigQueue, sigReceivers, sigBacklog, sigRefs, sigBuf, pubVars,
                 sigCall, sigGot, sigHeld>>

ReceiveDone(t) ==
  /\ Unlocked /\ sigPc[t] = "count"
  /\ LET s == sigCall[t].slot
         loan == ZeroCopy /\ sigGot[t] # NoMsg
     IN  /\ sigReceivers' = [sigReceivers EXCEPT ![s] = @ - 1]
         /\ sigBacklog' = IF loan THEN [sigBacklog EXCEPT ![s] = @ - 1] ELSE sigBacklog
         /\ sigHeld' = [sigHeld EXCEPT ![t] = IF loan THEN 1 ELSE 0]
         /\ sigGot' = IF loan THEN sigGot ELSE [sigGot EXCEPT ![t] = NoMsg]
  /\ sigCall' = [sigCall EXCEPT ![t] = NoId]
  /\ SigGoto(t, "idle")
  /\ UNCHANGED <<sigKind, slotVars, sigQueue, sigRefs, sigBuf, pubVars>>

(* try_receive of the generic signal: all of it under the lock.            *)
try_receive(id) ==
  /\ ~ZeroCopy /\ Unlocked /\ Matches(id) /\ sigQueue[id.slot] # <<>>
  /\ sigQueue' = [sigQueue EXCEPT ![id.slot] = Tail(@)]
  /\ UNCHANGED <<sigKind, slotVars, sigReceivers, sigBacklog, sigRefs, sigBuf, pubVars, readVars>>

(* read_loan: copied once, or released.                                    *)
CopyLoan(t) ==
  /\ sigHeld[t] = 1
  /\ sigRefs' = [sigRefs EXCEPT ![sigGot[t].buf] = @ + 1]
  /\ sigHeld' = [sigHeld EXCEPT ![t] = 2]
  /\ UNCHANGED <<sigKind, slotVars, sigQueue, sigReceivers, sigBacklog, sigBuf, pubVars, sigPc,
                 sigCall, sigGot>>

ReleaseLoan(t) ==
  /\ sigHeld[t] > 0
  /\ sigRefs' = [sigRefs EXCEPT ![sigGot[t].buf] = @ - 1]
  /\ sigHeld' = [sigHeld EXCEPT ![t] = @ - 1]
  /\ sigGot' = IF sigHeld[t] = 1 THEN [sigGot EXCEPT ![t] = NoMsg] ELSE sigGot
  /\ UNCHANGED <<sigKind, slotVars, sigQueue, sigReceivers, sigBacklog, sigBuf, pubVars, sigPc, sigCall>>
-----------------------------------------------------------------------------
SigNext ==
  \/ subscribe \/ subscribe_loans
  \/ \E id \in sigIds : unsubscribe(id) \/ unsubscribe_loans(id) \/ try_receive(id)
  \/ try_loan \/ DropLoan \/ publish \/ PublishRetain \/ PublishSend \/ PublishEnd
  \/ \E t \in Readers :
        \/ \E id \in sigIds : receive(t, id)
        \/ ReceiveItem(t) \/ ReceiveTimesOut(t) \/ ReceiveDone(t) \/ CopyLoan(t) \/ ReleaseLoan(t)
-----------------------------------------------------------------------------
SigTypeOK ==
  /\ sigUsed \in [SigSlots -> BOOLEAN]
  /\ \A s \in SigSlots : Len(sigQueue[s]) <= PerSub
  /\ sigReceivers \in [SigSlots -> 0 .. Cardinality(Readers)]
  /\ \A b \in Buffers : sigRefs[b] >= 0
  /\ sigPub \in {"idle", "loan", "retain", "send", "end"}
  /\ \A t \in Readers : sigPc[t] \in {"idle", "wait", "count"} /\ sigHeld[t] \in 0 .. 2

InFlight(t) == sigPc[t] = "count" /\ sigGot[t] # NoMsg

(* A subscriber gets the messages published after it subscribed, in their  *)
(* order and none twice, also when its slot was another's before; a        *)
(* receive that has been let in keeps its subscription; and a buffer holds *)
(* the message it was published with for as long as a queue, a receive in  *)
(* flight or a read loan refers to it, with exactly that many references.  *)
SigSound ==
  /\ SigTypeOK
  /\ \A s \in SigSlots : sigUsed[s] =>
        /\ \A i \in 1 .. Len(sigQueue[s]) : sigQueue[s][i].msg > sigSince[s]
        /\ \A i \in 1 .. Len(sigQueue[s]) - 1 : sigQueue[s][i].msg < sigQueue[s][i + 1].msg
  /\ \A t \in Readers : sigPc[t] # "idle" => Matches(sigCall[t]) /\ sigReceivers[sigCall[t].slot] > 0
  /\ ZeroCopy =>
        /\ \A b \in Buffers :
              sigRefs[b] =
                 (IF sigLoan.buf = b THEN IF sigPub = "send" THEN 2 ELSE 1 ELSE 0)
                 + MapThenSumSet(LAMBDA s : Queued(s, b), SigSlots)
                 + MapThenSumSet(LAMBDA t : IF sigGot[t].buf # b THEN 0
                                            ELSE IF InFlight(t) THEN 1 ELSE sigHeld[t], Readers)
        /\ \A s \in SigSlots :
              /\ \A i \in 1 .. Len(sigQueue[s]) : sigBuf[sigQueue[s][i].buf] = sigQueue[s][i].msg
              /\ sigBacklog[s] =
                    Len(sigQueue[s]) + Cardinality({t \in Readers : InFlight(t) /\ sigCall[t].slot = s})
        /\ \A t \in Readers : sigGot[t] # NoMsg => sigBuf[sigGot[t].buf] = sigGot[t].msg
=============================================================================
