----------------------------- MODULE ByteBuffer -----------------------------
(***************************************************************************)
(* The emulated stream buffer (emulated_stream_buffer.inl) and message     *)
(* buffer (emulated_message_buffer.inl).  Both are a ring of capacity + 1  *)
(* bytes with a write index `head` that only the producer stores and a     *)
(* read index `tail` that only the consumer stores, and two binary         *)
(* semaphores on which the two sides sleep.  There is no lock: the bytes   *)
(* are copied before the index that hands them over is stored.             *)
(*                                                                         *)
(* Every load or store of an index that the other side also uses, every    *)
(* copy of bytes and every semaphore operation is a step of its own.  A    *)
(* message is a header of HeaderBytes cells, the first of which stands for *)
(* the encoded length, and its payload.                                    *)
(***************************************************************************)
EXTENDS Integers, Sequences

CONSTANTS Kinds,        \* which of the two objects are explored
          Capacity,     \* capacity
          Trigger,      \* trigger of the stream buffer
          HeaderBytes,  \* kMsgHeaderBytes
          LengthMax,    \* the largest value of osal_mb_length_t
          Lengths,      \* lengths that callers send and receive
          ByteValues    \* payload bytes are numbered modulo this

ASSUME KindsAssumption == Kinds \subseteq {"stream", "message"}
ASSUME CapacityAssumption == Capacity \in Nat \ {0}
ASSUME TriggerAssumption == Trigger \in 1 .. Capacity       \* valid_trigger_level
ASSUME HeaderAssumption == HeaderBytes \in 1 .. Capacity - 1
ASSUME LengthMaxAssumption == LengthMax \in Nat \ {0} /\ Capacity - HeaderBytes <= LengthMax
ASSUME LengthsAssumption == Lengths \subseteq Nat \ {0}
ASSUME ByteValuesAssumption == ByteValues \in Nat /\ ByteValues > Capacity

VARIABLES kind,       \* which object this is
          buf, head, tail, data_sem, space_sem,
          producer,   \* the producer's call: pc, mode, len and the bytes to write
          consumer,   \* the consumer's call: pc, mode, max_len, n, rest and out
          serial,     \* the number of the next payload byte
          pending,    \* what was sent and not received: bytes, or messages
          taken       \* what the receive in progress has to deliver

bufVars == <<kind, buf, head, tail, data_sem, space_sem, producer, consumer, serial, pending, taken>>

RingSize == Capacity + 1
Index == 0 .. Capacity

Modes == {"forever", "timed", "no_wait", "isr"}
Idle == [pc |-> "idle", mode |-> "isr", len |-> 0, bytes |-> <<>>]
AtEase == [pc |-> "idle", mode |-> "isr", max_len |-> 0, n |-> 0, rest |-> 0, out |-> <<>>]

BufInit ==
  /\ kind \in Kinds
  /\ buf = [i \in Index |-> 0]
  /\ head = 0 /\ tail = 0
  /\ data_sem = 0 /\ space_sem = 0
  /\ producer = Idle /\ consumer = AtEase
  /\ serial = 0 /\ pending = <<>> /\ taken = <<>>

-----------------------------------------------------------------------------
(* The ring helpers; the two-chunk copies across the end of the ring are   *)
(* copies at indices modulo its size.                                      *)
Advance(i, len) == IF i + len < RingSize THEN i + len ELSE i + len - RingSize

Distance(i, j) == IF j >= i THEN j - i ELSE RingSize - i + j

Available == Distance(tail, head)
FreeBytes == Capacity - Available

CopyIn(i, bytes) ==
  [j \in Index |-> IF Distance(i, j) < Len(bytes) THEN bytes[Distance(i, j) + 1] ELSE buf[j]]
CopyOut(i, len) == [k \in 1 .. len |-> buf[Advance(i, k - 1)]]

(* The binary semaphores: a give at 1 changes nothing.                     *)
GiveData == data_sem' = 1
GiveSpace == space_sem' = 1

Payload(len) == [k \in 1 .. len |-> (serial + k - 1) % ByteValues]

(* osal_mb_length_t hdr = len, narrowed to the width of the length type.   *)
Header(len) == [k \in 1 .. HeaderBytes |-> IF k = 1 THEN len % (LengthMax + 1) ELSE 0]

Frame(payload) == IF kind = "stream" THEN payload ELSE Header(Len(payload)) \o payload

FrameSize(len) == IF kind = "stream" THEN len ELSE HeaderBytes + len

-----------------------------------------------------------------------------
(* osal_stream_buffer_send, osal_message_buffer_send and their _isr forms: *)
(* a blocking send refuses what can never fit.                             *)
Send(len, mode) ==
  /\ producer.pc = "idle"
  /\ FrameSize(len) <= Capacity
  /\ producer' = [pc |-> "check", mode |-> mode, len |-> len, bytes |-> Frame(Payload(len))]
  /\ UNCHANGED <<kind, buf, head, tail, data_sem, space_sem, consumer, serial, pending, taken>>

(* Variant: the room is compared with the size of the ring.                *)
SendChecks_Sentinel ==
  /\ producer.pc = "check"
  /\ IF FreeBytes + 1 >= FrameSize(producer.len)
       THEN producer' = [producer EXCEPT !.pc = "copy", !.mode = Idle.mode]
       ELSE \/ producer.mode # "forever" /\ producer' = Idle
            \/ producer.mode \in {"forever", "timed"} /\ producer' = [producer EXCEPT !.pc = "take"]
  /\ UNCHANGED <<kind, buf, head, tail, data_sem, space_sem, consumer, serial, pending, taken>>

(* The top of the loop: the load of tail, and if there is no room a        *)
(* timeout for NO_WAIT, for an ISR and once the time has elapsed.  A mode  *)
(* that no later step reads is reset, so that states do not differ in it.  *)
SendChecks ==
  /\ producer.pc = "check"
  /\ IF FreeBytes >= FrameSize(producer.len)
       THEN producer' = [producer EXCEPT !.pc = "copy", !.mode = Idle.mode]
       ELSE \/ producer.mode # "forever" /\ producer' = Idle
            \/ producer.mode \in {"forever", "timed"} /\ producer' = [producer EXCEPT !.pc = "take"]
  /\ UNCHANGED <<kind, buf, head, tail, data_sem, space_sem, consumer, serial, pending, taken>>

(* osal_semaphore_take(space_sem): its result is ignored, the loop decides.*)
SendWakes ==
  /\ producer.pc = "take"
  /\ \/ space_sem = 1 /\ space_sem' = 0
     \/ producer.mode = "timed" /\ UNCHANGED space_sem
  /\ producer' = [producer EXCEPT !.pc = "check"]
  /\ UNCHANGED <<kind, buf, head, tail, data_sem, consumer, serial, pending, taken>>

SendCopies ==
  /\ producer.pc = "copy"
  /\ buf' = CopyIn(head, producer.bytes)
  /\ producer' = [producer EXCEPT !.pc = "publish"]
  /\ UNCHANGED <<kind, head, tail, data_sem, space_sem, consumer, serial, pending, taken>>

(* The store of head, which publishes a whole frame at once.               *)
SendPublishes ==
  /\ producer.pc = "publish"
  /\ head' = Advance(head, FrameSize(producer.len))
  /\ producer' = [producer EXCEPT !.pc = "give", !.bytes = <<>>]
  /\ pending' = pending \o (IF kind = "stream" THEN Payload(producer.len) ELSE <<Payload(producer.len)>>)
  /\ serial' = (serial + producer.len) % ByteValues
  /\ UNCHANGED <<kind, buf, tail, data_sem, space_sem, consumer, taken>>

(* Variant: the consumer is not notified.                                  *)
SendGives_Not ==
  /\ producer.pc = "give"
  /\ producer' = Idle
  /\ UNCHANGED <<kind, buf, head, tail, data_sem, space_sem, consumer, serial, pending, taken>>

SendGives ==
  /\ producer.pc = "give"
  /\ GiveData
  /\ producer' = Idle
  /\ UNCHANGED <<kind, buf, head, tail, space_sem, consumer, serial, pending, taken>>

-----------------------------------------------------------------------------
(* osal_stream_buffer_receive, osal_message_buffer_receive and their _isr  *)
(* forms.                                                                  *)
Receive(max_len, mode) ==
  /\ consumer.pc = "idle"
  /\ consumer' = [AtEase EXCEPT !.pc = "check", !.mode = mode, !.max_len = max_len]
  /\ UNCHANGED <<kind, buf, head, tail, data_sem, space_sem, producer, serial, pending, taken>>

Least(a, b) == IF a < b THEN a ELSE b

(* The length in the header that emu_mb_peek reads at tail.                *)
MsgLen == buf[tail]

Ready == IF kind = "stream" THEN Available >= Trigger
         ELSE Available >= HeaderBytes /\ Available >= HeaderBytes + MsgLen

ReceiveChecks ==
  /\ consumer.pc = "check"
  /\ IF Ready
       THEN LET size == IF kind = "stream" THEN Available ELSE MsgLen
                n    == Least(size, consumer.max_len)
            IN  /\ consumer' = [consumer EXCEPT !.pc = IF kind = "stream" THEN "copy" ELSE "skip",
                                  !.mode = IF @ = "isr" THEN @ ELSE "no_wait", !.n = n,
                                  !.rest = IF kind = "stream" THEN 0 ELSE size - n]
                /\ taken' = SubSeq(IF kind = "stream" THEN pending ELSE Head(pending), 1, n)
       ELSE /\ \/ consumer.mode # "forever" /\ consumer' = AtEase
               \/ consumer.mode \in {"forever", "timed"} /\ consumer' = [consumer EXCEPT !.pc = "take"]
            /\ UNCHANGED taken
  /\ UNCHANGED <<kind, buf, head, tail, data_sem, space_sem, producer, serial, pending>>

ReceiveWakes ==
  /\ consumer.pc = "take"
  /\ \/ data_sem = 1 /\ data_sem' = 0
     \/ consumer.mode = "timed" /\ UNCHANGED data_sem
  /\ consumer' = [consumer EXCEPT !.pc = "check"]
  /\ UNCHANGED <<kind, buf, head, tail, space_sem, producer, serial, pending, taken>>

(* emu_mb_skip past the header, a store of tail.                           *)
ReceiveSkipsHeader ==
  /\ consumer.pc = "skip"
  /\ tail' = Advance(tail, HeaderBytes)
  /\ consumer' = [consumer EXCEPT !.pc = "copy"]
  /\ UNCHANGED <<kind, buf, head, data_sem, space_sem, producer, serial, pending, taken>>

ReceiveCopies ==
  /\ consumer.pc = "copy"
  /\ consumer' = [consumer EXCEPT !.pc = "advance", !.out = CopyOut(tail, consumer.n)]
  /\ UNCHANGED <<kind, buf, head, tail, data_sem, space_sem, producer, serial, pending, taken>>

(* The bytes or the message leave the buffer with the store of tail that   *)
(* completes the receive.                                                  *)
Consumed == IF kind = "stream" THEN SubSeq(pending, consumer.n + 1, Len(pending)) ELSE Tail(pending)

(* Variant: what does not fit in the caller's buffer stays in the ring.    *)
ReceiveAdvances_KeepsRest ==
  /\ consumer.pc = "advance"
  /\ tail' = Advance(tail, consumer.n)
  /\ consumer' = [consumer EXCEPT !.pc = "give", !.rest = 0]
  /\ pending' = Consumed
  /\ UNCHANGED <<kind, buf, head, data_sem, space_sem, producer, serial, taken>>

(* The store of tail in sb_read and emu_mb_read.                           *)
ReceiveAdvances ==
  /\ consumer.pc = "advance"
  /\ tail' = Advance(tail, consumer.n)
  /\ IF consumer.rest > 0
       THEN consumer' = [consumer EXCEPT !.pc = "rest"] /\ UNCHANGED pending
       ELSE consumer' = [consumer EXCEPT !.pc = "give"] /\ pending' = Consumed
  /\ UNCHANGED <<kind, buf, head, data_sem, space_sem, producer, serial, taken>>

(* emu_mb_skip over the part of the payload that was cut off.              *)
ReceiveSkipsRest ==
  /\ consumer.pc = "rest"
  /\ tail' = Advance(tail, consumer.rest)
  /\ consumer' = [consumer EXCEPT !.pc = "give", !.rest = 0]
  /\ pending' = Consumed
  /\ UNCHANGED <<kind, buf, head, data_sem, space_sem, producer, serial, taken>>

(* Variant: room is announced only when the buffer has been emptied.       *)
ReceiveGives_WhenEmpty ==
  /\ consumer.pc = "give"
  /\ space_sem' = IF Available = 0 THEN 1 ELSE space_sem
  /\ consumer' = IF kind = "message" /\ consumer.mode # "isr" THEN [consumer EXCEPT !.pc = "rearm"] ELSE AtEase
  /\ taken' = <<>>
  /\ UNCHANGED <<kind, buf, head, tail, data_sem, producer, serial, pending>>

ReceiveGives ==
  /\ consumer.pc = "give"
  /\ GiveSpace
  /\ consumer' = IF kind = "message" /\ consumer.mode # "isr" THEN [consumer EXCEPT !.pc = "rearm"] ELSE AtEase
  /\ taken' = <<>>
  /\ UNCHANGED <<kind, buf, head, tail, data_sem, producer, serial, pending>>

(* osal_message_buffer_receive gives data_sem again when more is queued.   *)
ReceiveRearms ==
  /\ consumer.pc = "rearm"
  /\ IF Available >= HeaderBytes THEN GiveData ELSE UNCHANGED data_sem
  /\ consumer' = AtEase
  /\ UNCHANGED <<kind, buf, head, tail, space_sem, producer, serial, pending, taken>>

(* osal_stream_buffer_reset and osal_message_buffer_reset, called as their *)
(* warning asks, with no send or receive in progress.  Neither semaphore   *)
(* is touched, so a token may outlive the bytes it announced.              *)
Reset ==
  /\ producer.pc = "idle" /\ consumer.pc = "idle"
  /\ tail' = head
  /\ pending' = <<>>
  /\ UNCHANGED <<kind, buf, head, data_sem, space_sem, producer, consumer, serial, taken>>

-----------------------------------------------------------------------------
ProducerStep == SendChecks \/ SendWakes \/ SendCopies \/ SendPublishes \/ SendGives

ConsumerStep ==
  \/ ReceiveChecks \/ ReceiveWakes \/ ReceiveSkipsHeader \/ ReceiveCopies
  \/ ReceiveAdvances \/ ReceiveSkipsRest \/ ReceiveGives \/ ReceiveRearms

BufNext ==
  \/ \E len \in Lengths, mode \in Modes : Send(len, mode) \/ Receive(len, mode)
  \/ ProducerStep
  \/ ConsumerStep
  \/ Reset

BufSpec == BufInit /\ [][BufNext]_bufVars

(* A call in progress keeps running, and a semaphore with a token releases *)
(* the one thread that sleeps on it.                                       *)
BufFairSpec == BufSpec /\ WF_bufVars(ProducerStep) /\ WF_bufVars(ConsumerStep)

-----------------------------------------------------------------------------
BufTypeOK ==
  /\ kind \in Kinds
  /\ buf \in [Index -> 0 .. LengthMax + ByteValues]
  /\ head \in Index /\ tail \in Index
  /\ data_sem \in {0, 1} /\ space_sem \in {0, 1}
  /\ producer.pc \in {"idle", "check", "take", "copy", "publish", "give"} /\ producer.mode \in Modes
  /\ consumer.pc \in {"idle", "check", "take", "skip", "copy", "advance", "rest", "give", "rearm"}
  /\ consumer.mode \in Modes /\ consumer.n \in 0 .. Capacity /\ consumer.rest \in 0 .. Capacity

(* The bytes that tail has already passed of the message being received.   *)
Passed == IF kind = "stream" \/ consumer.pc \notin {"copy", "advance", "rest"} THEN 0
          ELSE IF consumer.pc = "rest" THEN HeaderBytes + consumer.n ELSE HeaderBytes

(* The i-th frame of the messages in the ring begins off[i] bytes after    *)
(* the first one did, and what tail has not passed of it is there.         *)
HoldsFrames(off) ==
  /\ off[1] = 0
  /\ off[Len(pending) + 1] = Available + Passed
  /\ \A i \in 1 .. Len(pending) :
        /\ off[i + 1] = off[i] + HeaderBytes + Len(pending[i])
        /\ \A k \in 1 .. HeaderBytes + Len(pending[i]) :
              off[i] + k > Passed =>
                 buf[Advance(tail, off[i] + k - 1 - Passed)] = Frame(pending[i])[k]

(* Between tail and head lie, in order, exactly the bytes of the sends     *)
(* that succeeded and were not received: no send overwrites a byte that    *)
(* was not read, wherever the ring wraps and whichever side is in the      *)
(* middle of a copy, and a message is seen with its own header.            *)
RingHoldsPending ==
  IF kind = "stream" THEN CopyOut(tail, Available) = pending
  ELSE \E off \in [1 .. Len(pending) + 1 -> 0 .. Available + Passed] : HoldsFrames(off)

(* Indices and contents of the ring are well formed between any two steps  *)
(* of the two sides.                                                       *)
BufWellFormed == BufTypeOK /\ RingHoldsPending

(* A receive delivers the oldest bytes, or the oldest message cut to the   *)
(* caller's max_len, although the producer writes while it copies.         *)
DeliversOldest == consumer.pc \in {"advance", "rest", "give"} => consumer.out = taken

(* Neither side sleeps through what it waits for: a producer that blocks   *)
(* without a token although its frame fits is about to be given one by the *)
(* receive in progress, and likewise the consumer, whatever tokens earlier *)
(* timeouts, a reset or the re-arming give left behind.                    *)
NoSleepBesideBytes ==
  /\ producer.pc = "take" /\ space_sem = 0 /\ FreeBytes >= FrameSize(producer.len) =>
       consumer.pc \in {"skip", "copy", "advance", "rest", "give"}
  /\ consumer.pc = "take" /\ data_sem = 0 /\ Ready => producer.pc = "give"

(* Producer and consumer sleep on each other only in a stream buffer whose *)
(* trigger and send length do not fit in it together: the consumer waits   *)
(* for more bytes than there are, the producer for more room than is left. *)
BothAsleep == producer.pc = "take" /\ space_sem = 0 /\ consumer.pc = "take" /\ data_sem = 0

AsleepOnlyBelowTrigger ==
  BothAsleep => kind = "stream" /\ producer.len + Trigger > Capacity + 1

(* A receive delivers the oldest bytes or message, and the ring holds what *)
(* was sent and not received, in order.                                    *)
BytesDeliveredInOrder == BufWellFormed /\ DeliversOldest

(* Neither side of a buffer sleeps through what it waits for, and the two  *)
(* sleep on each other only where trigger and length do not fit together.  *)
NoSenderOrReceiverForgotten == NoSleepBesideBytes /\ AsleepOnlyBelowTrigger

(* A send whose frame fits, and a receive for which enough has been sent,  *)
(* return.                                                                 *)
EnoughReturns ==
  /\ (producer.pc # "idle" /\ FreeBytes >= FrameSize(producer.len)) ~> (producer.pc = "idle")
  /\ (consumer.pc # "idle" /\ Ready) ~> (consumer.pc = "idle")
=============================================================================
