-------------------------- MODULE MemoryPoolProofs --------------------------
(***************************************************************************)
(* The memory pool conserves tokens for any number of callers and blocks.  *)
(* The inductive invariant joins the typing of the state with Accounting:  *)
(* neither is inductive alone, since a successful take is only known to    *)
(* leave a clear bit through the sum, and the sum is only known to bound   *)
(* the semaphore through the types of its summands.                        *)
(*                                                                         *)
(* The byte buffers hold and deliver what was sent, in order, and wake     *)
(* both sides, for any capacity, header, trigger and lengths.  Their       *)
(* inductive invariant BufInv adds to the two properties what a send and   *)
(* a receive in progress rely on: a send keeps the room it found, since    *)
(* only the receive moves tail, and has its frame in place when it stores  *)
(* head; a receive reads only bytes that no send may overwrite.            *)
(***************************************************************************)
EXTENDS MemoryPool, ByteBuffer, FiniteSetTheorems, TLAPS

IInv == TypeOK /\ Accounting /\ SemSaysSlotFree

(* A set of callers or blocks that is part of a finite one has a natural   *)
(* number of elements.                                                     *)
LEMMA FiniteParts ==
  ASSUME TypeOK
  PROVE  /\ IsFiniteSet(Taking) /\ Cardinality(Taking) \in Nat
         /\ IsFiniteSet(Giving) /\ Cardinality(Giving) \in Nat
         /\ IsFiniteSet(bitmap) /\ Cardinality(bitmap) \in Nat
<1>1. IsFiniteSet(Taking) /\ IsFiniteSet(Giving)
  <2>1. Taking \in SUBSET Threads /\ Giving \in SUBSET Threads
    BY Zenon DEF Taking, Giving
  <2> QED  BY <2>1, ThreadsAssumption, FS_Subset
<1>2. IsFiniteSet(bitmap)
  <2>1. IsFiniteSet(Blocks)
    BY BlockCountAssumption, FS_Interval DEF Blocks
  <2> QED  BY <2>1, FS_Subset DEF TypeOK
<1> QED  BY <1>1, <1>2, FS_CardinalityType

(* Adding a new element to a finite set, or removing one it has, changes   *)
(* its size by one.                                                        *)
LEMMA CountAdd ==
  ASSUME NEW S, IsFiniteSet(S), NEW x, x \notin S
  PROVE  Cardinality(S \cup {x}) = Cardinality(S) + 1
BY FS_AddElement, Zenon

(* The clear of a bit that is set.                                         *)
LEMMA CountRemove ==
  ASSUME NEW S, IsFiniteSet(S), NEW x, x \in S
  PROVE  Cardinality(S \ {x}) = Cardinality(S) - 1
BY FS_RemoveElement, Zenon

(* While a caller holds a token of the semaphore some bit is clear.        *)
LEMMA TokenBelowCount ==
  ASSUME TypeOK, Accounting, Taking # {}
  PROVE  Cardinality(bitmap) < BlockCount
<1>1. Cardinality(Taking) \in Nat \ {0} /\ Cardinality(Giving) \in Nat /\ Cardinality(bitmap) \in Nat
  BY FiniteParts, FS_EmptySet, Zenon
<1>2. sem \in Nat
  BY BlockCountAssumption DEF TypeOK
<1> QED  BY <1>1, <1>2, BlockCountAssumption DEF Accounting

(* So the search in pool_bitmap_alloc succeeds.                            *)
LEMMA TokenMeansFreeBlock ==
  ASSUME TypeOK, Accounting, Taking # {}
  PROVE  Free # {}
<1>1. Cardinality(Blocks) = BlockCount
  BY BlockCountAssumption, FS_Interval DEF Blocks
<1>2. bitmap # Blocks
  BY <1>1, TokenBelowCount, BlockCountAssumption
<1> QED  BY <1>2 DEF Free, TypeOK

(* The initial state of a created pool satisfies the invariant.            *)
LEMMA InitIInv == Init => IInv
<1> SUFFICES ASSUME Init PROVE IInv
  BY Zenon
<1>1. TypeOK
  <2>1. misused \in BOOLEAN
    BY Zenon DEF Init
  <2> QED  BY <2>1, BlockCountAssumption DEF Init, TypeOK, Blocks, Pcs
<1>2. Taking = {} /\ Giving = {}
  BY Zenon DEF Init, Taking, Giving
<1>3. Accounting
  BY <1>2, FS_EmptySet, BlockCountAssumption DEF Init, Accounting
<1>4. SemSaysSlotFree
  BY Zenon DEF Init, SemSaysSlotFree
<1> QED  BY <1>1, <1>3, <1>4 DEF IInv

(* Every step of every call preserves the invariant.                       *)
LEMMA StepIInv == IInv /\ [Next]_vars => IInv'
<1> SUFFICES ASSUME IInv, [Next]_vars PROVE IInv'
  BY Zenon
<1> USE DEF IInv
<1>0. CASE UNCHANGED vars
  BY <1>0, Zenon DEF vars, TypeOK, Accounting, SemSaysSlotFree, Taking, Giving
<1>n. ASSUME NEW t \in Threads, Step(t) PROVE IInv'
  <2> USE FiniteParts, BlockCountAssumption DEF TypeOK, Goto, Pcs, SemSaysSlotFree
  <2>1. CASE Allocate(t) \/ TakeSucceeds(t)
    <3>1. CASE sem > 0 /\ pc'[t] = "took"
      <4>1. pc' = [pc EXCEPT ![t] = "took"] /\ sem' = sem - 1
        BY <2>1, <3>1, Zenon DEF Allocate, TakeSucceeds
      <4>2. Taking' = Taking \cup {t} /\ t \notin Taking
        BY <2>1, <4>1, Zenon DEF Taking, Allocate, TakeSucceeds
      <4>3. Giving' = Giving
        BY <2>1, <4>1, Zenon DEF Giving, Allocate, TakeSucceeds
      <4>4. Cardinality(Taking') = Cardinality(Taking) + 1
        BY <4>2, CountAdd, Zenon
      <4>5. TypeOK'
        BY <2>1, <3>1, <4>1 DEF Allocate, TakeSucceeds
      <4>6. Accounting'
        BY <2>1, <4>1, <4>3, <4>4 DEF Accounting, Allocate, TakeSucceeds
      <4> QED  BY <2>1, <4>1, <4>5, <4>6
    <3>2. CASE ~(sem > 0 /\ pc'[t] = "took")
      <4>1. UNCHANGED vars
        BY <2>1, <3>2, Zenon DEF Allocate, TakeSucceeds, vars
      <4> QED  BY <4>1 DEF vars, Accounting, Taking, Giving
    <3> QED  BY <3>1, <3>2
  <2>2. CASE AllocateTimed(t) \/ TakeTimesOut(t) \/ \E b \in Blocks : Deallocate(t, b)
    <3>1. Taking' = Taking /\ Giving' = Giving
      BY <2>2, Zenon DEF Taking, Giving, AllocateTimed, TakeTimesOut, Deallocate
    <3>2. TypeOK'
      <4>1. CASE AllocateTimed(t)
        BY <4>1, Zenon DEF AllocateTimed
      <4>2. CASE TakeTimesOut(t)
        BY <4>2, Zenon DEF TakeTimesOut
      <4>3. ASSUME NEW b \in Blocks, Deallocate(t, b) PROVE TypeOK'
        BY <4>3, Zenon DEF Deallocate
      <4> QED  BY <2>2, <4>1, <4>2, <4>3
    <3>3. Accounting'
      BY <2>2, <3>1, Zenon DEF Accounting, AllocateTimed, TakeTimesOut, Deallocate
    <3> QED  BY <2>2, <3>2, <3>3 DEF AllocateTimed, TakeTimesOut, Deallocate
  <2>3. CASE BitmapAlloc(t)
    <3>1. Free # {}
      BY <2>3, TokenMeansFreeBlock, Zenon DEF Taking, BitmapAlloc
    <3>2. PICK i \in Free : /\ bitmap' = bitmap \cup {i}
                            /\ available' = available - 1
                            /\ idx' = [idx EXCEPT ![t] = i]
                            /\ held' = [held EXCEPT ![t] = @ \cup {i}]
                            /\ pc' = [pc EXCEPT ![t] = "idle"]
                            /\ sem' = sem
                            /\ misused' = misused
      BY <2>3, <3>1, Zenon DEF BitmapAlloc
    <3>3. Taking' = Taking \ {t} /\ t \in Taking /\ Giving' = Giving
      BY <2>3, <3>2, Zenon DEF Taking, Giving, BitmapAlloc
    <3>4. Cardinality(Taking') = Cardinality(Taking) - 1
      BY <3>3, CountRemove, Zenon
    <3>5. Cardinality(bitmap') = Cardinality(bitmap) + 1
      BY <3>2, CountAdd, Zenon DEF Free
    <3>6. Accounting'
      BY <3>2, <3>3, <3>4, <3>5 DEF Accounting
    <3>7. Cardinality(bitmap) < BlockCount
      BY <3>3, TokenBelowCount, Zenon
    <3>8. TypeOK'
      BY <3>2, <3>7 DEF Accounting, Free
    <3> QED  BY <3>2, <3>6, <3>8
  <2>4. CASE BitmapFree(t)
    <3>1. CASE idx[t] \in bitmap
      <4>1. /\ bitmap' = bitmap \ {idx[t]}
            /\ available' = available + 1
            /\ pc' = [pc EXCEPT ![t] = "give"]
            /\ UNCHANGED <<sem, idx, held, misused>>
        BY <2>4, <3>1, Zenon DEF BitmapFree
      <4>2. Giving' = Giving \cup {t} /\ t \notin Giving /\ Taking' = Taking
        BY <2>4, <4>1, Zenon DEF Taking, Giving, BitmapFree
      <4>3. Cardinality(Giving') = Cardinality(Giving) + 1
        BY <4>2, CountAdd, Zenon
      <4>4. Cardinality(bitmap') = Cardinality(bitmap) - 1
        BY <3>1, <4>1, CountRemove, Zenon
      <4>5. Cardinality(bitmap) # 0
        BY <3>1, FS_EmptySet, Zenon
      <4>6. TypeOK'
        BY <4>1, <4>5 DEF Accounting
      <4>7. Accounting'
        BY <4>1, <4>2, <4>3, <4>4 DEF Accounting
      <4> QED  BY <4>1, <4>6, <4>7
    <3>2. CASE idx[t] \notin bitmap
      <4>1. pc' = [pc EXCEPT ![t] = "idle"] /\ UNCHANGED <<bitmap, available, sem, idx, held, misused>>
        BY <2>4, <3>2, Zenon DEF BitmapFree
      <4>2. Taking' = Taking /\ Giving' = Giving
        BY <2>4, <4>1, Zenon DEF Taking, Giving, BitmapFree
      <4> QED  BY <4>1, <4>2 DEF Accounting
    <3> QED  BY <3>1, <3>2
  <2>5. CASE Give(t)
    <3>1. pc' = [pc EXCEPT ![t] = "idle"] /\ UNCHANGED <<bitmap, available, idx, held, misused>>
      BY <2>5, Zenon DEF Give
    <3>2. Giving' = Giving \ {t} /\ t \in Giving /\ Taking' = Taking
      BY <2>5, <3>1, Zenon DEF Taking, Giving, Give
    <3>3. Cardinality(Giving') = Cardinality(Giving) - 1
      BY <3>2, CountRemove, Zenon
    <3>4. Cardinality(Giving) # 0
      BY <3>2, FS_EmptySet, Zenon
    <3>5. sem < BlockCount
      BY <3>4 DEF Accounting
    <3>6. sem' = sem + 1
      BY <2>5, <3>5, Zenon DEF Give, SemGive
    <3>7. Accounting'
      BY <3>1, <3>2, <3>3, <3>6 DEF Accounting
    <3> QED  BY <3>1, <3>5, <3>6, <3>7
  <2> QED  BY <1>n, <2>1, <2>2, <2>3, <2>4, <2>5 DEF Step
<1> QED  BY <1>0, <1>n DEF Next

(* The pool's token accounting, with the typing it needs, always holds.    *)
THEOREM IInvHolds == Spec => []IInv
BY InitIInv, StepIInv, PTL DEF Spec

(* For every number of callers and blocks, and even with callers that free *)
(* blocks twice, the counters keep within their bounds, and tokens and     *)
(* clear bits stay in step.                                                *)
THEOREM WellFormedHolds == Spec => []WellFormed
<1>1. IInv => WellFormed
  BY Zenon DEF IInv, WellFormed
<1> QED  BY <1>1, IInvHolds, PTL

(* The branch of the allocators marked "Should not happen" is dead code.   *)
THEOREM SemSaysSlotFreeHolds == Spec => []SemSaysSlotFree
<1>1. IInv => SemSaysSlotFree
  BY Zenon DEF IInv
<1> QED  BY <1>1, IInvHolds, PTL

(* The give at the end of deallocate never overflows the semaphore, so the *)
(* result the code discards carries no error.                              *)
THEOREM GiveNeverOverflowsHolds == Spec => []GiveNeverOverflows
<1>1. IInv => GiveNeverOverflows
  <2> SUFFICES ASSUME IInv, NEW t \in Threads, pc[t] = "give"
               PROVE  sem < BlockCount
    BY Zenon DEF GiveNeverOverflows
  <2>1. t \in Giving
    BY Zenon DEF Giving
  <2>2. Cardinality(Giving) # 0
    BY <2>1, FiniteParts, FS_EmptySet, Zenon DEF IInv
  <2> QED  BY <2>2, FiniteParts, BlockCountAssumption DEF IInv, Accounting, TypeOK
<1> QED  BY <1>1, IInvHolds, PTL

(* One step of callers that only return blocks they hold keeps every block *)
(* with at most one owner.                                                 *)
LEMMA StepOwnership ==
  ASSUME TypeOK, Owned, ~misused', [Next]_vars
  PROVE  Owned'
<1>0. CASE UNCHANGED vars
  BY <1>0, Zenon DEF vars, Owned
<1>n. ASSUME NEW t \in Threads, Step(t) PROVE Owned'
  <2> USE DEF TypeOK, Goto, Owned
  <2>1. CASE Allocate(t) \/ AllocateTimed(t) \/ TakeSucceeds(t) \/ TakeTimesOut(t) \/ Give(t)
    <3>1. UNCHANGED <<bitmap, idx, held>>
      BY <2>1, Zenon DEF Allocate, AllocateTimed, TakeSucceeds, TakeTimesOut, Give
    <3>2. \A u \in Threads : pc'[u] = "free" => pc[u] = "free"
      BY <2>1, Zenon DEF Allocate, AllocateTimed, TakeSucceeds, TakeTimesOut, Give
    <3> QED  BY <3>1, <3>2
  <2>2. CASE BitmapAlloc(t)
    <3>1. CASE Free = {}
      BY <2>2, <3>1, Zenon DEF BitmapAlloc
    <3>2. CASE Free # {}
      <4>1. PICK i \in Free : /\ bitmap' = bitmap \cup {i}
                              /\ idx' = [idx EXCEPT ![t] = i]
                              /\ held' = [held EXCEPT ![t] = @ \cup {i}]
                              /\ pc' = [pc EXCEPT ![t] = "idle"]
        BY <2>2, <3>2, Zenon DEF BitmapAlloc
      <4>2. \A u \in Threads : i \notin held[u] /\ (pc[u] = "free" => idx[u] # i)
        BY Zenon DEF Free
      <4>3. \A u, v \in Threads : u # v => held'[u] \cap held'[v] = {}
        BY <4>1, <4>2
      <4>4. \A u \in Threads : held'[u] \subseteq bitmap'
        BY <4>1, Zenon
      <4>5. \A u \in Threads : pc'[u] = "free" => u # t /\ pc[u] = "free" /\ idx'[u] = idx[u]
        BY <4>1, Zenon
      <4>6. \A u, v \in Threads : pc'[u] = "free" => idx'[u] \notin held'[v]
        BY <4>1, <4>2, <4>5, Zenon
      <4> QED  BY <4>1, <4>3, <4>4, <4>5, <4>6
    <3> QED  BY <3>1, <3>2
  <2>3. ASSUME NEW b \in Blocks, Deallocate(t, b) PROVE Owned'
    <3>1. /\ b \in held[t]
          /\ idx' = [idx EXCEPT ![t] = b]
          /\ held' = [held EXCEPT ![t] = @ \ {b}]
          /\ pc' = [pc EXCEPT ![t] = "free"]
          /\ bitmap' = bitmap
      BY <2>3, Zenon DEF Deallocate
    <3>2. \A u, v \in Threads : u # v => held'[u] \cap held'[v] = {}
      BY <3>1, Zenon
    <3>3. \A u \in Threads : held'[u] \subseteq bitmap'
      BY <3>1, Zenon
    <3>4. \A u \in Threads : b \notin held'[u] /\ (u # t /\ pc'[u] = "free" => idx'[u] # b)
      BY <3>1, Zenon
    <3> QED  BY <3>1, <3>2, <3>3, <3>4
  <2>4. CASE BitmapFree(t)
    <3>1. \A u \in Threads : pc'[u] = "free" => pc[u] = "free" /\ idx[u] # idx[t]
      BY <2>4, Zenon DEF BitmapFree
    <3>2. held' = held /\ idx' = idx /\ (bitmap' = bitmap \/ bitmap' = bitmap \ {idx[t]})
      BY <2>4, Zenon DEF BitmapFree
    <3>3. \A u \in Threads : idx[t] \notin held[u]
      BY <2>4, Zenon DEF BitmapFree
    <3> QED  BY <3>1, <3>2, <3>3
  <2> QED  BY <1>n, <2>1, <2>2, <2>3, <2>4 DEF Step
<1> QED  BY <1>0, <1>n DEF Next

(* As long as callers return only what they hold, no block is ever handed  *)
(* to two of them, for any number of callers and blocks.                   *)
THEOREM ExclusiveOwnershipHolds == Spec => []ExclusiveOwnership
<1>1. Init => ExclusiveOwnership
  BY Zenon DEF Init, ExclusiveOwnership, Owned
<1>2. TypeOK /\ ExclusiveOwnership /\ [Next]_vars => ExclusiveOwnership'
  <2> SUFFICES ASSUME TypeOK, ExclusiveOwnership, [Next]_vars, ~misused'
               PROVE  Owned'
    BY Zenon DEF ExclusiveOwnership
  <2>1. ~misused
    BY Zenon DEF Next, Step, Allocate, AllocateTimed, TakeSucceeds, TakeTimesOut, BitmapAlloc,
           Deallocate, BitmapFree, Give, vars
  <2> QED  BY <2>1, StepOwnership DEF ExclusiveOwnership
<1>3. WellFormed => TypeOK
  BY Zenon DEF WellFormed
<1> QED  BY <1>1, <1>2, <1>3, WellFormedHolds, PTL DEF Spec


-----------------------------------------------------------------------------
(* The two ring helpers, once and for all.                                 *)

(* Moving on by less than the ring.                                        *)
LEMMA AdvanceIn ==
  ASSUME NEW i \in Index, NEW d \in 0 .. Capacity
  PROVE  Advance(i, d) \in Index /\ Distance(i, Advance(i, d)) = d
  BY CapacityAssumption DEF Advance, Distance, Index, RingSize

(* From one place of the ring to another.                                  *)
LEMMA DistanceIn ==
  ASSUME NEW i \in Index, NEW j \in Index
  PROVE  /\ Distance(i, j) \in 0 .. Capacity /\ Advance(i, Distance(i, j)) = j
         /\ Distance(i, j) = 0 <=> i = j
  BY CapacityAssumption DEF Advance, Distance, Index, RingSize

(* Two moves are one.                                                      *)
LEMMA AdvanceTwice ==
  ASSUME NEW i \in Index, NEW a \in Nat, NEW b \in Nat, a + b <= Capacity
  PROVE  Advance(Advance(i, a), b) = Advance(i, a + b)
  BY CapacityAssumption DEF Advance, Index, RingSize

(* Moving the near end shortens the distance, moving the far end adds.     *)
LEMMA DistanceMoves ==
  ASSUME NEW i \in Index, NEW j \in Index
  PROVE  /\ \A a \in 0 .. Distance(i, j) : Distance(Advance(i, a), j) = Distance(i, j) - a
         /\ \A a \in 0 .. Capacity - Distance(i, j) : Distance(i, Advance(j, a)) = Distance(i, j) + a
  <1>1. ASSUME NEW a \in 0 .. Distance(i, j)
        PROVE  Distance(Advance(i, a), j) = Distance(i, j) - a
    BY CapacityAssumption DEF Advance, Distance, Index, RingSize
  <1>2. ASSUME NEW a \in 0 .. Capacity - Distance(i, j)
        PROVE  Distance(i, Advance(j, a)) = Distance(i, j) + a
    BY CapacityAssumption DEF Advance, Distance, Index, RingSize
  <1> QED
    BY <1>1, <1>2, Zenon

(* What lies before j is not among the places that follow j.               *)
LEMMA BehindIsFar ==
  ASSUME NEW i \in Index, NEW j \in Index, NEW d \in Nat, d < Distance(i, j)
  PROVE  Distance(j, Advance(i, d)) > Capacity - Distance(i, j)
  BY CapacityAssumption DEF Advance, Distance, Index, RingSize

(* A function on 1 .. n is a sequence of length n.                         *)
LEMMA FcnIsSeq ==
  ASSUME NEW S, NEW n \in Nat, NEW f \in [1 .. n -> S]
  PROVE  f \in Seq(S) /\ Len(f) = n
  OBVIOUS

(* A remainder is less than the divisor.                                   *)
LEMMA ModIn ==
  ASSUME NEW x \in Nat, NEW y \in Nat \ {0}
  PROVE x % y \in 0 .. y - 1 /\ (x < y => x % y = x)
  OBVIOUS

(* Sequences are equal when their elements are.                            *)
LEMMA SameSeq ==
  ASSUME NEW S, NEW s \in Seq(S), NEW t \in Seq(S), Len(s) = Len(t), \A k \in 1 .. Len(s) : s[k] = t[k]
  PROVE  s = t
  OBVIOUS

(* What a concatenation consists of.                                       *)
LEMMA ConcatIs ==
  ASSUME NEW S, NEW s \in Seq(S), NEW t \in Seq(S)
  PROVE  /\ s \o t \in Seq(S) /\ Len(s \o t) = Len(s) + Len(t)
         /\ \A k \in 1 .. Len(s) : (s \o t)[k] = s[k]
         /\ \A k \in 1 .. Len(t) : (s \o t)[Len(s) + k] = t[k]
  OBVIOUS

(* The first n elements of a sequence, and the others.                     *)
LEMMA PartsAre ==
  ASSUME NEW S, NEW s \in Seq(S), NEW n \in 0 .. Len(s)
  PROVE  /\ SubSeq(s, 1, n) \in Seq(S) /\ Len(SubSeq(s, 1, n)) = n
         /\ \A k \in 1 .. n : SubSeq(s, 1, n)[k] = s[k]
         /\ SubSeq(s, n+1, Len(s)) \in Seq(S) /\ Len(SubSeq(s, n+1, Len(s))) = Len(s) - n
         /\ \A k \in 1 .. Len(s) - n : SubSeq(s, n+1, Len(s))[k] = s[n + k]
  OBVIOUS

(* What follows the first element.                                         *)
LEMMA TailIs ==
  ASSUME NEW S, NEW s \in Seq(S), Len(s) > 0
  PROVE  Tail(s) = [i \in 1 .. Len(s) - 1 |-> s[i + 1]]
  <1> DEFINE t == [i \in 1 .. Len(s) - 1 |-> s[i + 1]]
  <1>1. Tail(s) \in Seq(S) /\ Len(Tail(s)) = Len(s) - 1 /\ Len(s) - 1 \in Nat
    OBVIOUS
  <1>2. t \in [1 .. Len(s) - 1 -> S]
    OBVIOUS
  <1>3. t \in Seq(S) /\ Len(t) = Len(s) - 1
    BY <1>1, <1>2, FcnIsSeq
  <1>4. \A i \in 1 .. Len(s) - 1 : Tail(s)[i] = t[i]
    OBVIOUS
  <1> HIDE DEF t
  <1>5. Tail(s) = t
    BY <1>1, <1>3, <1>4, SameSeq, Zenon
  <1> QED
    BY <1>5, Zenon DEF t

-----------------------------------------------------------------------------
(* The inductive invariant.                                                *)
Byte == 0 .. LengthMax + ByteValues

Producers ==
  [pc : {"idle", "check", "take", "copy", "publish", "give"}, mode : Modes, len : Nat,
   bytes : Seq(Byte)]

Consumers ==
  [pc : {"idle", "check", "take", "skip", "copy", "advance", "rest", "give", "rearm"},
   mode : Modes, max_len : Nat, n : 0 .. Capacity, rest : 0 .. Capacity, out : Seq(Byte)]

BufTypes ==
  /\ kind \in Kinds
  /\ buf \in [Index -> Byte]
  /\ head \in Index /\ tail \in Index
  /\ data_sem \in {0, 1} /\ space_sem \in {0, 1}
  /\ producer \in Producers /\ consumer \in Consumers
  /\ serial \in Nat
  /\ pending \in IF kind = "stream" THEN Seq(Byte) ELSE Seq(Seq(Byte))
  /\ taken \in Seq(Byte)

(* A send in progress has the frame of its payload, which fits; and, once  *)
(* it has found room, keeps it, and has the frame in place when it stores  *)
(* head.                                                                   *)
Sending == {"check", "take", "copy", "publish"}

ProducerHas ==
  /\ producer.pc \in Sending =>
       /\ FrameSize(producer.len) <= Capacity
       /\ producer.bytes = Frame(Payload(producer.len))
  /\ producer.pc \in {"copy", "publish"} => FreeBytes >= FrameSize(producer.len)
  /\ producer.pc = "publish" =>
       \A k \in 1 .. FrameSize(producer.len) : buf[Advance(head, k - 1)] = producer.bytes[k]

(* A receive in progress takes the oldest bytes, or the oldest message.    *)
Receiving == {"skip", "copy", "advance", "rest"}

ConsumerHas ==
  /\ consumer.pc \in Receiving =>
       IF kind = "stream"
       THEN /\ consumer.pc \notin {"skip", "rest"} /\ consumer.rest = 0
            /\ consumer.n <= Len(pending)
            /\ taken = SubSeq(pending, 1, consumer.n)
       ELSE /\ Len(pending) > 0
            /\ consumer.n + consumer.rest = Len(pending[1])
            /\ taken = SubSeq(pending[1], 1, consumer.n)
  /\ DeliversOldest

(* Every message in the ring was one that fits.                            *)
MessagesFit ==
  kind = "message" => \A i \in 1 .. Len(pending) : HeaderBytes + Len(pending[i]) <= Capacity

(* The bytes s are the a bytes from t on.                                  *)
Bytes(b, t, a, s) == Len(s) = a /\ \A k \in 1 .. a : b[Advance(t, k - 1)] = s[k]

(* The frames fs, the first of which tail t has passed p bytes of, fill    *)
(* the a bytes from t on, frame i beginning off[i] bytes after the first.  *)
Frames(b, t, p, a, fs, off) ==
  /\ off[1] = 0 /\ off[Len(fs) + 1] = a + p
  /\ \A i \in 1 .. Len(fs) : off[i + 1] = off[i] + Len(fs[i])
  /\ \A i \in 1 .. Len(fs) : \A k \in 1 .. Len(fs[i]) :
        off[i] + k > p => b[Advance(t, off[i] + k - 1 - p)] = fs[i][k]
  /\ \A i, j \in 1 .. Len(fs) + 1 : j <= i => off[j] <= off[i]

Offsets(n, a) == [1 .. n + 1 -> 0 .. a]

PendingFrames == [i \in 1 .. Len(pending) |-> Frame(pending[i])]

RingHolds ==
  IF kind = "stream" THEN Bytes(buf, tail, Available, pending)
  ELSE \E off \in Offsets(Len(PendingFrames), Available + Passed) :
          Frames(buf, tail, Passed, Available, PendingFrames, off)

BufInv ==
  BufTypes /\ ProducerHas /\ ConsumerHas /\ MessagesFit /\ RingHolds /\ NoSleepBesideBytes

(* There are two kinds.                                                    *)
LEMMA KindIs ==
  ASSUME BufTypes
  PROVE  kind \in {"stream", "message"} /\ (kind = "message" <=> kind # "stream")
  BY KindsAssumption, Zenon DEF BufTypes

(* The calls at rest.                                                      *)
LEMMA RestIs ==
  /\ Idle \in Producers /\ Idle.pc = "idle" /\ Idle.mode \in Modes
  /\ AtEase \in Consumers /\ AtEase.pc = "idle" /\ AtEase.n = 0 /\ AtEase.rest = 0
  BY CapacityAssumption DEF Idle, AtEase, Producers, Consumers, Modes

(* Bytes and lengths, of a payload and of its frame.                       *)
LEMMA PayloadIs ==
  ASSUME BufTypes, NEW len \in Nat
  PROVE  Payload(len) \in Seq(Byte) /\ Len(Payload(len)) = len
  <1>1. Payload(len) \in [1 .. len -> Byte]
    <2> SUFFICES ASSUME NEW k \in 1 .. len
                 PROVE  (serial + k - 1) % ByteValues \in Byte
      BY Zenon DEF Payload
    <2>1. serial + k - 1 \in Nat /\ ByteValues \in Nat \ {0}
      BY ByteValuesAssumption, CapacityAssumption DEF BufTypes
    <2>2. (serial + k - 1) % ByteValues \in 0 .. ByteValues - 1
      BY <2>1, ModIn, Zenon
    <2> QED
      BY <2>1, <2>2, LengthMaxAssumption DEF Byte
  <1> QED
    BY <1>1, FcnIsSeq, Zenon

(* A frame begins with the length of its payload.                          *)
LEMMA FrameIs ==
  ASSUME BufTypes, NEW payload \in Seq(Byte)
  PROVE  /\ Frame(payload) \in Seq(Byte)
         /\ Len(Frame(payload)) = FrameSize(Len(payload))
         /\ FrameSize(Len(payload)) \in Nat
         /\ kind = "stream" => Frame(payload) = payload
         /\ kind = "message" =>
              /\ \A k \in 1 .. Len(payload) : Frame(payload)[HeaderBytes + k] = payload[k]
              /\ HeaderBytes + Len(payload) <= Capacity => Frame(payload)[1] = Len(payload)
  <1>1. CASE kind = "stream"
    BY <1>1 DEF Frame, FrameSize
  <1>2. CASE kind = "message"
    <2> DEFINE len == Len(payload)
    <2>1. len \in Nat /\ HeaderBytes \in Nat \ {0} /\ LengthMax \in Nat /\ Capacity \in Nat
      BY HeaderAssumption, LengthMaxAssumption, CapacityAssumption
    <2>2. len % (LengthMax + 1) \in 0 .. LengthMax
      BY <2>1, ModIn
    <2>3. Header(len) \in [1 .. HeaderBytes -> Byte] /\ Header(len)[1] = len % (LengthMax + 1)
      BY <2>1, <2>2, ByteValuesAssumption DEF Header, Byte
    <2>4. Header(len) \in Seq(Byte) /\ Len(Header(len)) = HeaderBytes
      BY <2>1, <2>3, FcnIsSeq, Zenon
    <2>5. Frame(payload) = Header(len) \o payload /\ FrameSize(len) = HeaderBytes + len
      BY <1>2, Zenon DEF Frame, FrameSize
    <2>6. /\ Frame(payload) \in Seq(Byte) /\ Len(Frame(payload)) = HeaderBytes + len
          /\ \A k \in 1 .. HeaderBytes : Frame(payload)[k] = Header(len)[k]
          /\ \A k \in 1 .. len : Frame(payload)[HeaderBytes + k] = payload[k]
      <3> DEFINE hd == Header(len)
      <3>1. hd \in Seq(Byte) /\ Len(hd) = HeaderBytes
        BY <2>4, Zenon
      <3> HIDE DEF hd
      <3>2. /\ hd \o payload \in Seq(Byte) /\ Len(hd \o payload) = HeaderBytes + len
            /\ \A k \in 1 .. HeaderBytes : (hd \o payload)[k] = hd[k]
            /\ \A k \in 1 .. len : (hd \o payload)[HeaderBytes + k] = payload[k]
        BY <3>1
      <3> QED
        BY <2>5, <3>2, Zenon DEF hd
    <2>7. HeaderBytes + len <= Capacity => Frame(payload)[1] = len
      <3>1. HeaderBytes + len <= Capacity => len < LengthMax + 1
        BY <2>1, LengthMaxAssumption
      <3>2. HeaderBytes + len <= Capacity => len % (LengthMax + 1) = len
        <4>1. LengthMax + 1 \in Nat \ {0}
          BY <2>1
        <4> QED
          BY <2>1, <3>1, <4>1, ModIn, Zenon
      <3> QED
        BY <2>1, <2>3, <2>6, <3>2
    <2> QED
      BY <1>2, <2>1, <2>5, <2>6, <2>7, SMTT(30)
  <1> QED
    BY <1>1, <1>2, KindIs, Zenon

(* The frame of a send in progress.                                        *)
LEMMA SendingFrame ==
  ASSUME BufTypes, ProducerHas, producer.pc \in Sending
  PROVE  /\ producer.len \in Nat /\ FrameSize(producer.len) \in 0 .. Capacity
         /\ Payload(producer.len) \in Seq(Byte) /\ Len(Payload(producer.len)) = producer.len
         /\ producer.bytes \in Seq(Byte) /\ producer.bytes = Frame(Payload(producer.len))
         /\ Len(producer.bytes) = FrameSize(producer.len)
  <1>1. producer.len \in Nat /\ Capacity \in Nat
    BY CapacityAssumption, Zenon DEF BufTypes, Producers
  <1>2. Payload(producer.len) \in Seq(Byte) /\ Len(Payload(producer.len)) = producer.len
    BY <1>1, PayloadIs, Zenon
  <1>3. producer.bytes = Frame(Payload(producer.len)) /\ FrameSize(producer.len) <= Capacity
    BY Zenon DEF ProducerHas
  <1> QED
    BY <1>1, <1>2, <1>3, FrameIs

(* The bytes there are, and those there is room for.                       *)
LEMMA AvailableIn ==
  ASSUME BufTypes
  PROVE  /\ Available \in 0 .. Capacity /\ FreeBytes \in 0 .. Capacity
         /\ Capacity \in Nat /\ FreeBytes = Capacity - Available
  BY DistanceIn, CapacityAssumption DEF BufTypes, Available, FreeBytes

(* Of a message being received, tail has passed no more than there is.     *)
LEMMA PassedIn ==
  ASSUME BufTypes
  PROVE  Passed \in Nat
  BY HeaderAssumption DEF BufTypes, Consumers, Passed

(* The ring is empty and nobody calls at first.                            *)
LEMMA BufInitHolds ==
  ASSUME BufInit
  PROVE  BufInv
  <1>1. /\ Capacity \in Nat /\ LengthMax \in Nat /\ ByteValues \in Nat
        /\ <<>> \in Seq(Byte) /\ <<>> \in Seq(Seq(Byte)) /\ Len(<<>>) = 0
    BY CapacityAssumption, LengthMaxAssumption, ByteValuesAssumption
  <1>2. /\ producer.pc = "idle" /\ consumer.pc = "idle"
        /\ pending = <<>> /\ kind \in Kinds
    BY Zenon DEF BufInit, Idle, AtEase
  <1>3. BufTypes
    BY <1>1, RestIs DEF BufInit, BufTypes, Byte, Index
  <1>4. ProducerHas /\ NoSleepBesideBytes
    BY <1>2, Zenon DEF ProducerHas, NoSleepBesideBytes, Sending
  <1>5. ConsumerHas /\ MessagesFit
    BY <1>1, <1>2 DEF ConsumerHas, DeliversOldest, Receiving, MessagesFit
  <1>6. Available = 0 /\ Passed = 0
    BY <1>2 DEF BufInit, Available, Distance, Passed
  <1>7. RingHolds
    <2>1. CASE kind = "stream"
      BY <1>1, <1>2, <1>6, <2>1 DEF RingHolds, Bytes
    <2>2. CASE kind # "stream"
      <3> DEFINE off == [i \in 1 .. 1 |-> 0]
      <3>1. Len(PendingFrames) = 0
        BY <1>1, <1>2, FcnIsSeq DEF PendingFrames
      <3>2. off \in Offsets(Len(PendingFrames), Available + Passed)
        BY <1>6, <3>1 DEF Offsets
      <3>3. Frames(buf, tail, Passed, Available, PendingFrames, off)
        BY <1>6, <3>1 DEF Frames
      <3> QED
        BY <2>2, <3>2, <3>3, Zenon DEF RingHolds
    <2> QED
      BY <2>1, <2>2, Zenon
  <1> QED
    BY <1>3, <1>4, <1>5, <1>7, Zenon DEF BufInv

-----------------------------------------------------------------------------
(* Less in the ring is more room in it.                                    *)
LEMMA LessIsMore ==
  ASSUME NEW c \in Int, NEW a \in Int, NEW b \in Int, b <= a
  PROVE  c - b >= c - a /\ c - a \in Int /\ c - b \in Int
  OBVIOUS

(* A step of the consumer only adds room for the send in progress.         *)
LEMMA ProducerStays ==
  ASSUME BufInv, BufTypes', UNCHANGED <<kind, buf, head, producer, serial>>,
         Available' <= Available
  PROVE  ProducerHas'
  <1>1. FreeBytes' >= FreeBytes /\ FreeBytes \in Int /\ FreeBytes' \in Int
    <2>1. Available' \in Int /\ Available \in Int /\ Capacity \in Int
      BY DistanceIn, CapacityAssumption DEF BufInv, BufTypes, Available
    <2>2. FreeBytes = Capacity - Available /\ FreeBytes' = Capacity - Available'
      BY Zenon DEF FreeBytes
    <2> QED
      BY <2>1, <2>2, LessIsMore, Zenon
  <1>2. /\ producer.pc \in Sending => FrameSize(producer.len) \in Int
        /\ \A len : FrameSize(len)' = FrameSize(len)
        /\ Frame(Payload(producer.len))' = Frame(Payload(producer.len))
    BY SendingFrame DEF BufInv, FrameSize, Frame, Payload, Header
  <1> QED
    BY <1>1, <1>2 DEF BufInv, ProducerHas, Sending

(* A step that moves neither index nor byte leaves the contents alone.     *)
LEMMA RingStays ==
  ASSUME BufInv, UNCHANGED <<kind, buf, head, tail, pending>>, Passed' = Passed
  PROVE  RingHolds' /\ MessagesFit'
  <1>1. Available' = Available
    BY Zenon DEF Available
  <1>2. PendingFrames' = PendingFrames
    BY Zenon DEF PendingFrames, Frame, Header
  <1>3. MessagesFit'
    BY Zenon DEF BufInv, MessagesFit
  <1>4. CASE kind = "stream"
    BY <1>1, <1>3, <1>4, Zenon DEF BufInv, RingHolds, Bytes
  <1>5. CASE kind # "stream"
    BY <1>1, <1>2, <1>3, <1>5, Zenon DEF BufInv, RingHolds
  <1> QED
    BY <1>3, <1>4, <1>5, Zenon

-----------------------------------------------------------------------------
(* A send begins with a frame that fits in the empty buffer.               *)
LEMMA SendHolds ==
  ASSUME BufInv, NEW len \in Lengths, NEW mode \in Modes, Send(len, mode)
  PROVE  BufInv'
  <1>0. BufTypes /\ len \in Nat
    BY LengthsAssumption, Zenon DEF BufInv
  <1>1. /\ UNCHANGED <<kind, buf, head, tail, data_sem, space_sem, consumer, serial, pending, taken>>
        /\ producer' = [pc |-> "check", mode |-> mode, len |-> len, bytes |-> Frame(Payload(len))]
        /\ FrameSize(len) <= Capacity
    BY Zenon DEF Send
  <1>2. Frame(Payload(len)) \in Seq(Byte)
    BY <1>0, PayloadIs, FrameIs, Zenon
  <1>3. BufTypes'
    BY <1>0, <1>1, <1>2, Zenon DEF BufTypes, Producers
  <1>4. producer'.pc = "check" /\ producer'.len = len /\ producer'.bytes = Frame(Payload(len))
    BY <1>1, Zenon
  <1>5. ProducerHas'
    BY <1>1, <1>4, Zenon DEF ProducerHas, Frame, Payload, FrameSize, Header
  <1>6. ConsumerHas' /\ Passed' = Passed
    BY <1>1, Zenon DEF BufInv, ConsumerHas, DeliversOldest, Passed
  <1>7. RingHolds' /\ MessagesFit'
    BY <1>1, <1>6, RingStays, Zenon
  <1>8. NoSleepBesideBytes'
    <2>1. producer.pc = "idle"
      BY Zenon DEF Send
    <2> QED
      BY <1>1, <1>4, <2>1, Zenon DEF BufInv, NoSleepBesideBytes, Ready, Available, MsgLen
  <1> QED
    BY <1>3, <1>5, <1>6, <1>7, <1>8, Zenon DEF BufInv

(* The send finds room, gives up or goes to sleep.                         *)
LEMMA SendChecksHolds ==
  ASSUME BufInv, SendChecks
  PROVE  BufInv'
  <1>0. BufTypes /\ producer.pc = "check"
    BY Zenon DEF BufInv, SendChecks
  <1>1. UNCHANGED <<kind, buf, head, tail, data_sem, space_sem, consumer, serial, pending, taken>>
    BY Zenon DEF SendChecks
  <1>2. \/ /\ FreeBytes >= FrameSize(producer.len)
           /\ producer' = [producer EXCEPT !.pc = "copy", !.mode = Idle.mode]
        \/ ~(FreeBytes >= FrameSize(producer.len)) /\ producer' = [producer EXCEPT !.pc = "take"]
        \/ producer' = Idle
    BY Zenon DEF SendChecks
  <1>3. producer' \in Producers
    <2>1. CASE producer' = [producer EXCEPT !.pc = "copy", !.mode = Idle.mode]
      BY <1>0, <2>1, RestIs, Zenon DEF BufTypes, Producers
    <2>2. CASE producer' = [producer EXCEPT !.pc = "take"]
      BY <1>0, <2>2, Zenon DEF BufTypes, Producers
    <2> QED
      BY <1>2, <2>1, <2>2, RestIs, Zenon
  <1>t. BufTypes'
    BY <1>0, <1>1, <1>3, Zenon DEF BufTypes
  <1>4. \/ /\ producer'.pc = "copy" /\ FreeBytes >= FrameSize(producer.len)
           /\ producer'.len = producer.len /\ producer'.bytes = producer.bytes
        \/ /\ producer'.pc = "take" /\ ~(FreeBytes >= FrameSize(producer.len))
           /\ producer'.len = producer.len /\ producer'.bytes = producer.bytes
        \/ producer'.pc = "idle"
    BY <1>0, <1>2, RestIs, Zenon DEF BufTypes, Producers
  <1>5. FreeBytes' = FreeBytes /\ (\A l : FrameSize(l)' = FrameSize(l)) /\ (Ready' <=> Ready)
    BY <1>1, Zenon DEF FreeBytes, Available, FrameSize, Ready, MsgLen
  <1>6. ProducerHas'
    <2>1. \A l : Frame(Payload(l))' = Frame(Payload(l))
      BY <1>1, Zenon DEF Frame, Payload, Header
    <2> QED
      BY <1>0, <1>4, <1>5, <2>1, Zenon DEF BufInv, ProducerHas, Sending
  <1>7. ConsumerHas' /\ Passed' = Passed
    BY <1>1, Zenon DEF BufInv, ConsumerHas, DeliversOldest, Passed
  <1>8. RingHolds' /\ MessagesFit'
    BY <1>1, <1>7, RingStays, Zenon
  <1>9. NoSleepBesideBytes'
    BY <1>0, <1>1, <1>4, <1>5, Zenon DEF BufInv, NoSleepBesideBytes
  <1> QED
    BY <1>t, <1>6, <1>7, <1>8, <1>9, Zenon DEF BufInv

(* The send wakes, or tells the consumer and returns.                      *)
LEMMA SendWakesHolds ==
  ASSUME BufInv, SendWakes \/ SendGives
  PROVE  BufInv'
  <1>0. BufTypes /\ producer.pc \in {"take", "give"}
    BY Zenon DEF BufInv, SendWakes, SendGives
  <1>1. UNCHANGED <<kind, buf, head, tail, consumer, serial, pending, taken>>
    BY Zenon DEF SendWakes, SendGives
  <1>2. BufTypes'
    <2>1. producer' \in Producers
      BY <1>0, RestIs, Zenon DEF BufTypes, Producers, SendWakes, SendGives
    <2>2. data_sem' \in {0, 1} /\ space_sem' \in {0, 1}
      BY <1>0, Zenon DEF BufTypes, SendWakes, SendGives, GiveData
    <2> QED
      BY <1>0, <1>1, <2>1, <2>2, Zenon DEF BufTypes
  <1>3. \/ /\ producer.pc = "take" /\ producer'.pc = "check" /\ data_sem' = data_sem
           /\ producer'.len = producer.len /\ producer'.bytes = producer.bytes
        \/ producer'.pc = "idle" /\ data_sem' = 1
    BY <1>0, RestIs, Zenon DEF SendWakes, SendGives, BufTypes, Producers, GiveData
  <1>4. ProducerHas'
    <2>1. (\A l : Frame(Payload(l))' = Frame(Payload(l))) /\ (\A l : FrameSize(l)' = FrameSize(l))
      BY <1>1, Zenon DEF Frame, Payload, Header, FrameSize
    <2> QED
      BY <1>3, <2>1, Zenon DEF BufInv, ProducerHas, Sending
  <1>5. ConsumerHas' /\ Passed' = Passed
    BY <1>1, Zenon DEF BufInv, ConsumerHas, DeliversOldest, Passed
  <1>6. RingHolds' /\ MessagesFit'
    BY <1>1, <1>5, RingStays, Zenon
  <1>7. NoSleepBesideBytes'
    <2>1. Ready' <=> Ready
      BY <1>1, Zenon DEF Ready, Available, MsgLen
    <2> QED
      BY <1>1, <1>3, <2>1 DEF BufInv, NoSleepBesideBytes
  <1> QED
    BY <1>2, <1>4, <1>5, <1>6, <1>7, Zenon DEF BufInv

-----------------------------------------------------------------------------
(* The frames in the ring, in a buffer of messages.                        *)
LEMMA PendingAre ==
  ASSUME BufTypes, kind # "stream"
  PROVE  /\ PendingFrames \in Seq(Seq(Byte)) /\ Len(PendingFrames) = Len(pending)
         /\ \A i \in 1 .. Len(pending) : /\ PendingFrames[i] = Frame(pending[i])
                                         /\ Len(PendingFrames[i]) = HeaderBytes + Len(pending[i])
  <1>1. pending \in Seq(Seq(Byte)) /\ Len(pending) \in Nat
    BY DEF BufTypes
  <1>2. \A i \in 1 .. Len(pending) :
           Frame(pending[i]) \in Seq(Byte) /\ Len(Frame(pending[i])) = HeaderBytes + Len(pending[i])
    <2> SUFFICES ASSUME NEW i \in 1 .. Len(pending)
                 PROVE  /\ Frame(pending[i]) \in Seq(Byte)
                        /\ Len(Frame(pending[i])) = HeaderBytes + Len(pending[i])
      BY Zenon
    <2>1. pending[i] \in Seq(Byte)
      BY <1>1
    <2>2. Frame(pending[i]) \in Seq(Byte) /\ Len(Frame(pending[i])) = FrameSize(Len(pending[i]))
      BY <2>1, FrameIs, Zenon
    <2> QED
      BY <2>2, Zenon DEF FrameSize
  <1>3. PendingFrames \in [1 .. Len(pending) -> Seq(Byte)]
    BY <1>2, Zenon DEF PendingFrames
  <1>4. PendingFrames \in Seq(Seq(Byte)) /\ Len(PendingFrames) = Len(pending)
    BY <1>1, <1>3, FcnIsSeq, Zenon
  <1> QED
    BY <1>2, <1>4, Zenon DEF PendingFrames

(* The oldest message, with its own header, lies where tail is or was.     *)
LEMMA OldestMessage ==
  ASSUME BufInv, kind = "message", Available + Passed > 0
  PROVE  /\ Len(pending) \in Nat \ {0} /\ pending[1] \in Seq(Byte) /\ Len(pending[1]) \in Nat
         /\ HeaderBytes + Len(pending[1]) <= Available + Passed
         /\ Passed = 0 => buf[tail] = Len(pending[1])
         /\ Passed = HeaderBytes =>
              \A k \in 1 .. Len(pending[1]) : buf[Advance(tail, k - 1)] = pending[1][k]
  <1>0. BufTypes /\ pending \in Seq(Seq(Byte)) /\ HeaderBytes \in Nat \ {0} /\ tail \in Index
    BY HeaderAssumption DEF BufInv, BufTypes
  <1>1. Available \in Nat /\ Passed \in Nat /\ Capacity \in Nat
    BY <1>0, AvailableIn, PassedIn
  <1>p. /\ PendingFrames \in Seq(Seq(Byte)) /\ Len(PendingFrames) = Len(pending)
        /\ \A i \in 1 .. Len(pending) : /\ PendingFrames[i] = Frame(pending[i])
                                        /\ Len(PendingFrames[i]) = HeaderBytes + Len(pending[i])
    BY <1>0, PendingAre, Zenon
  <1>2. PICK off \in Offsets(Len(PendingFrames), Available + Passed) :
              Frames(buf, tail, Passed, Available, PendingFrames, off)
    BY Zenon DEF BufInv, RingHolds
  <1>3. Len(pending) \in Nat \ {0}
    BY <1>0, <1>1, <1>2, <1>p DEF Frames
  <1>4. pending[1] \in Seq(Byte) /\ Len(pending[1]) \in Nat
    BY <1>0, <1>3
  <1>5. /\ off[1] = 0 /\ off[2] = HeaderBytes + Len(pending[1])
        /\ \A k \in 1 .. HeaderBytes + Len(pending[1]) :
              k > Passed => buf[Advance(tail, k - 1 - Passed)] = Frame(pending[1])[k]
    <2>0. 1 \in 1 .. Len(PendingFrames)
      BY <1>3, <1>p
    <2>1. off[1] = 0 /\ off[1 + 1] = off[1] + Len(PendingFrames[1])
      BY <1>2, <2>0, Zenon DEF Frames
    <2>2. \A k \in 1 .. Len(PendingFrames[1]) : off[1] + k > Passed =>
             buf[Advance(tail, off[1] + k - 1 - Passed)] = PendingFrames[1][k]
      BY <1>2, <2>0, Zenon DEF Frames
    <2>3. PendingFrames[1] = Frame(pending[1]) /\ Len(PendingFrames[1]) = HeaderBytes + Len(pending[1])
      BY <1>p, <2>0, Zenon
    <2>4. HeaderBytes + Len(pending[1]) \in Int /\ 1 + 1 = 2
      BY <1>0, <1>4
    <2>5. 0 + (HeaderBytes + Len(pending[1])) = HeaderBytes + Len(pending[1])
      BY <2>4
    <2>6. off[1] = 0 /\ off[2] = HeaderBytes + Len(pending[1])
      BY <2>1, <2>3, <2>4, <2>5, Zenon
    <2>7. ASSUME NEW k \in 1 .. HeaderBytes + Len(pending[1]), k > Passed
          PROVE  buf[Advance(tail, k - 1 - Passed)] = Frame(pending[1])[k]
      <3>1. off[1] + k > Passed => buf[Advance(tail, off[1] + k - 1 - Passed)] = PendingFrames[1][k]
        BY <2>2, <2>3, <2>7, Zenon
      <3>2. PICK o \in Int : o = off[1] /\ o = 0
        BY <2>6
      <3>3. o + k > Passed => buf[Advance(tail, o + k - 1 - Passed)] = Frame(pending[1])[k]
        BY <2>3, <3>1, <3>2, Zenon
      <3> QED
        BY <1>1, <2>4, <2>7, <3>2, <3>3
    <2> QED
      BY <2>6, <2>7, Zenon
  <1>6. off[2] <= Available + Passed
    <2>1. 2 \in 1 .. Len(PendingFrames) + 1
      BY <1>3, <1>p
    <2>2. off[2] \in 0 .. Available + Passed
      BY <1>2, <2>1, Zenon DEF Offsets
    <2> QED
      BY <1>1, <2>2
  <1>7. ASSUME Passed = 0
        PROVE  buf[tail] = Len(pending[1])
    <2>1. Advance(tail, 0) = tail
      BY <1>0, CapacityAssumption DEF Advance, Index, RingSize
    <2>2. HeaderBytes + Len(pending[1]) <= Capacity
      BY <1>3 DEF BufInv, MessagesFit
    <2>3. Frame(pending[1])[1] = Len(pending[1])
      BY <1>0, <1>4, <2>2, FrameIs, Zenon
    <2>4. buf[Advance(tail, 1 - 1 - Passed)] = Frame(pending[1])[1]
      BY <1>0, <1>4, <1>5, <1>7
    <2> QED
      BY <1>7, <2>1, <2>3, <2>4
  <1>8. ASSUME Passed = HeaderBytes, NEW k \in 1 .. Len(pending[1])
        PROVE  buf[Advance(tail, k - 1)] = pending[1][k]
    <2>1. Frame(pending[1])[HeaderBytes + k] = pending[1][k]
      BY <1>0, <1>4, FrameIs, Zenon
    <2>2. buf[Advance(tail, HeaderBytes + k - 1 - Passed)] = Frame(pending[1])[HeaderBytes + k]
      BY <1>0, <1>4, <1>5, <1>8
    <2>3. HeaderBytes + k - 1 - Passed = k - 1
      BY <1>0, <1>4, <1>8
    <2> QED
      BY <2>1, <2>2, <2>3, Zenon
  <1> QED
    BY <1>0, <1>3, <1>4, <1>5, <1>6, <1>7, <1>8, Zenon

(* A message that was sent and not received has bytes in the ring, or had. *)
LEMMA MessageIsThere ==
  ASSUME BufInv, kind = "message", Len(pending) > 0
  PROVE  Available + Passed > 0
  <1>0. BufTypes /\ kind # "stream" /\ pending \in Seq(Seq(Byte)) /\ HeaderBytes \in Nat \ {0}
    BY HeaderAssumption DEF BufInv, BufTypes
  <1>1. Available \in Nat /\ Passed \in Nat
    BY <1>0, AvailableIn, PassedIn
  <1>2. /\ Len(PendingFrames) = Len(pending)
        /\ \A i \in 1 .. Len(pending) : Len(PendingFrames[i]) = HeaderBytes + Len(pending[i])
    BY <1>0, PendingAre, Zenon
  <1>3. PICK off \in Offsets(Len(PendingFrames), Available + Passed) :
              Frames(buf, tail, Passed, Available, PendingFrames, off)
    BY <1>0, Zenon DEF BufInv, RingHolds
  <1>4. 1 \in 1 .. Len(pending) /\ 2 \in 1 .. Len(pending) + 1 /\ Len(pending[1]) \in Nat
    BY <1>0
  <1>5. off[1] = 0 /\ off[1 + 1] = off[1] + Len(PendingFrames[1])
    BY <1>2, <1>3, <1>4, Zenon DEF Frames
  <1>6. off[2] \in 0 .. Available + Passed
    BY <1>2, <1>3, <1>4, Zenon DEF Offsets
  <1>7. off[2] = HeaderBytes + Len(pending[1])
    BY <1>0, <1>2, <1>4, <1>5
  <1> QED
    BY <1>0, <1>1, <1>4, <1>6, <1>7

(* A step of the receive that stores no index.                             *)
LEMMA ConsumerQuiet ==
  ASSUME BufInv, BufTypes', ConsumerHas', NoSleepBesideBytes', Passed' = Passed,
         UNCHANGED <<kind, buf, head, tail, producer, serial, pending>>
  PROVE  BufInv'
  <1>1. Available' = Available /\ Available \in Nat
    BY AvailableIn DEF BufInv, Available
  <1>2. ProducerHas'
    BY <1>1, ProducerStays
  <1>3. RingHolds' /\ MessagesFit'
    BY RingStays, Zenon
  <1> QED
    BY <1>2, <1>3, Zenon DEF BufInv

(* A receive begins, wakes, gives and re-arms.                             *)
LEMMA ReceiveHolds ==
  ASSUME BufInv, NEW len \in Nat, NEW mode \in Modes,
         Receive(len, mode) \/ ReceiveWakes \/ ReceiveGives \/ ReceiveRearms
  PROVE  BufInv'
  <1>0. BufTypes /\ len \in Nat
    BY Zenon DEF BufInv
  <1>1. UNCHANGED <<kind, buf, head, tail, producer, serial, pending>>
    BY Zenon DEF Receive, ReceiveWakes, ReceiveGives, ReceiveRearms
  <1>2. consumer' \in Consumers /\ consumer'.pc \in {"idle", "check", "rearm"}
    <2>1. CASE Receive(len, mode)
      BY <1>0, <2>1, RestIs, Zenon DEF Receive, Consumers
    <2>2. CASE ReceiveWakes
      BY <1>0, <2>2, Zenon DEF ReceiveWakes, BufTypes, Consumers
    <2>3. CASE ReceiveGives
      BY <1>0, <2>3, RestIs, Zenon DEF ReceiveGives, BufTypes, Consumers
    <2>4. CASE ReceiveRearms
      BY <1>0, <2>4, RestIs, Zenon DEF ReceiveRearms
    <2> QED
      BY <2>1, <2>2, <2>3, <2>4, Zenon
  <1>3. data_sem' \in {0, 1} /\ space_sem' \in {0, 1} /\ taken' \in Seq(Byte)
    <2>1. data_sem' = data_sem \/ data_sem' \in {0, 1}
      BY Zenon DEF Receive, ReceiveWakes, ReceiveGives, ReceiveRearms, GiveData
    <2>2. space_sem' = space_sem \/ space_sem' = 1
      BY Zenon DEF Receive, ReceiveWakes, ReceiveGives, ReceiveRearms, GiveSpace
    <2>3. taken' = taken \/ taken' = <<>>
      BY Zenon DEF Receive, ReceiveWakes, ReceiveGives, ReceiveRearms
    <2>4. <<>> \in Seq(Byte)
      OBVIOUS
    <2> QED
      BY <1>0, <2>1, <2>2, <2>3, <2>4, Zenon DEF BufTypes
  <1>4. BufTypes'
    BY <1>0, <1>1, <1>2, <1>3, Zenon DEF BufTypes
  <1>5. ConsumerHas' /\ Passed' = 0
    BY <1>2, Zenon DEF ConsumerHas, DeliversOldest, Receiving, Passed
  <1>6. consumer.pc \in {"idle", "take", "give", "rearm"}
    BY Zenon DEF Receive, ReceiveWakes, ReceiveGives, ReceiveRearms
  <1>7. Passed = 0
    BY <1>6, Zenon DEF Passed
  <1>8. NoSleepBesideBytes'
    <2>1. FreeBytes' = FreeBytes /\ \A l : FrameSize(l)' = FrameSize(l)
      BY <1>1, Zenon DEF FreeBytes, Available, FrameSize
    <2>2. (consumer.pc = "give" /\ space_sem' = 1) \/ (consumer.pc # "give" /\ space_sem' = space_sem)
      BY Zenon DEF Receive, ReceiveWakes, ReceiveGives, ReceiveRearms, GiveSpace
    <2> QED
      BY <1>1, <1>2, <1>6, <2>1, <2>2 DEF BufInv, NoSleepBesideBytes
  <1> QED
    BY <1>1, <1>4, <1>5, <1>7, <1>8, ConsumerQuiet, Zenon

(* The receive finds too little and returns or goes to sleep.              *)
LEMMA ReceiveFails ==
  ASSUME BufInv, ReceiveChecks, ~Ready
  PROVE  BufInv'
  <1>0. BufTypes /\ consumer.pc = "check"
    BY Zenon DEF BufInv, ReceiveChecks
  <1>1. /\ UNCHANGED <<kind, buf, head, tail, producer, serial, pending>>
        /\ UNCHANGED <<data_sem, space_sem, taken>>
        /\ consumer' = AtEase \/ consumer' = [consumer EXCEPT !.pc = "take"]
    BY Zenon DEF ReceiveChecks
  <1>2. consumer' \in Consumers /\ consumer'.pc \in {"idle", "take"}
    BY <1>0, <1>1, RestIs, Zenon DEF BufTypes, Consumers
  <1>3. BufTypes'
    BY <1>0, <1>1, <1>2, Zenon DEF BufTypes
  <1>4. ConsumerHas' /\ Passed' = 0 /\ Passed = 0
    BY <1>0, <1>2, Zenon DEF ConsumerHas, DeliversOldest, Receiving, Passed
  <1>5. NoSleepBesideBytes'
    <2>1. FreeBytes' = FreeBytes /\ (\A l : FrameSize(l)' = FrameSize(l)) /\ (Ready' <=> Ready)
      BY <1>1, Zenon DEF FreeBytes, Available, FrameSize, Ready, MsgLen
    <2> QED
      BY <1>0, <1>1, <1>2, <2>1, Zenon DEF BufInv, NoSleepBesideBytes
  <1> QED
    BY <1>1, <1>3, <1>4, <1>5, ConsumerQuiet, Zenon

(* The receive finds bytes, or the oldest message with its own length.     *)
LEMMA ReceiveFinds ==
  ASSUME BufInv, ReceiveChecks, Ready
  PROVE  BufInv'
  <1> DEFINE size == IF kind = "stream" THEN Available ELSE MsgLen
  <1> DEFINE n == Least(size, consumer.max_len)
  <1> DEFINE from == IF kind = "stream" THEN pending ELSE Head(pending)
  <1>0. BufTypes /\ consumer.pc = "check" /\ consumer.max_len \in Nat
    BY Zenon DEF BufInv, ReceiveChecks, BufTypes, Consumers
  <1>1. /\ UNCHANGED <<kind, buf, head, tail, producer, serial, pending>>
        /\ UNCHANGED <<data_sem, space_sem>>
        /\ consumer' = [consumer EXCEPT !.pc = IF kind = "stream" THEN "copy" ELSE "skip",
                          !.mode = IF @ = "isr" THEN @ ELSE "no_wait", !.n = n,
                          !.rest = IF kind = "stream" THEN 0 ELSE size - n]
        /\ taken' = SubSeq(from, 1, n)
    BY Zenon DEF ReceiveChecks
  <1>2. Passed = 0 /\ Available \in 0 .. Capacity /\ Capacity \in Nat /\ HeaderBytes \in Nat \ {0}
    BY <1>0, AvailableIn, HeaderAssumption DEF Passed
  <1>3. from \in Seq(Byte) /\ Len(from) = size /\ size \in 0 .. Capacity
    <2>1. CASE kind = "stream"
      BY <1>0, <1>2, <2>1, Zenon DEF BufInv, BufTypes, RingHolds, Bytes
    <2>2. CASE kind = "message"
      <3>1. Available + Passed > 0
        BY <1>2, <2>2 DEF Ready
      <3>2. /\ Len(pending) \in Nat \ {0} /\ pending[1] \in Seq(Byte) /\ Len(pending[1]) \in Nat
            /\ HeaderBytes + Len(pending[1]) <= Available + Passed
            /\ Passed = 0 => buf[tail] = Len(pending[1])
        BY <2>2, <3>1, OldestMessage, Zenon
      <3>3. Head(pending) = pending[1] /\ size = Len(pending[1])
        BY <1>2, <2>2, <3>2 DEF MsgLen
      <3> QED
        BY <1>2, <2>2, <3>2, <3>3
    <2> QED
      BY <1>0, <2>1, <2>2, KindIs, Zenon
  <1>4. n \in 0 .. size /\ n \in 0 .. Capacity /\ size - n \in 0 .. Capacity /\ 0 \in 0 .. Capacity
    BY <1>0, <1>2, <1>3 DEF Least
  <1> HIDE DEF n, size, from
  <1>5. taken' \in Seq(Byte)
    BY <1>1, <1>3, <1>4, PartsAre, Zenon
  <1>6. /\ consumer' \in Consumers
        /\ consumer'.pc = IF kind = "stream" THEN "copy" ELSE "skip"
        /\ consumer'.n = n /\ consumer'.rest = IF kind = "stream" THEN 0 ELSE size - n
    BY <1>0, <1>1, <1>4, Zenon DEF BufTypes, Consumers, Modes
  <1>7. BufTypes'
    BY <1>0, <1>1, <1>5, <1>6, Zenon DEF BufTypes
  <1>8. ConsumerHas'
    <2>1. CASE kind = "stream"
      BY <1>1, <1>3, <1>4, <1>6, <2>1 DEF ConsumerHas, DeliversOldest, from
    <2>2. CASE kind # "stream"
      <3>1. Available + Passed > 0 /\ kind = "message"
        BY <1>0, <1>2, <2>2, KindIs DEF Ready
      <3>2. Len(pending) \in Nat \ {0}
        BY <3>1, OldestMessage, Zenon
      <3>3. from = pending[1]
        BY <2>2, <3>2 DEF from
      <3>4. consumer'.n + consumer'.rest = Len(pending'[1])
        BY <1>1, <1>2, <1>3, <1>4, <1>6, <2>2, <3>3
      <3>p. pending' = pending /\ Len(pending) > 0
        BY <1>1, <3>2
      <3>5. taken' = SubSeq(pending'[1], 1, consumer'.n) /\ Len(pending') > 0
        <4>1. taken' = SubSeq(from, 1, n) /\ consumer'.n = n
          BY <1>1, <1>6, Zenon
        <4> QED
          BY <4>1, <3>3, <3>p, Zenon
      <3>6. consumer'.pc = "skip" /\ kind' # "stream"
        BY <1>1, <1>6, <2>2, Zenon
      <3> QED
        BY <3>4, <3>5, <3>6, Zenon DEF ConsumerHas, DeliversOldest
    <2> QED
      BY <2>1, <2>2, Zenon
  <1>9. Passed' = 0 /\ NoSleepBesideBytes'
    BY <1>1, <1>6 DEF Passed, NoSleepBesideBytes
  <1> QED
    BY <1>1, <1>2, <1>7, <1>8, <1>9, ConsumerQuiet, Zenon

(* The copy of the receive is what it has to deliver.                      *)
LEMMA ReceiveCopiesHolds ==
  ASSUME BufInv, ReceiveCopies
  PROVE  BufInv'
  <1>0. BufTypes /\ consumer.pc = "copy" /\ consumer.n \in Nat
    BY DEF BufInv, ReceiveCopies, BufTypes, Consumers
  <1>1. /\ UNCHANGED <<kind, buf, head, tail, producer, serial, pending>>
        /\ UNCHANGED <<data_sem, space_sem, taken>>
        /\ consumer' = [consumer EXCEPT !.pc = "advance", !.out = CopyOut(tail, consumer.n)]
    BY Zenon DEF ReceiveCopies
  <1>2. taken \in Seq(Byte) /\ Len(taken) = consumer.n
        /\ \A k \in 1 .. consumer.n : buf[Advance(tail, k - 1)] = taken[k]
    <2>1. CASE kind = "stream"
      <3>1. /\ consumer.n \in 0 .. Len(pending) /\ taken = SubSeq(pending, 1, consumer.n)
            /\ pending \in Seq(Byte)
        BY <1>0, <2>1 DEF BufInv, ConsumerHas, Receiving, BufTypes
      <3>2. \A k \in 1 .. Len(pending) : buf[Advance(tail, k - 1)] = pending[k]
        BY <2>1, Zenon DEF BufInv, RingHolds, Bytes
      <3>3. /\ taken \in Seq(Byte) /\ Len(taken) = consumer.n
            /\ \A k \in 1 .. consumer.n : taken[k] = pending[k]
        BY <3>1, PartsAre, Zenon
      <3>4. \A k \in 1 .. consumer.n : k \in 1 .. Len(pending)
        BY <3>1
      <3> QED
        BY <3>2, <3>3, <3>4, Zenon
    <2>2. CASE kind = "message"
      <3>1. Passed = HeaderBytes /\ HeaderBytes \in Nat \ {0} /\ Available \in Nat
        BY <1>0, <2>2, AvailableIn, HeaderAssumption DEF Passed
      <3>2. /\ Len(pending[1]) \in Nat /\ pending[1] \in Seq(Byte)
            /\ \A k \in 1 .. Len(pending[1]) : buf[Advance(tail, k - 1)] = pending[1][k]
        BY <2>2, <3>1, OldestMessage
      <3>3. /\ consumer.n + consumer.rest = Len(pending[1]) /\ consumer.rest \in Nat
            /\ taken = SubSeq(pending[1], 1, consumer.n)
        BY <1>0, <2>2 DEF BufInv, ConsumerHas, Receiving, BufTypes, Consumers
      <3>4. consumer.n \in 0 .. Len(pending[1])
        BY <1>0, <3>2, <3>3
      <3>5. /\ taken \in Seq(Byte) /\ Len(taken) = consumer.n
            /\ \A k \in 1 .. consumer.n : taken[k] = pending[1][k]
        BY <3>2, <3>3, <3>4, PartsAre, Zenon
      <3>6. \A k \in 1 .. consumer.n : k \in 1 .. Len(pending[1])
        BY <3>2, <3>4
      <3> QED
        BY <3>2, <3>5, <3>6, Zenon
    <2> QED
      BY <1>0, <2>1, <2>2, KindIs, Zenon
  <1>3. CopyOut(tail, consumer.n) = taken
    BY <1>0, <1>2, SameSeq DEF CopyOut
  <1>4. /\ consumer' \in Consumers /\ consumer'.pc = "advance" /\ consumer'.out = taken
        /\ consumer'.n = consumer.n /\ consumer'.rest = consumer.rest
    BY <1>0, <1>1, <1>2, <1>3, Zenon DEF BufTypes, Consumers
  <1>5. BufTypes'
    BY <1>0, <1>1, <1>4, Zenon DEF BufTypes
  <1>6. ConsumerHas'
    BY <1>0, <1>1, <1>4, Zenon DEF BufInv, ConsumerHas, DeliversOldest, Receiving
  <1>7. Passed' = Passed /\ NoSleepBesideBytes'
    BY <1>0, <1>1, <1>4, Zenon DEF Passed, NoSleepBesideBytes
  <1> QED
    BY <1>1, <1>5, <1>6, <1>7, ConsumerQuiet, Zenon

-----------------------------------------------------------------------------
(* The places of the bytes of the frames.                                  *)
Places(b, t, p, a, fs, off) ==
  \A i \in 1 .. Len(fs) : \A k \in 1 .. Len(fs[i]) :
     \E o \in Nat : /\ off[i] = o /\ o + k <= a + p
                    /\ o + k > p => b[Advance(t, o + k - 1 - p)] = fs[i][k]

(* They are in the ring.                                                   *)
LEMMA FramePlace ==
  ASSUME NEW b, NEW t \in Index, NEW p \in Nat, NEW a \in 0 .. Capacity,
         NEW fs \in Seq(Seq(Byte)), NEW off \in Offsets(Len(fs), a + p),
         Frames(b, t, p, a, fs, off)
  PROVE  Places(b, t, p, a, fs, off)
  <1> SUFFICES ASSUME NEW i \in 1 .. Len(fs), NEW k \in 1 .. Len(fs[i])
               PROVE  \E o \in Nat : /\ off[i] = o /\ o + k <= a + p
                                     /\ o + k > p => b[Advance(t, o + k - 1 - p)] = fs[i][k]
    BY Zenon DEF Places
  <1>1. Len(fs[i]) \in Nat /\ Capacity \in Nat
    BY CapacityAssumption
  <1>2. i \in 1 .. Len(fs) + 1 /\ i + 1 \in 1 .. Len(fs) + 1
    OBVIOUS
  <1>3. off[i] \in 0 .. a + p /\ off[i + 1] \in 0 .. a + p
    BY <1>2, Zenon DEF Offsets
  <1>4. off[i + 1] = off[i] + Len(fs[i])
    BY Zenon DEF Frames
  <1>5. off[i] + k > p => b[Advance(t, off[i] + k - 1 - p)] = fs[i][k]
    BY Zenon DEF Frames
  <1>6. PICK o \in 0 .. a + p : o = off[i]
    BY <1>3, Zenon
  <1>7. PICK next \in 0 .. a + p : next = off[i + 1]
    BY <1>3, Zenon
  <1>8. PICK l \in Nat : l = Len(fs[i])
    BY <1>1, Zenon
  <1>9. next = o + l /\ k \in 1 .. l
    BY <1>4, <1>6, <1>7, <1>8, Zenon
  <1>10. o \in Nat /\ o + k <= a + p
    BY <1>1, <1>9
  <1> QED
    BY <1>5, <1>6, <1>10, Zenon

(* Where byte o + k is, counted from a tail that has moved on by d.        *)
LEMMA PlaceFromTail ==
  ASSUME NEW a \in Nat, NEW p \in Nat, NEW d \in Nat, NEW o \in Nat, NEW k \in Nat,
         NEW c \in Nat, a <= c, o + k <= a + p, o + k > p + d
  PROVE  /\ o + k - 1 - (p + d) \in Nat /\ o + k > p
         /\ d + (o + k - 1 - (p + d)) = o + k - 1 - p
         /\ d + (o + k - 1 - (p + d)) <= c
  OBVIOUS

(* tail moves on within the oldest message.                                *)
LEMMA FramesWithin ==
  ASSUME NEW b, NEW t \in Index, NEW p \in Nat, NEW a \in 0 .. Capacity,
         NEW fs \in Seq(Seq(Byte)), NEW off \in Offsets(Len(fs), a + p),
         Frames(b, t, p, a, fs, off), NEW d \in 0 .. a
  PROVE  Frames(b, Advance(t, d), p + d, a - d, fs, off)
  <1>0. Places(b, t, p, a, fs, off)
    BY FramePlace, Zenon
  <1>1. ASSUME NEW i \in 1 .. Len(fs), NEW k \in 1 .. Len(fs[i]), off[i] + k > p + d
        PROVE  b[Advance(Advance(t, d), off[i] + k - 1 - (p + d))] = fs[i][k]
    <2>1. PICK o \in Nat : /\ off[i] = o /\ o + k <= a + p
                           /\ o + k > p => b[Advance(t, o + k - 1 - p)] = fs[i][k]
      BY <1>0, Zenon DEF Places
    <2> DEFINE q == o + k - 1 - (p + d)
    <2>2. q \in Nat /\ d \in Nat /\ d + q = o + k - 1 - p /\ d + q <= Capacity /\ o + k > p
      <3>1. o + k > p + d
        BY <1>1, <2>1, Zenon
      <3>2. k \in Nat
        OBVIOUS
      <3>3. a \in Nat /\ d \in Nat /\ Capacity \in Nat /\ a <= Capacity
        BY CapacityAssumption
      <3>4. o + k <= a + p
        BY <2>1, Zenon
      <3>5. /\ o + k - 1 - (p + d) \in Nat /\ o + k > p
            /\ d + (o + k - 1 - (p + d)) = o + k - 1 - p
            /\ d + (o + k - 1 - (p + d)) <= Capacity
        <4> HIDE DEF q
        <4> QED
          BY <3>1, <3>2, <3>3, <3>4, PlaceFromTail
      <3> QED
        BY <3>3, <3>5, Zenon
    <2>3. Advance(Advance(t, d), q) = Advance(t, d + q)
      <3> HIDE DEF q
      <3> QED
        BY <2>2, AdvanceTwice, Zenon
    <2>4. b[Advance(Advance(t, d), q)] = fs[i][k]
      BY <2>1, <2>2, <2>3, Zenon
    <2> QED
      BY <2>1, <2>4, Zenon
  <1>2. off[1] = 0 /\ off[Len(fs) + 1] = (a - d) + (p + d)
    BY CapacityAssumption DEF Frames
  <1>3. /\ \A i \in 1 .. Len(fs) : off[i + 1] = off[i] + Len(fs[i])
        /\ \A i, j \in 1 .. Len(fs) + 1 : j <= i => off[j] <= off[i]
    BY Zenon DEF Frames
  <1> QED
    BY <1>1, <1>2, <1>3, Zenon DEF Frames

(* tail moves to the end of the oldest message, which is gone.             *)
LEMMA FramesBeyond ==
  ASSUME NEW b, NEW t \in Index, NEW p \in Nat, NEW a \in 0 .. Capacity,
         NEW fs \in Seq(Seq(Byte)), NEW off \in Offsets(Len(fs), a + p),
         Frames(b, t, p, a, fs, off), NEW d \in 0 .. a, Len(fs) > 0, p + d = Len(fs[1])
  PROVE  \E new \in Offsets(Len(Tail(fs)), (a - d) + 0) :
            Frames(b, Advance(t, d), 0, a - d, Tail(fs), new)
  <1>0. /\ Len(fs) \in Nat \ {0} /\ Tail(fs) \in Seq(Seq(Byte)) /\ Len(Tail(fs)) = Len(fs) - 1
        /\ \A i \in 1 .. Len(fs) - 1 : Tail(fs)[i] = fs[i + 1]
        /\ 1 \in 1 .. Len(fs) /\ Capacity \in Nat
    BY CapacityAssumption
  <1>1. off[2] = p + d
    <2>1. off[1] = 0 /\ off[1 + 1] = off[1] + Len(fs[1]) /\ fs[1] \in Seq(Byte)
      BY <1>0 DEF Frames
    <2> QED
      BY <2>1
  <1> DEFINE n == Len(fs) - 1
  <1> DEFINE new == [i \in 1 .. n + 1 |-> off[i + 1] - off[2]]
  <1>2. ASSUME NEW i \in 1 .. n + 1
        PROVE  \E o \in Nat : /\ off[i + 1] = o /\ o >= p + d
                              /\ new[i] = o - (p + d) /\ o - (p + d) \in 0 .. (a - d) + 0
    <2>1. i + 1 \in 1 .. Len(fs) + 1 /\ 2 \in 1 .. Len(fs) + 1 /\ 2 <= i + 1
      BY <1>0
    <2>2. off[i + 1] \in 0 .. a + p /\ off[2] <= off[i + 1]
      BY <2>1, Zenon DEF Frames, Offsets
    <2>3. PICK o \in 0 .. a + p : o = off[i + 1]
      BY <2>2, Zenon
    <2>4. new[i] = o - (p + d) /\ o >= p + d
      BY <1>1, <2>2, <2>3, Zenon
    <2>5. o \in Nat /\ o - (p + d) \in 0 .. (a - d) + 0
      BY <1>0, <2>4
    <2> QED
      BY <2>3, <2>4, <2>5, Zenon
  <1>p. Places(b, t, p, a, fs, off)
    BY FramePlace, Zenon
  <1>3. ASSUME NEW i \in 1 .. n, NEW k \in 1 .. Len(fs[i + 1])
        PROVE  b[Advance(Advance(t, d), new[i] + k - 1 - 0)] = fs[i + 1][k]
    <2>0. i + 1 \in 1 .. Len(fs) /\ i \in 1 .. n + 1 /\ k \in Nat \ {0}
      BY <1>0
    <2>1. PICK o \in Nat : /\ off[i + 1] = o /\ o + k <= a + p
                           /\ o + k > p => b[Advance(t, o + k - 1 - p)] = fs[i + 1][k]
      BY <1>p, <2>0, Zenon DEF Places
    <2>2. new[i] = o - (p + d) /\ o >= p + d
      BY <1>2, <2>0, <2>1, Zenon
    <2> DEFINE q == o - (p + d) + k - 1 - 0
    <2>3. q \in Nat /\ d \in Nat /\ d + q = o + k - 1 - p /\ d + q <= Capacity /\ o + k > p
      BY <1>0, <2>0, <2>1, <2>2, SMTT(30)
    <2>4. Advance(Advance(t, d), q) = Advance(t, d + q)
      <3> HIDE DEF q
      <3> QED
        BY <2>3, AdvanceTwice, Zenon
    <2>5. b[Advance(Advance(t, d), q)] = fs[i + 1][k]
      BY <2>1, <2>3, <2>4, Zenon
    <2> HIDE DEF new
    <2> QED
      BY <2>2, <2>5, Zenon
  <1>4. new[1] = 0 /\ new[n + 1] = (a - d) + 0
    <2>1. off[Len(fs) + 1] = a + p
      BY Zenon DEF Frames
    <2> QED
      BY <1>0, <1>1, <1>2, <2>1
  <1>5. ASSUME NEW i \in 1 .. n
        PROVE  new[i + 1] = new[i] + Len(fs[i + 1])
    <2>0. i + 1 \in 1 .. Len(fs) /\ i \in 1 .. n + 1 /\ i + 1 \in 1 .. n + 1 /\ Len(fs[i + 1]) \in Nat
      BY <1>0
    <2>1. off[i + 1 + 1] = off[i + 1] + Len(fs[i + 1])
      BY <2>0, Zenon DEF Frames
    <2>2. PICK o \in Nat : off[i + 1] = o /\ new[i] = o - (p + d)
      BY <1>2, <2>0, Zenon
    <2>3. PICK next \in Nat : off[i + 1 + 1] = next /\ new[i + 1] = next - (p + d)
      BY <1>2, <2>0, Zenon
    <2>4. PICK l \in Nat : l = Len(fs[i + 1])
      BY <2>0, Zenon
    <2> HIDE DEF new
    <2>5. next = o + l
      BY <2>1, <2>2, <2>3, <2>4, Zenon
    <2>6. next - (p + d) = o - (p + d) + l
      BY <2>5
    <2> QED
      BY <2>2, <2>3, <2>4, <2>6, Zenon
  <1>6. ASSUME NEW i \in 1 .. n + 1, NEW j \in 1 .. n + 1, j <= i
        PROVE  new[j] <= new[i]
    <2>1. i + 1 \in 1 .. Len(fs) + 1 /\ j + 1 \in 1 .. Len(fs) + 1 /\ j + 1 <= i + 1
      BY <1>0, <1>6
    <2>2. off[j + 1] <= off[i + 1]
      BY <2>1, Zenon DEF Frames
    <2>3. PICK o \in Nat : off[i + 1] = o /\ new[i] = o - (p + d)
      BY <1>2, Zenon
    <2>4. PICK m \in Nat : off[j + 1] = m /\ new[j] = m - (p + d)
      BY <1>2, Zenon
    <2> HIDE DEF new
    <2>5. m <= o
      BY <2>2, <2>3, <2>4, Zenon
    <2>6. m - (p + d) <= o - (p + d)
      BY <2>5
    <2> QED
      BY <2>3, <2>4, <2>6, Zenon
  <1>7. new \in Offsets(n, (a - d) + 0)
    BY <1>2, Zenon DEF Offsets
  <1> HIDE DEF new
  <1>8. Frames(b, Advance(t, d), 0, a - d, Tail(fs), new)
    BY <1>0, <1>3, <1>4, <1>5, <1>6 DEF Frames
  <1> QED
    BY <1>0, <1>7, <1>8, Zenon

(* A write elsewhere in the ring.                                          *)
LEMMA FramesWritten ==
  ASSUME NEW b, NEW t \in Index, NEW p \in Nat, NEW a \in 0 .. Capacity,
         NEW fs \in Seq(Seq(Byte)), NEW off \in Offsets(Len(fs), a + p),
         Frames(b, t, p, a, fs, off), NEW c, \A e \in 0 .. a - 1 : c[Advance(t, e)] = b[Advance(t, e)]
  PROVE  Frames(c, t, p, a, fs, off)
  <1>0. Places(b, t, p, a, fs, off)
    BY FramePlace, Zenon
  <1>1. ASSUME NEW i \in 1 .. Len(fs), NEW k \in 1 .. Len(fs[i]), off[i] + k > p
        PROVE  c[Advance(t, off[i] + k - 1 - p)] = fs[i][k]
    <2>1. PICK o \in Nat : /\ off[i] = o /\ o + k <= a + p
                           /\ o + k > p => b[Advance(t, o + k - 1 - p)] = fs[i][k]
      BY <1>0, Zenon DEF Places
    <2>2. o + k > p /\ k \in Nat
      BY <1>1, <2>1
    <2>3. o + k - 1 - p \in 0 .. a - 1
      BY <2>1, <2>2, CapacityAssumption
    <2>4. c[Advance(t, o + k - 1 - p)] = fs[i][k]
      BY <2>1, <2>2, <2>3, Zenon
    <2> QED
      BY <2>1, <2>4, Zenon
  <1> QED
    BY <1>1, Zenon DEF Frames

(* One more frame, in place behind the others.                             *)
LEMMA FramesPublished ==
  ASSUME NEW b, NEW t \in Index, NEW p \in Nat, NEW a \in 0 .. Capacity,
         NEW fs \in Seq(Seq(Byte)), NEW off \in Offsets(Len(fs), a + p),
         Frames(b, t, p, a, fs, off), NEW f \in Seq(Byte), a + Len(f) <= Capacity,
         \A k \in 1 .. Len(f) : b[Advance(Advance(t, a), k - 1)] = f[k]
  PROVE  \E new \in Offsets(Len(Append(fs, f)), (a + Len(f)) + p) :
            Frames(b, t, p, a + Len(f), Append(fs, f), new)
  <1> DEFINE n == Len(fs)
  <1> DEFINE gs == Append(fs, f)
  <1>0. /\ n \in Nat /\ gs \in Seq(Seq(Byte)) /\ Len(gs) = n + 1 /\ gs[n + 1] = f
        /\ \A i \in 1 .. n : gs[i] = fs[i]
        /\ Capacity \in Nat /\ a \in Nat
    BY CapacityAssumption
  <1>l. PICK l \in Nat : l = Len(f)
    OBVIOUS
  <1> DEFINE new == [i \in 1 .. (n + 1) + 1 |-> IF i <= n + 1 THEN off[i] ELSE a + l + p]
  <1>1. ASSUME NEW i \in 1 .. n + 1
        PROVE  \E o \in 0 .. a + p : off[i] = o /\ new[i] = o
    <2>1. off[i] \in 0 .. a + p
      BY Zenon DEF Offsets
    <2>2. new[i] = off[i]
      BY <1>0
    <2> HIDE DEF new
    <2> QED
      BY <2>1, <2>2, Zenon
  <1>2. new[n + 2] = a + l + p /\ new[n + 1] = a + p /\ off[n + 1] = a + p
    BY <1>0 DEF Frames
  <1>3. new[1] = 0 /\ new[(n + 1) + 1] = (a + l) + p
    BY <1>0, <1>2 DEF Frames
  <1>4. new \in Offsets(n + 1, (a + l) + p)
    <2> SUFFICES ASSUME NEW i \in 1 .. (n + 1) + 1
                 PROVE  new[i] \in 0 .. (a + l) + p
      BY Zenon DEF Offsets
    <2>1. CASE i \in 1 .. n + 1
      <3>1. PICK o \in 0 .. a + p : new[i] = o
        BY <1>1, <2>1, Zenon
      <3>2. o \in 0 .. (a + l) + p
        BY <1>0
      <3> QED
        BY <3>1, <3>2, Zenon
    <2>2. CASE i = n + 2
      BY <1>0, <1>2, <2>2
    <2> QED
      BY <1>0, <2>1, <2>2
  <1>5. ASSUME NEW i \in 1 .. n + 1
        PROVE  new[i + 1] = new[i] + Len(gs[i])
    <2>1. CASE i \in 1 .. n
      <3>1. new[i] = off[i] /\ new[i + 1] = off[i + 1] /\ gs[i] = fs[i]
        BY <1>0, <2>1, SMTT(30)
      <3>2. off[i + 1] = off[i] + Len(fs[i])
        BY <2>1, Zenon DEF Frames
      <3> HIDE DEF new, gs
      <3> QED
        BY <3>1, <3>2, Zenon
    <2>2. CASE i = n + 1
      <3>1. new[i + 1] = a + l + p /\ new[i] = a + p /\ gs[i] = f
        BY <1>0, <1>2, <2>2
      <3>2. a + l + p = a + p + l
        BY <1>0
      <3> HIDE DEF new, gs
      <3> QED
        BY <1>l, <3>1, <3>2, Zenon
    <2>3. i \in 1 .. n \/ i = n + 1
      BY <1>0
    <2> HIDE DEF new, gs
    <2> QED
      BY <2>1, <2>2, <2>3, Zenon
  <1>6. ASSUME NEW i \in 1 .. n + 1, NEW k \in 1 .. Len(gs[i]), new[i] + k > p
        PROVE  b[Advance(t, new[i] + k - 1 - p)] = gs[i][k]
    <2>1. CASE i \in 1 .. n
      <3>1. new[i] = off[i] /\ gs[i] = fs[i]
        BY <1>0, <2>1
      <3> HIDE DEF new, gs
      <3> QED
        BY <1>6, <2>1, <3>1, Zenon DEF Frames
    <2>2. CASE i = n + 1
      <3>1. new[i] = a + p /\ gs[i] = f
        BY <1>0, <1>2, <2>2, Zenon
      <3>2. k \in 1 .. l
        BY <1>l, <3>1, Zenon
      <3>3. a + p + k - 1 - p = a + (k - 1) /\ k - 1 \in Nat /\ a + (k - 1) <= Capacity
        BY <1>0, <1>l, <3>2
      <3>4. Advance(Advance(t, a), k - 1) = Advance(t, a + (k - 1))
        BY <1>0, <3>3, AdvanceTwice, Zenon
      <3>5. b[Advance(Advance(t, a), k - 1)] = f[k]
        BY <1>l, <3>2, Zenon
      <3> HIDE DEF new, gs
      <3> QED
        BY <3>1, <3>3, <3>4, <3>5, Zenon
    <2>3. i \in 1 .. n \/ i = n + 1
      BY <1>0
    <2> HIDE DEF new, gs
    <2> QED
      BY <2>1, <2>2, <2>3, Zenon
  <1>7. ASSUME NEW i \in 1 .. (n + 1) + 1, NEW j \in 1 .. (n + 1) + 1, j <= i
        PROVE  new[j] <= new[i]
    <2>1. CASE i \in 1 .. n + 1
      <3>1. j \in 1 .. n + 1 /\ new[i] = off[i] /\ new[j] = off[j]
        BY <1>0, <1>7, <2>1
      <3> HIDE DEF new
      <3> QED
        BY <1>7, <2>1, <3>1, Zenon DEF Frames
    <2>2. CASE i = n + 2 /\ j \in 1 .. n + 1
      <3>1. PICK o \in 0 .. a + p : new[j] = o
        BY <1>1, <2>2, Zenon
      <3>2. o <= a + l + p
        BY <1>0
      <3> HIDE DEF new
      <3> QED
        BY <1>2, <2>2, <3>1, <3>2, Zenon
    <2>3. CASE i = n + 2 /\ j = n + 2
      BY <1>0, <1>2, <2>3
    <2> QED
      BY <1>0, <1>7, <2>1, <2>2, <2>3, SMTT(30)
  <1> HIDE DEF new, gs
  <1>8. Frames(b, t, p, a + l, gs, new)
    BY <1>0, <1>3, <1>5, <1>6, <1>7, Zenon DEF Frames
  <1> QED
    BY <1>0, <1>l, <1>4, <1>8, Zenon DEF gs

(* The same of a stream: bytes are read.                                   *)
LEMMA BytesBeyond ==
  ASSUME NEW b, NEW t \in Index, NEW a \in 0 .. Capacity, NEW s \in Seq(Byte), Bytes(b, t, a, s),
         NEW d \in 0 .. a
  PROVE  Bytes(b, Advance(t, d), a - d, SubSeq(s, d + 1, Len(s)))
  <1>0. Capacity \in Nat /\ a \in Nat /\ d \in Nat /\ Len(s) = a
    BY CapacityAssumption DEF Bytes
  <1>1. /\ Len(SubSeq(s, d + 1, Len(s))) = a - d
        /\ \A k \in 1 .. a - d : SubSeq(s, d + 1, Len(s))[k] = s[d + k]
    BY <1>0, PartsAre, Zenon
  <1>2. ASSUME NEW k \in 1 .. a - d
        PROVE  b[Advance(Advance(t, d), k - 1)] = s[d + k]
    <2>1. k - 1 \in Nat /\ d + (k - 1) <= Capacity /\ d + (k - 1) = (d + k) - 1 /\ d + k \in 1 .. a
      BY <1>0
    <2>2. Advance(Advance(t, d), k - 1) = Advance(t, d + (k - 1))
      BY <1>0, <2>1, AdvanceTwice, Zenon
    <2> QED
      BY <2>1, <2>2, Zenon DEF Bytes
  <1> QED
    BY <1>1, <1>2, Zenon DEF Bytes

(* Bytes are written elsewhere in the ring.                                *)
LEMMA BytesWritten ==
  ASSUME NEW b, NEW t \in Index, NEW a \in 0 .. Capacity, NEW s \in Seq(Byte), Bytes(b, t, a, s),
         NEW c, \A e \in 0 .. a - 1 : c[Advance(t, e)] = b[Advance(t, e)]
  PROVE  Bytes(c, t, a, s)
  <1>1. \A k \in 1 .. a : k - 1 \in 0 .. a - 1
    BY CapacityAssumption
  <1> QED
    BY <1>1, Zenon DEF Bytes

(* Bytes are added behind the others.                                      *)
LEMMA BytesPublished ==
  ASSUME NEW b, NEW t \in Index, NEW a \in 0 .. Capacity, NEW s \in Seq(Byte), Bytes(b, t, a, s),
         NEW f \in Seq(Byte), a + Len(f) <= Capacity,
         \A k \in 1 .. Len(f) : b[Advance(Advance(t, a), k - 1)] = f[k]
  PROVE  Bytes(b, t, a + Len(f), s \o f)
  <1>0. Capacity \in Nat /\ a \in Nat /\ Len(s) = a
    BY CapacityAssumption DEF Bytes
  <1>l. PICK l \in Nat : l = Len(f)
    OBVIOUS
  <1>1. /\ Len(s \o f) = a + l
        /\ \A k \in 1 .. a : (s \o f)[k] = s[k]
        /\ \A k \in 1 .. l : (s \o f)[a + k] = f[k]
    <2>1. /\ Len(s \o f) = Len(s) + Len(f)
          /\ \A k \in 1 .. Len(s) : (s \o f)[k] = s[k]
          /\ \A k \in 1 .. Len(f) : (s \o f)[Len(s) + k] = f[k]
      BY ConcatIs
    <2> QED
      BY <1>0, <1>l, <2>1, Zenon
  <1>2. ASSUME NEW k \in 1 .. a + l
        PROVE  b[Advance(t, k - 1)] = (s \o f)[k]
    <2>1. CASE k <= a
      BY <1>0, <1>1, <2>1 DEF Bytes
    <2>2. CASE ~(k <= a)
      <3>1. PICK m \in 1 .. l : k = a + m
        <4>1. k - a \in 1 .. l /\ k = a + (k - a)
          BY <1>0, <2>2
        <4> QED
          BY <4>1, Zenon
      <3>2. m - 1 \in Nat /\ a + (m - 1) <= Capacity /\ a + (m - 1) = k - 1
        BY <1>0, <1>l, <3>1
      <3>3. Advance(Advance(t, a), m - 1) = Advance(t, a + (m - 1))
        BY <1>0, <3>2, AdvanceTwice, Zenon
      <3> QED
        BY <1>1, <1>l, <3>1, <3>2, <3>3, SMTT(30)
    <2> QED
      BY <2>1, <2>2, Zenon
  <1> QED
    BY <1>1, <1>2, <1>l, Zenon DEF Bytes

-----------------------------------------------------------------------------
(* A step of the receive that stores tail, d bytes further on.             *)
LEMMA ConsumerMoves ==
  ASSUME BufInv, BufTypes', ConsumerHas', RingHolds', MessagesFit', NEW d \in 0 .. Available,
         tail' = Advance(tail, d), UNCHANGED <<kind, buf, head, producer, serial>>,
         consumer'.pc \in {"copy", "rest", "give"}
  PROVE  BufInv'
  <1>1. Available' = Available - d /\ Available \in Nat
    BY AvailableIn, DistanceMoves DEF BufInv, BufTypes, Available
  <1>2. Available' <= Available
    BY <1>1
  <1>3. ProducerHas'
    BY <1>2, ProducerStays, Zenon
  <1>4. NoSleepBesideBytes'
    BY Zenon DEF NoSleepBesideBytes
  <1> QED
    BY <1>3, <1>4, Zenon DEF BufInv

(* tail moves on within the message being received.                        *)
LEMMA TailWithin ==
  ASSUME BufInv, kind # "stream", NEW d \in 0 .. Available, tail' = Advance(tail, d),
         Passed' = Passed + d, UNCHANGED <<kind, buf, head, pending>>
  PROVE  RingHolds' /\ MessagesFit'
  <1>0. BufTypes /\ tail \in Index /\ head \in Index
    BY Zenon DEF BufInv, BufTypes
  <1>1. Available \in 0 .. Capacity /\ Passed \in Nat /\ Capacity \in Nat
    BY <1>0, AvailableIn, PassedIn, Zenon
  <1>2. Available' = Available - d
    BY <1>0, DistanceMoves, Zenon DEF Available
  <1>3. PendingFrames \in Seq(Seq(Byte)) /\ PendingFrames' = PendingFrames
    BY <1>0, PendingAre, Zenon DEF PendingFrames, Frame, Header
  <1>4. PICK off \in Offsets(Len(PendingFrames), Available + Passed) :
              Frames(buf, tail, Passed, Available, PendingFrames, off)
    BY Zenon DEF BufInv, RingHolds
  <1>5. Frames(buf, Advance(tail, d), Passed + d, Available - d, PendingFrames, off)
    BY <1>0, <1>1, <1>3, <1>4, FramesWithin, Zenon
  <1>6. (Available - d) + (Passed + d) = Available + Passed
    BY <1>1
  <1>7. RingHolds'
    BY <1>2, <1>3, <1>4, <1>5, <1>6, Zenon DEF RingHolds
  <1>8. MessagesFit'
    BY Zenon DEF BufInv, MessagesFit
  <1> QED
    BY <1>7, <1>8, Zenon

(* The receive is past the oldest message, which leaves the buffer.        *)
LEMMA TailBeyond ==
  ASSUME BufInv, kind # "stream", Len(pending) > 0, NEW d \in 0 .. Available,
         tail' = Advance(tail, d), Passed + d = HeaderBytes + Len(pending[1]), Passed' = 0,
         pending' = Tail(pending), UNCHANGED <<kind, buf, head>>
  PROVE  RingHolds' /\ MessagesFit' /\ pending' \in Seq(Seq(Byte))
  <1>0. BufTypes /\ tail \in Index /\ head \in Index /\ pending \in Seq(Seq(Byte))
    BY Zenon DEF BufInv, BufTypes
  <1>1. Available \in 0 .. Capacity /\ Passed \in Nat /\ Capacity \in Nat
    BY <1>0, AvailableIn, PassedIn, Zenon
  <1>2. Available' = Available - d
    BY <1>0, DistanceMoves, Zenon DEF Available
  <1>3. /\ PendingFrames \in Seq(Seq(Byte)) /\ Len(PendingFrames) = Len(pending)
        /\ \A i \in 1 .. Len(pending) : /\ PendingFrames[i] = Frame(pending[i])
                                        /\ Len(PendingFrames[i]) = HeaderBytes + Len(pending[i])
    BY <1>0, PendingAre, Zenon
  <1>4. /\ Len(pending) \in Nat \ {0} /\ pending' \in Seq(Seq(Byte)) /\ Len(pending') = Len(pending) - 1
        /\ \A i \in 1 .. Len(pending') : pending'[i] = pending[i + 1]
    BY <1>0
  <1>5. PendingFrames' = Tail(PendingFrames)
    <2>1. \A m : Frame(m)' = Frame(m)
      BY Zenon DEF Frame, Header
    <2>2. PendingFrames' = [i \in 1 .. Len(pending') |-> Frame(pending'[i])]
      BY <2>1, Zenon DEF PendingFrames
    <2>3. Tail(PendingFrames) = [i \in 1 .. Len(pending) - 1 |-> PendingFrames[i + 1]]
      BY <1>3, <1>4, TailIs, Zenon
    <2>4. \A i \in 1 .. Len(pending) - 1 : PendingFrames[i + 1] = Frame(pending[i + 1])
      BY <1>3, <1>4
    <2> QED
      BY <1>4, <2>2, <2>3, <2>4, Zenon
  <1>6. PICK off \in Offsets(Len(PendingFrames), Available + Passed) :
              Frames(buf, tail, Passed, Available, PendingFrames, off)
    BY Zenon DEF BufInv, RingHolds
  <1>7. Len(PendingFrames) > 0 /\ Passed + d = Len(PendingFrames[1])
    BY <1>3, <1>4
  <1>8. PICK new \in Offsets(Len(Tail(PendingFrames)), (Available - d) + 0) :
              Frames(buf, Advance(tail, d), 0, Available - d, Tail(PendingFrames), new)
    BY <1>0, <1>1, <1>3, <1>6, <1>7, FramesBeyond, Zenon
  <1>9. RingHolds'
    BY <1>2, <1>5, <1>8, Zenon DEF RingHolds
  <1>10. MessagesFit'
    BY <1>4 DEF BufInv, MessagesFit
  <1> QED
    BY <1>4, <1>9, <1>10, Zenon

(* The receive skips the header.                                           *)
LEMMA ReceiveSkipsHeaderHolds ==
  ASSUME BufInv, ReceiveSkipsHeader
  PROVE  BufInv'
  <1>0. BufTypes /\ consumer.pc = "skip" /\ kind = "message" /\ HeaderBytes \in Nat \ {0}
    BY KindIs, HeaderAssumption DEF BufInv, ReceiveSkipsHeader, ConsumerHas, Receiving
  <1>1. /\ UNCHANGED <<kind, buf, head, producer, serial>>
        /\ UNCHANGED <<data_sem, space_sem, pending, taken>>
        /\ tail' = Advance(tail, HeaderBytes)
        /\ consumer' = [consumer EXCEPT !.pc = "copy"]
    BY Zenon DEF ReceiveSkipsHeader
  <1>2. /\ consumer' \in Consumers /\ consumer'.pc = "copy"
        /\ consumer'.n = consumer.n /\ consumer'.rest = consumer.rest
    BY <1>0, <1>1, Zenon DEF BufTypes, Consumers
  <1>3. Passed = 0 /\ Passed' = HeaderBytes
    BY <1>0, <1>1, <1>2, Zenon DEF Passed
  <1>4. HeaderBytes \in 0 .. Available
    <2>1. /\ Len(pending) > 0 /\ pending \in Seq(Seq(Byte)) /\ Available \in Nat
      BY <1>0, AvailableIn DEF BufInv, ConsumerHas, Receiving, BufTypes
    <2>2. Available + Passed > 0
      BY <1>0, <2>1, MessageIsThere, Zenon
    <2>3. HeaderBytes + Len(pending[1]) <= Available + Passed /\ Len(pending[1]) \in Nat
      BY <1>0, <2>2, OldestMessage, Zenon
    <2> QED
      BY <1>0, <1>3, <2>1, <2>3
  <1>5. tail' \in Index
    BY <1>0, <1>1, <1>4, AvailableIn, AdvanceIn DEF BufTypes
  <1>6. BufTypes'
    BY <1>0, <1>1, <1>2, <1>5, Zenon DEF BufTypes
  <1>7. ConsumerHas'
    BY <1>0, <1>1, <1>2, Zenon DEF BufInv, ConsumerHas, DeliversOldest, Receiving
  <1>8. Passed' = Passed + HeaderBytes /\ kind # "stream"
    BY <1>0, <1>3
  <1>9. RingHolds' /\ MessagesFit'
    BY <1>1, <1>4, <1>8, TailWithin, Zenon
  <1> QED
    BY <1>1, <1>2, <1>4, <1>6, <1>7, <1>9, ConsumerMoves, Zenon

(* The store of tail in the read: some of the stream, the whole of a       *)
(* message, or the part of it that the caller has room for.                *)
LEMMA ReceiveAdvancesHolds ==
  ASSUME BufInv, ReceiveAdvances
  PROVE  BufInv'
  <1>0. BufTypes /\ consumer.pc = "advance" /\ consumer.n \in Nat /\ consumer.rest \in Nat
    BY DEF BufInv, ReceiveAdvances, BufTypes, Consumers
  <1>1. /\ UNCHANGED <<kind, buf, head, producer, serial>>
        /\ UNCHANGED <<data_sem, space_sem, taken>>
        /\ tail' = Advance(tail, consumer.n)
        /\ \/ /\ consumer.rest > 0 /\ pending' = pending
              /\ consumer' = [consumer EXCEPT !.pc = "rest"]
           \/ /\ consumer.rest = 0 /\ pending' = Consumed
              /\ consumer' = [consumer EXCEPT !.pc = "give"]
    BY <1>0 DEF ReceiveAdvances
  <1>2. /\ consumer' \in Consumers /\ consumer'.n = consumer.n /\ consumer'.rest = consumer.rest
        /\ consumer'.out = consumer.out
        /\ \/ consumer.rest > 0 /\ pending' = pending /\ consumer'.pc = "rest"
           \/ consumer.rest = 0 /\ pending' = Consumed /\ consumer'.pc = "give"
    BY <1>0, <1>1, Zenon DEF BufTypes, Consumers
  <1>3. Available \in 0 .. Capacity /\ Capacity \in Nat /\ HeaderBytes \in Nat \ {0}
    BY <1>0, AvailableIn, HeaderAssumption
  <1>4. CASE kind = "stream"
    <2>1. /\ consumer.rest = 0 /\ consumer.n \in 0 .. Len(pending) /\ pending \in Seq(Byte)
          /\ Bytes(buf, tail, Available, pending) /\ tail \in Index /\ head \in Index
      BY <1>0, <1>4 DEF BufInv, ConsumerHas, Receiving, BufTypes, RingHolds
    <2>2. consumer.n \in 0 .. Available
      BY <2>1, Zenon DEF Bytes
    <2>3. pending' = SubSeq(pending, consumer.n + 1, Len(pending)) /\ consumer'.pc = "give"
      BY <1>0, <1>2, <1>4, <2>1 DEF Consumed
    <2>4. pending' \in Seq(Byte)
      BY <2>1, <2>3, PartsAre, Zenon
    <2>5. tail' \in Index
      BY <1>1, <1>3, <2>1, <2>2, AdvanceIn
    <2>6. BufTypes'
      BY <1>0, <1>1, <1>2, <1>4, <2>4, <2>5, Zenon DEF BufTypes
    <2>7. ConsumerHas' /\ MessagesFit'
      BY <1>0, <1>1, <1>2, <1>4, <2>3, Zenon DEF BufInv, ConsumerHas, DeliversOldest, Receiving, MessagesFit
    <2>8. Available' = Available - consumer.n
      BY <1>1, <2>1, <2>2, DistanceMoves, Zenon DEF Available
    <2>9. Bytes(buf, Advance(tail, consumer.n), Available - consumer.n,
                SubSeq(pending, consumer.n + 1, Len(pending)))
      BY <1>3, <2>1, <2>2, BytesBeyond, Zenon
    <2>10. RingHolds'
      BY <1>1, <1>4, <2>3, <2>8, <2>9, Zenon DEF RingHolds
    <2> QED
      BY <1>1, <2>2, <2>3, <2>6, <2>7, <2>10, ConsumerMoves, Zenon
  <1>5. CASE kind = "message"
    <2>0. kind # "stream" /\ pending \in Seq(Seq(Byte)) /\ tail \in Index /\ head \in Index
      BY <1>0, <1>5, Zenon DEF BufTypes
    <2>1. Len(pending) > 0 /\ consumer.n + consumer.rest = Len(pending[1])
      BY <1>0, <2>0, Zenon DEF BufInv, ConsumerHas, Receiving
    <2>2. Passed = HeaderBytes
      BY <1>0, <2>0, Zenon DEF Passed
    <2>3. HeaderBytes + Len(pending[1]) <= Available + Passed /\ Len(pending[1]) \in Nat
      BY <1>5, <2>1, MessageIsThere, OldestMessage, Zenon
    <2>4. consumer.n \in 0 .. Available
      <3>1. PICK l \in Nat : l = Len(pending[1])
        BY <2>3, Zenon
      <3> QED
        BY <1>0, <1>3, <2>1, <2>2, <2>3, <3>1
    <2>5. tail' \in Index
      BY <1>1, <1>3, <2>0, <2>4, AdvanceIn
    <2>6. CASE consumer.rest > 0
      <3>1. pending' = pending /\ consumer'.pc = "rest"
        BY <1>0, <1>2, <2>6
      <3>2. BufTypes'
        BY <1>0, <1>1, <1>2, <2>5, <3>1, Zenon DEF BufTypes
      <3>3. ConsumerHas'
        BY <1>0, <1>1, <1>2, <2>0, <3>1, Zenon DEF BufInv, ConsumerHas, DeliversOldest, Receiving
      <3>4. Passed' = HeaderBytes + consumer.n
        BY <1>1, <1>2, <2>0, <3>1, Zenon DEF Passed
      <3>5. RingHolds' /\ MessagesFit'
        BY <1>1, <2>0, <2>2, <2>4, <3>1, <3>4, TailWithin, Zenon
      <3> QED
        BY <1>1, <2>4, <3>1, <3>2, <3>3, <3>5, ConsumerMoves, Zenon
    <2>7. CASE consumer.rest = 0
      <3>1. pending' = Tail(pending) /\ consumer'.pc = "give"
        BY <1>0, <1>2, <2>0, <2>7 DEF Consumed
      <3>2. Passed' = 0 /\ Passed + consumer.n = HeaderBytes + Len(pending[1])
        BY <1>0, <2>1, <2>2, <2>7, <3>1 DEF Passed
      <3>3. RingHolds' /\ MessagesFit' /\ pending' \in Seq(Seq(Byte))
        BY <1>1, <2>0, <2>1, <2>4, <3>1, <3>2, TailBeyond, Zenon
      <3>4. BufTypes'
        BY <1>0, <1>1, <1>2, <2>0, <2>5, <3>3, Zenon DEF BufTypes
      <3>5. ConsumerHas'
        BY <1>0, <1>1, <1>2, <3>1, Zenon DEF BufInv, ConsumerHas, DeliversOldest, Receiving
      <3> QED
        BY <1>1, <2>4, <3>1, <3>3, <3>4, <3>5, ConsumerMoves, Zenon
    <2> QED
      BY <1>0, <2>6, <2>7
  <1> QED
    BY <1>0, <1>4, <1>5, KindIs, Zenon

(* The rest of a message that was cut off is skipped.                      *)
LEMMA ReceiveSkipsRestHolds ==
  ASSUME BufInv, ReceiveSkipsRest
  PROVE  BufInv'
  <1>0. BufTypes /\ consumer.pc = "rest" /\ consumer.n \in Nat /\ consumer.rest \in Nat
    BY DEF BufInv, ReceiveSkipsRest, BufTypes, Consumers
  <1>1. /\ UNCHANGED <<kind, buf, head, producer, serial>>
        /\ UNCHANGED <<data_sem, space_sem, taken>>
        /\ tail' = Advance(tail, consumer.rest)
        /\ pending' = Consumed
        /\ consumer' = [consumer EXCEPT !.pc = "give", !.rest = 0]
    BY Zenon DEF ReceiveSkipsRest
  <1>2. consumer' \in Consumers /\ consumer'.pc = "give" /\ consumer'.out = consumer.out
    <2>1. consumer \in Consumers /\ 0 \in 0 .. Capacity
      BY <1>0, CapacityAssumption DEF BufTypes
    <2>2. consumer' = [consumer EXCEPT !.pc = "give", !.rest = 0]
      BY <1>1, Zenon
    <2> QED
      BY <2>1, <2>2, Zenon DEF Consumers
  <1>3. Available \in 0 .. Capacity /\ Capacity \in Nat /\ HeaderBytes \in Nat \ {0}
    BY <1>0, AvailableIn, HeaderAssumption
  <1>4. kind # "stream" /\ kind = "message"
    BY <1>0, KindIs, Zenon DEF BufInv, ConsumerHas, Receiving
  <1>5. pending \in Seq(Seq(Byte)) /\ tail \in Index /\ pending' = Tail(pending)
    BY <1>0, <1>1, <1>4, Zenon DEF BufTypes, Consumed
  <1>6. Len(pending) > 0 /\ consumer.n + consumer.rest = Len(pending[1])
    BY <1>0, <1>4, Zenon DEF BufInv, ConsumerHas, Receiving
  <1>7. Passed = HeaderBytes + consumer.n /\ Passed' = 0
    BY <1>0, <1>2, <1>4, Zenon DEF Passed
  <1>8. HeaderBytes + Len(pending[1]) <= Available + Passed /\ Len(pending[1]) \in Nat
    BY <1>4, <1>6, MessageIsThere, OldestMessage, Zenon
  <1>9. consumer.rest \in 0 .. Available /\ Passed + consumer.rest = HeaderBytes + Len(pending[1])
    <2>1. PICK l \in Nat : l = Len(pending[1])
      BY <1>8, Zenon
    <2>2. consumer.n + consumer.rest = l /\ HeaderBytes + l <= Available + (HeaderBytes + consumer.n)
      BY <1>6, <1>7, <1>8, <2>1, Zenon
    <2>3. consumer.rest \in 0 .. Available /\ HeaderBytes + consumer.n + consumer.rest = HeaderBytes + l
      BY <1>0, <1>3, <2>2
    <2> QED
      BY <1>7, <2>1, <2>3, Zenon
  <1>10. tail' \in Index
    BY <1>1, <1>3, <1>5, <1>9, AdvanceIn
  <1>11. RingHolds' /\ MessagesFit' /\ pending' \in Seq(Seq(Byte))
    BY <1>1, <1>4, <1>5, <1>6, <1>7, <1>9, TailBeyond, Zenon
  <1>12. BufTypes'
    BY <1>0, <1>1, <1>2, <1>4, <1>10, <1>11, Zenon DEF BufTypes
  <1>13. ConsumerHas'
    BY <1>0, <1>1, <1>2, Zenon DEF BufInv, ConsumerHas, DeliversOldest, Receiving
  <1> QED
    BY <1>1, <1>2, <1>9, <1>11, <1>12, <1>13, ConsumerMoves, Zenon

-----------------------------------------------------------------------------
(* The producer writes its frame into room that nobody reads.              *)
LEMMA SendCopiesHolds ==
  ASSUME BufInv, SendCopies
  PROVE  BufInv'
  <1>0. BufTypes /\ ProducerHas /\ producer.pc = "copy" /\ tail \in Index /\ head \in Index
        /\ buf \in [Index -> Byte]
    BY Zenon DEF BufInv, SendCopies, BufTypes
  <1>1. /\ UNCHANGED <<kind, head, tail, consumer, serial, pending, taken, data_sem, space_sem>>
        /\ buf' = CopyIn(head, producer.bytes)
        /\ producer' = [producer EXCEPT !.pc = "publish"]
    BY Zenon DEF SendCopies
  <1>2. /\ producer' \in Producers /\ producer'.pc = "publish"
        /\ producer'.len = producer.len /\ producer'.bytes = producer.bytes
    BY <1>0, <1>1, Zenon DEF BufTypes, Producers
  <1>3. /\ FrameSize(producer.len) \in 0 .. Capacity /\ producer.bytes \in Seq(Byte)
        /\ Len(producer.bytes) = FrameSize(producer.len)
    BY <1>0, SendingFrame, Zenon DEF Sending
  <1>4. /\ Available \in 0 .. Capacity /\ Capacity \in Nat
        /\ FrameSize(producer.len) <= Capacity - Available
    BY <1>0, AvailableIn, Zenon DEF ProducerHas
  <1>5. Available' = Available /\ Passed' = Passed /\ PendingFrames' = PendingFrames
    BY <1>1, Zenon DEF Available, Passed, PendingFrames, Frame, Header
  <1>6. \A j \in Index : Distance(head, j) \in 0 .. Capacity
    BY <1>0, DistanceIn, Zenon
  <1>7. \A j \in Index : buf'[j] = IF Distance(head, j) < Len(producer.bytes)
                                   THEN producer.bytes[Distance(head, j) + 1] ELSE buf[j]
    BY <1>1, Zenon DEF CopyIn
  <1>8. buf' \in [Index -> Byte]
    <2>1. \A j \in Index : Distance(head, j) < Len(producer.bytes) =>
             producer.bytes[Distance(head, j) + 1] \in Byte
      BY <1>3, <1>6
    <2> QED
      BY <1>0, <1>1, <2>1, Zenon DEF CopyIn
  <1>9. ASSUME NEW e \in 0 .. Available - 1
        PROVE  buf'[Advance(tail, e)] = buf[Advance(tail, e)]
    <2>1. e \in Nat /\ e \in 0 .. Capacity /\ e < Available
      BY <1>4
    <2>2. Advance(tail, e) \in Index
      BY <1>0, <2>1, AdvanceIn, Zenon
    <2>3. Distance(head, Advance(tail, e)) > Capacity - Available
      BY <1>0, <2>1, BehindIsFar, Zenon DEF Available
    <2>4. ~(Distance(head, Advance(tail, e)) < Len(producer.bytes))
      BY <1>3, <1>4, <1>6, <2>2, <2>3
    <2> QED
      BY <1>7, <2>2, <2>4, Zenon
  <1>10. ASSUME NEW k \in 1 .. FrameSize(producer.len)
         PROVE  buf'[Advance(head, k - 1)] = producer.bytes[k]
    <2>1. k - 1 \in 0 .. Capacity /\ k - 1 < Len(producer.bytes) /\ (k - 1) + 1 = k
      BY <1>3, <1>4
    <2>2. Advance(head, k - 1) \in Index /\ Distance(head, Advance(head, k - 1)) = k - 1
      BY <1>0, <2>1, AdvanceIn, Zenon
    <2> QED
      BY <1>7, <2>1, <2>2, Zenon
  <1>11. BufTypes'
    BY <1>0, <1>1, <1>2, <1>8, Zenon DEF BufTypes
  <1>12. ProducerHas'
    <2>1. (\A l : Frame(Payload(l))' = Frame(Payload(l))) /\ (\A l : FrameSize(l)' = FrameSize(l))
      BY <1>1, Zenon DEF Frame, Payload, Header, FrameSize
    <2>2. FreeBytes' = FreeBytes /\ head' = head
      BY <1>1, <1>5, Zenon DEF FreeBytes
    <2>3. /\ FrameSize(producer.len)' = FrameSize(producer.len)
          /\ Frame(Payload(producer.len))' = Frame(Payload(producer.len))
      BY <1>2, <2>1, Zenon
    <2> QED
      BY <1>0, <1>2, <1>10, <2>2, <2>3, Zenon DEF ProducerHas, Sending
  <1>13. ConsumerHas' /\ MessagesFit'
    BY <1>1, Zenon DEF BufInv, ConsumerHas, DeliversOldest, MessagesFit
  <1>14. RingHolds'
    <2>1. CASE kind = "stream"
      <3>1. Bytes(buf, tail, Available, pending) /\ pending \in Seq(Byte)
        BY <1>0, <2>1, Zenon DEF BufInv, RingHolds, BufTypes
      <3>2. Bytes(buf', tail, Available, pending)
        BY <1>0, <1>4, <1>9, <3>1, BytesWritten, Zenon
      <3> QED
        BY <1>1, <1>5, <2>1, <3>2, Zenon DEF RingHolds
    <2>2. CASE kind # "stream"
      <3>1. PICK off \in Offsets(Len(PendingFrames), Available + Passed) :
                  Frames(buf, tail, Passed, Available, PendingFrames, off)
        BY <2>2, Zenon DEF BufInv, RingHolds
      <3>2. PendingFrames \in Seq(Seq(Byte)) /\ Passed \in Nat
        BY <1>0, <2>2, PendingAre, PassedIn, Zenon
      <3>3. Frames(buf', tail, Passed, Available, PendingFrames, off)
        BY <1>0, <1>4, <1>9, <3>1, <3>2, FramesWritten, Zenon
      <3> QED
        BY <1>1, <1>5, <2>2, <3>1, <3>3, Zenon DEF RingHolds
    <2> QED
      BY <2>1, <2>2, Zenon
  <1>15. NoSleepBesideBytes'
    <2>1. Available > 0 => buf'[tail] = buf[tail]
      <3>1. Advance(tail, 0) = tail
        BY <1>0, CapacityAssumption DEF Advance, Index, RingSize
      <3>2. Available > 0 => 0 \in 0 .. Available - 1
        BY <1>4
      <3> QED
        BY <1>9, <3>1, <3>2, Zenon
    <2>2. Available >= HeaderBytes => Available > 0
      BY <1>4, HeaderAssumption
    <2>3. Ready' <=> Ready
      BY <1>1, <1>5, <2>1, <2>2, Zenon DEF Ready, MsgLen
    <2> QED
      BY <1>0, <1>1, <1>2, <2>3, Zenon DEF BufInv, NoSleepBesideBytes
  <1> QED
    BY <1>11, <1>12, <1>13, <1>14, <1>15, Zenon DEF BufInv

(* Nothing is left after a reset.                                          *)
LEMMA ResetHolds ==
  ASSUME BufInv, Reset
  PROVE  BufInv'
  <1>0. BufTypes /\ producer.pc = "idle" /\ consumer.pc = "idle"
    BY Zenon DEF BufInv, Reset
  <1>1. /\ UNCHANGED <<kind, buf, head, data_sem, space_sem, producer, consumer, serial, taken>>
        /\ tail' = head /\ pending' = <<>>
    BY Zenon DEF Reset
  <1>2. <<>> \in Seq(Byte) /\ <<>> \in Seq(Seq(Byte)) /\ Len(<<>>) = 0
    OBVIOUS
  <1>3. BufTypes'
    BY <1>0, <1>1, <1>2, Zenon DEF BufTypes
  <1>4. ProducerHas' /\ NoSleepBesideBytes' /\ ConsumerHas' /\ MessagesFit'
    BY <1>0, <1>1, <1>2 DEF BufInv, ProducerHas, NoSleepBesideBytes, Sending, ConsumerHas,
                            DeliversOldest, Receiving, MessagesFit
  <1>5. Available' = 0 /\ Passed' = 0
    BY <1>0, <1>1 DEF Available, Distance, Passed, BufTypes, Index
  <1>6. RingHolds'
    <2>1. CASE kind = "stream"
      BY <1>1, <1>2, <1>5, <2>1 DEF RingHolds, Bytes
    <2>2. CASE kind # "stream"
      <3> DEFINE off == [i \in 1 .. 1 |-> 0]
      <3>1. Len(PendingFrames') = 0
        BY <1>1, <1>2, FcnIsSeq DEF PendingFrames
      <3>2. off \in Offsets(Len(PendingFrames'), Available' + Passed')
        BY <1>5, <3>1 DEF Offsets
      <3>3. Frames(buf', tail', Passed', Available', PendingFrames', off)
        BY <1>5, <3>1 DEF Frames
      <3> QED
        BY <1>1, <2>2, <3>2, <3>3, Zenon DEF RingHolds
    <2> QED
      BY <2>1, <2>2, Zenon
  <1> QED
    BY <1>3, <1>4, <1>6, Zenon DEF BufInv

(* The first elements of a sequence that has grown.                        *)
LEMMA SamePrefix ==
  ASSUME NEW S, NEW s \in Seq(S), NEW t \in Seq(S), NEW n \in 0 .. Len(s), n \in 0 .. Len(t),
         \A k \in 1 .. Len(s) : t[k] = s[k]
  PROVE  SubSeq(t, 1, n) = SubSeq(s, 1, n)
  <1>1. /\ SubSeq(s, 1, n) \in Seq(S) /\ Len(SubSeq(s, 1, n)) = n
        /\ \A k \in 1 .. n : SubSeq(s, 1, n)[k] = s[k]
    BY PartsAre
  <1>2. /\ SubSeq(t, 1, n) \in Seq(S) /\ Len(SubSeq(t, 1, n)) = n
        /\ \A k \in 1 .. n : SubSeq(t, 1, n)[k] = t[k]
    BY PartsAre
  <1>3. \A k \in 1 .. n : t[k] = s[k]
    OBVIOUS
  <1> QED
    BY <1>1, <1>2, <1>3, SameSeq, Zenon

(* A message that is sent is one more frame.                               *)
LEMMA PublishedFrames ==
  ASSUME BufTypes, kind # "stream", kind' = kind, NEW load \in Seq(Byte),
         pending' \in Seq(Seq(Byte)), Len(pending') = Len(pending) + 1,
         \A k \in 1 .. Len(pending) : pending'[k] = pending[k],
         pending'[Len(pending) + 1] = load
  PROVE  PendingFrames' = Append(PendingFrames, Frame(load))
  <1> DEFINE n == Len(pending)
  <1> DEFINE fs == PendingFrames
  <1> DEFINE gs == [i \in 1 .. n + 1 |-> Frame(pending'[i])]
  <1>1. /\ fs \in Seq(Seq(Byte)) /\ Len(fs) = n /\ n \in Nat
        /\ \A i \in 1 .. n : fs[i] = Frame(pending[i])
    BY PendingAre DEF BufTypes
  <1>2. Frame(load) \in Seq(Byte)
    BY FrameIs, Zenon
  <1>3. PendingFrames' = gs
    <2>1. \A m : Frame(m)' = Frame(m)
      BY Zenon DEF Frame, Header
    <2> QED
      BY <2>1, Zenon DEF PendingFrames
  <1>4. ASSUME NEW i \in 1 .. n + 1
        PROVE  /\ gs[i] = IF i = n + 1 THEN Frame(load) ELSE fs[i]
               /\ gs[i] \in Seq(Byte)
    <2>1. gs[i] = Frame(pending'[i])
      BY Zenon
    <2> HIDE DEF gs
    <2>2. CASE i = n + 1
      BY <1>2, <2>1, <2>2, Zenon
    <2>3. CASE i # n + 1
      <3>1. i \in 1 .. n
        BY <1>1, <2>3
      <3>2. gs[i] = fs[i] /\ fs[i] \in Seq(Byte)
        BY <1>1, <2>1, <3>1
      <3> QED
        BY <2>3, <3>2, Zenon
    <2> QED
      BY <2>2, <2>3, Zenon
  <1>5. gs \in [1 .. n + 1 -> Seq(Byte)]
    BY <1>4, Zenon
  <1>6. gs \in Seq(Seq(Byte)) /\ Len(gs) = n + 1
    <2>1. n + 1 \in Nat
      BY <1>1
    <2> HIDE DEF gs, n
    <2> QED
      BY <1>5, <2>1, FcnIsSeq, Zenon
  <1> HIDE DEF gs, fs, n
  <1>7. /\ Append(fs, Frame(load)) \in Seq(Seq(Byte)) /\ Len(Append(fs, Frame(load))) = n + 1
        /\ \A i \in 1 .. n + 1 : Append(fs, Frame(load))[i] = IF i = n + 1 THEN Frame(load) ELSE fs[i]
    BY <1>1, <1>2
  <1>8. gs = Append(fs, Frame(load))
    BY <1>4, <1>6, <1>7, SameSeq, SMTT(30)
  <1> QED
    BY <1>3, <1>8, Zenon DEF fs

(* The store of head hands the frame over.                                 *)
LEMMA SendPublishesHolds ==
  ASSUME BufInv, SendPublishes
  PROVE  BufInv'
  <1> DEFINE load == Payload(producer.len)
  <1> DEFINE size == FrameSize(producer.len)
  <1>0. BufTypes /\ ProducerHas /\ producer.pc = "publish" /\ tail \in Index /\ head \in Index
    BY Zenon DEF BufInv, SendPublishes, BufTypes
  <1>1. /\ UNCHANGED <<kind, buf, tail, data_sem, space_sem, consumer, taken>>
        /\ head' = Advance(head, size)
        /\ producer' = [producer EXCEPT !.pc = "give", !.bytes = <<>>]
        /\ pending' = pending \o (IF kind = "stream" THEN load ELSE <<load>>)
        /\ serial' = (serial + producer.len) % ByteValues
    BY Zenon DEF SendPublishes
  <1>2. producer' \in Producers /\ producer'.pc = "give"
    <2>1. producer \in Producers /\ <<>> \in Seq(Byte)
      BY <1>0 DEF BufTypes
    <2>2. producer' = [producer EXCEPT !.pc = "give", !.bytes = <<>>]
      BY <1>1, Zenon
    <2> QED
      BY <2>1, <2>2, Zenon DEF Producers
  <1>3. /\ producer.len \in Nat /\ size \in 0 .. Capacity /\ load \in Seq(Byte) /\ Len(load) = producer.len
        /\ Len(Frame(load)) = size /\ producer.bytes = Frame(load) /\ Frame(load) \in Seq(Byte)
    BY <1>0, SendingFrame, Zenon DEF Sending
  <1>4. /\ Available \in 0 .. Capacity /\ Capacity \in Nat /\ size <= Capacity - Available
        /\ Passed \in Nat
    BY <1>0, AvailableIn, PassedIn, Zenon DEF ProducerHas
  <1>5. \A k \in 1 .. size : buf[Advance(head, k - 1)] = Frame(load)[k]
    BY <1>0, <1>3, Zenon DEF ProducerHas
  <1> HIDE DEF load, size
  <1>6. head' \in Index /\ Available' = Available + size
    <2>1. size \in 0 .. Capacity - Distance(tail, head)
      BY <1>3, <1>4 DEF Available
    <2> QED
      BY <1>0, <1>1, <1>3, <2>1, AdvanceIn, DistanceMoves, Zenon DEF Available
  <1>7. Advance(tail, Available) = head
    BY <1>0, DistanceIn, Zenon DEF Available
  <1>8. \A k \in 1 .. Len(Frame(load)) : buf[Advance(Advance(tail, Available), k - 1)] = Frame(load)[k]
    BY <1>3, <1>5, <1>7, Zenon
  <1>9. Available + Len(Frame(load)) <= Capacity
    BY <1>3, <1>4
  <1>10. serial' \in Nat
    <2>1. serial + producer.len \in Nat /\ ByteValues \in Nat \ {0}
      BY <1>0, <1>3, ByteValuesAssumption, CapacityAssumption DEF BufTypes
    <2> QED
      BY <1>1, <2>1, ModIn
  <1>11. ProducerHas' /\ NoSleepBesideBytes' /\ Passed' = Passed
    BY <1>1, <1>2, Zenon DEF ProducerHas, NoSleepBesideBytes, Sending, Passed
  <1>12. CASE kind = "stream"
    <2>1. /\ pending \in Seq(Byte) /\ pending' = pending \o load
          /\ Bytes(buf, tail, Available, pending) /\ Frame(load) = load
      BY <1>0, <1>1, <1>12, Zenon DEF BufInv, BufTypes, RingHolds, Frame
    <2>2. pending' \in Seq(Byte) /\ Len(pending') = Len(pending) + Len(load)
          /\ \A k \in 1 .. Len(pending) : pending'[k] = pending[k]
      BY <1>3, <2>1, ConcatIs, Zenon
    <2>3. BufTypes'
      BY <1>0, <1>1, <1>2, <1>6, <1>10, <1>12, <2>2, Zenon DEF BufTypes
    <2>4. Bytes(buf, tail, Available + Len(load), pending \o load)
      BY <1>0, <1>3, <1>4, <1>8, <1>9, <2>1, BytesPublished, Zenon
    <2>5. RingHolds' /\ MessagesFit'
      <3>1. Len(load) = size
        BY <1>3, <2>1, Zenon
      <3> QED
        BY <1>1, <1>6, <1>12, <2>1, <2>4, <3>1, Zenon DEF RingHolds, MessagesFit
    <2>6. ConsumerHas'
      <3>1. ASSUME consumer.pc \in Receiving
            PROVE  /\ consumer.n <= Len(pending')
                   /\ taken = SubSeq(pending', 1, consumer.n)
        <4>1. consumer.n \in 0 .. Len(pending) /\ taken = SubSeq(pending, 1, consumer.n)
          BY <1>0, <1>12, <3>1 DEF BufInv, ConsumerHas, BufTypes, Consumers
        <4>2. consumer.n \in 0 .. Len(pending')
          BY <1>3, <2>1, <2>2, <4>1
        <4>3. SubSeq(pending', 1, consumer.n) = SubSeq(pending, 1, consumer.n)
          BY <2>1, <2>2, <4>1, <4>2, SamePrefix, Zenon
        <4> QED
          BY <2>1, <2>2, <4>1, <4>2, <4>3
      <3> QED
        BY <1>1, <1>12, <3>1, Zenon DEF BufInv, ConsumerHas, DeliversOldest
    <2> QED
      BY <1>11, <2>3, <2>5, <2>6, Zenon DEF BufInv
  <1>13. CASE kind # "stream"
    <2>1. pending \in Seq(Seq(Byte)) /\ pending' = pending \o <<load>>
      BY <1>0, <1>1, <1>13, Zenon DEF BufTypes
    <2>2. /\ pending' \in Seq(Seq(Byte)) /\ Len(pending') = Len(pending) + 1
          /\ \A k \in 1 .. Len(pending) : pending'[k] = pending[k]
          /\ pending'[Len(pending) + 1] = load
      BY <1>3, <2>1
    <2>3. BufTypes'
      BY <1>0, <1>1, <1>2, <1>6, <1>10, <1>13, <2>2, Zenon DEF BufTypes
    <2>4. MessagesFit'
      <3>1. HeaderBytes + Len(load) <= Capacity
        BY <1>3, <1>13 DEF size, FrameSize
      <3>2. \A i \in 1 .. Len(pending) : HeaderBytes + Len(pending[i]) <= Capacity
        BY <1>0, <1>13, KindIs, Zenon DEF BufInv, MessagesFit
      <3>3. \A i \in 1 .. Len(pending') : i \in 1 .. Len(pending) \/ i = Len(pending) + 1
        BY <2>1, <2>2
      <3> QED
        BY <2>2, <3>1, <3>2, <3>3, Zenon DEF MessagesFit
    <2>5. PendingFrames' = Append(PendingFrames, Frame(load))
      BY <1>0, <1>1, <1>13, <2>1, <2>2, PublishedFrames
    <2>6. PICK off \in Offsets(Len(PendingFrames), Available + Passed) :
                Frames(buf, tail, Passed, Available, PendingFrames, off)
      BY <1>13, Zenon DEF BufInv, RingHolds
    <2>7. PendingFrames \in Seq(Seq(Byte))
      BY <1>0, <1>13, PendingAre, Zenon
    <2>8. PICK new \in Offsets(Len(Append(PendingFrames, Frame(load))),
                               (Available + Len(Frame(load))) + Passed) :
                Frames(buf, tail, Passed, Available + Len(Frame(load)),
                       Append(PendingFrames, Frame(load)), new)
      BY <1>0, <1>3, <1>4, <1>8, <1>9, <2>6, <2>7, FramesPublished, Zenon
    <2>9. RingHolds'
      <3>1. Available' = Available + Len(Frame(load))
        BY <1>3, <1>6, Zenon
      <3> QED
        BY <1>1, <1>11, <1>13, <2>5, <2>8, <3>1, Zenon DEF RingHolds
    <2>10. ConsumerHas'
      <3>1. ASSUME Len(pending) > 0
            PROVE  Len(pending') > 0 /\ pending'[1] = pending[1]
        BY <2>1, <2>2, <3>1
      <3> QED
        BY <1>1, <1>13, <3>1, Zenon DEF BufInv, ConsumerHas, DeliversOldest
    <2> QED
      BY <1>11, <2>3, <2>4, <2>9, <2>10, Zenon DEF BufInv
  <1> QED
    BY <1>12, <1>13, Zenon

-----------------------------------------------------------------------------
(* Every step keeps the invariant.                                         *)
LEMMA BufStepHolds ==
  ASSUME BufInv, [BufNext]_bufVars
  PROVE  BufInv'
  <1>1. ASSUME NEW len \in Lengths, NEW mode \in Modes, Send(len, mode) \/ Receive(len, mode)
        PROVE  BufInv'
    BY <1>1, SendHolds, ReceiveHolds, LengthsAssumption, Zenon
  <1>2. CASE ProducerStep
    BY <1>2, SendChecksHolds, SendWakesHolds, SendCopiesHolds, SendPublishesHolds, Zenon DEF ProducerStep
  <1>3. CASE ConsumerStep
    <2>1. CASE ReceiveChecks
      BY <2>1, ReceiveFails, ReceiveFinds, Zenon
    <2>2. CASE ReceiveWakes \/ ReceiveGives \/ ReceiveRearms
      <3>1. 0 \in Nat /\ "isr" \in Modes
        BY Zenon DEF Modes
      <3>2. Receive(0, "isr") \/ ReceiveWakes \/ ReceiveGives \/ ReceiveRearms
        BY <2>2, Zenon
      <3> QED
        BY <3>1, <3>2, ReceiveHolds, Zenon
    <2> QED
      BY <1>3, <2>1, <2>2, ReceiveCopiesHolds, ReceiveSkipsHeaderHolds, ReceiveAdvancesHolds,
         ReceiveSkipsRestHolds, Zenon DEF ConsumerStep
  <1>4. CASE Reset
    BY <1>4, ResetHolds, Zenon
  <1>5. CASE UNCHANGED bufVars
    <2>1. /\ UNCHANGED <<kind, buf, head, tail, producer, serial, pending>>
          /\ UNCHANGED <<consumer, taken, data_sem, space_sem>>
      BY <1>5, Zenon DEF bufVars
    <2>2. BufTypes' /\ ConsumerHas' /\ Passed' = Passed
      BY <2>1, Zenon DEF BufInv, BufTypes, ConsumerHas, DeliversOldest, Passed
    <2>3. /\ FreeBytes' = FreeBytes /\ (\A l : FrameSize(l)' = FrameSize(l)) /\ (Ready' <=> Ready)
      BY <2>1, Zenon DEF FreeBytes, Available, FrameSize, Ready, MsgLen
    <2>4. NoSleepBesideBytes'
      BY <2>1, <2>3, Zenon DEF BufInv, NoSleepBesideBytes
    <2> QED
      BY <2>1, <2>2, <2>4, ConsumerQuiet, Zenon
  <1> QED
    BY <1>1, <1>2, <1>3, <1>4, <1>5, Zenon DEF BufNext

(* The invariant says that the ring holds what was sent.                   *)
LEMMA BufInvHoldsPending ==
  ASSUME BufInv
  PROVE  BytesDeliveredInOrder
  <1>0. BufTypes /\ Available \in 0 .. Capacity /\ Capacity \in Nat /\ Passed \in Nat
    BY AvailableIn, PassedIn, Zenon DEF BufInv
  <1>1. BufTypeOK
    BY <1>0, Zenon DEF BufTypeOK, BufTypes, Producers, Consumers, Byte
  <1>2. DeliversOldest
    BY Zenon DEF BufInv, ConsumerHas
  <1>3. RingHoldsPending
    <2>1. CASE kind = "stream"
      <3>1. Bytes(buf, tail, Available, pending) /\ pending \in Seq(Byte)
        BY <1>0, <2>1, Zenon DEF BufInv, RingHolds, BufTypes
      <3>2. pending = [k \in 1 .. Available |-> pending[k]]
        BY <3>1 DEF Bytes
      <3>3. CopyOut(tail, Available) = pending
        BY <3>1, <3>2, Zenon DEF Bytes, CopyOut
      <3> QED
        BY <2>1, <3>3, Zenon DEF RingHoldsPending
    <2>2. CASE kind # "stream"
      <3>1. /\ PendingFrames \in Seq(Seq(Byte)) /\ Len(PendingFrames) = Len(pending)
            /\ \A i \in 1 .. Len(pending) : /\ PendingFrames[i] = Frame(pending[i])
                                            /\ Len(PendingFrames[i]) = HeaderBytes + Len(pending[i])
        BY <1>0, <2>2, PendingAre, Zenon
      <3>2. PICK off \in Offsets(Len(PendingFrames), Available + Passed) :
                  Frames(buf, tail, Passed, Available, PendingFrames, off)
        BY <2>2, Zenon DEF BufInv, RingHolds
      <3>3. off \in [1 .. Len(pending) + 1 -> 0 .. Available + Passed]
        BY <3>1, <3>2, Zenon DEF Offsets
      <3>4. off[1] = 0 /\ off[Len(pending) + 1] = Available + Passed
        BY <3>1, <3>2, Zenon DEF Frames
      <3>5. ASSUME NEW i \in 1 .. Len(pending)
            PROVE  /\ off[i + 1] = off[i] + HeaderBytes + Len(pending[i])
                   /\ \A k \in 1 .. HeaderBytes + Len(pending[i]) : off[i] + k > Passed =>
                         buf[Advance(tail, off[i] + k - 1 - Passed)] = Frame(pending[i])[k]
        <4>1. /\ off[i + 1] = off[i] + Len(PendingFrames[i])
              /\ \A k \in 1 .. Len(PendingFrames[i]) : off[i] + k > Passed =>
                    buf[Advance(tail, off[i] + k - 1 - Passed)] = PendingFrames[i][k]
          BY <3>1, <3>2, Zenon DEF Frames
        <4>2. /\ PendingFrames[i] = Frame(pending[i])
              /\ Len(PendingFrames[i]) = HeaderBytes + Len(pending[i])
          BY <3>1, Zenon
        <4>3. off[i] + (HeaderBytes + Len(pending[i])) = off[i] + HeaderBytes + Len(pending[i])
          <5>1. i \in 1 .. Len(pending) + 1 /\ pending[i] \in Seq(Byte)
            BY <1>0, <2>2 DEF BufTypes
          <5>2. PICK o \in 0 .. Available + Passed : o = off[i]
            BY <3>3, <5>1, Zenon
          <5>3. PICK l \in Nat : l = Len(pending[i])
            BY <5>1
          <5>4. o + (HeaderBytes + l) = o + HeaderBytes + l
            BY HeaderAssumption
          <5> QED
            BY <5>2, <5>3, <5>4, Zenon
        <4> QED
          BY <4>1, <4>2, <4>3, Zenon
      <3>6. HoldsFrames(off)
        BY <3>4, <3>5, Zenon DEF HoldsFrames
      <3> QED
        BY <2>2, <3>3, <3>6, Zenon DEF RingHoldsPending
    <2> QED
      BY <2>1, <2>2, Zenon
  <1> QED
    BY <1>1, <1>2, <1>3, Zenon DEF BytesDeliveredInOrder, BufWellFormed

(* The invariant excludes that both sides sleep, but in a stream buffer    *)
(* whose trigger and send do not fit in it together.                       *)
LEMMA BufInvWakes ==
  ASSUME BufInv
  PROVE  NoSenderOrReceiverForgotten
  <1>0. BufTypes /\ Available \in 0 .. Capacity /\ Capacity \in Nat /\ FreeBytes = Capacity - Available
    BY AvailableIn, Zenon DEF BufInv
  <1>1. ASSUME BothAsleep
        PROVE  kind = "stream" /\ producer.len + Trigger > Capacity + 1
    <2>1. ~(FreeBytes >= FrameSize(producer.len)) /\ ~Ready
      BY <1>1, Zenon DEF BufInv, NoSleepBesideBytes, BothAsleep
    <2>2. FrameSize(producer.len) \in 0 .. Capacity /\ producer.len \in Nat
      BY <1>0, <1>1, SendingFrame, Zenon DEF BothAsleep, Sending, BufInv
    <2>3. CASE kind = "stream"
      <3>1. Available < Trigger /\ FrameSize(producer.len) = producer.len /\ Trigger \in Nat
        BY <1>0, <2>1, <2>3, TriggerAssumption DEF Ready, FrameSize
      <3> QED
        BY <1>0, <2>1, <2>2, <2>3, <3>1
    <2>4. CASE kind # "stream"
      <3>1. kind = "message" /\ Passed = 0 /\ HeaderBytes \in Nat \ {0}
        BY <1>0, <1>1, <2>4, KindIs, HeaderAssumption DEF BothAsleep, Passed
      <3>2. Available > 0
        BY <1>0, <2>1, <2>2
      <3>3. /\ HeaderBytes + Len(pending[1]) <= Available + Passed
            /\ buf[tail] = Len(pending[1]) /\ Len(pending[1]) \in Nat
        BY <1>0, <3>1, <3>2, OldestMessage
      <3>4. Ready
        <4>1. PICK l \in Nat : l = Len(pending[1])
          BY <3>3, Zenon
        <4> QED
          BY <1>0, <2>4, <3>1, <3>3, <4>1 DEF Ready, MsgLen
      <3> QED
        BY <2>1, <3>4, Zenon
    <2> QED
      BY <2>3, <2>4, Zenon
  <1>2. NoSleepBesideBytes
    BY Zenon DEF BufInv
  <1> QED
    BY <1>1, <1>2, Zenon DEF NoSenderOrReceiverForgotten, AsleepOnlyBelowTrigger

(* At every step of a send and of a receive the ring holds, in order, the  *)
(* bytes or the messages that were sent and not received, and a receive    *)
(* delivers the oldest: the index that hands them over is stored after the *)
(* copy, and a send writes only where the receive does not read.  For all  *)
(* capacities, header sizes, lengths and wrap-arounds.                     *)
THEOREM BytesDeliveredInOrderHolds == BufSpec => []BytesDeliveredInOrder
  <1>1. BufInit => BufInv
    BY BufInitHolds, Zenon
  <1>2. BufInv /\ [BufNext]_bufVars => BufInv'
    BY BufStepHolds, Zenon
  <1>3. BufInv => BytesDeliveredInOrder
    BY BufInvHoldsPending, Zenon
  <1> QED
    BY <1>1, <1>2, <1>3, PTL DEF BufSpec

(* Neither side of the buffer sleeps beside what it waits for, and the two *)
(* sleep on each other only where the trigger and the send do not fit in   *)
(* the stream buffer together, whatever tokens timeouts, resets and the    *)
(* re-arming give left on the two semaphores.                              *)
THEOREM NoSenderOrReceiverForgottenHolds == BufSpec => []NoSenderOrReceiverForgotten
  <1>1. BufInit => BufInv
    BY BufInitHolds, Zenon
  <1>2. BufInv /\ [BufNext]_bufVars => BufInv'
    BY BufStepHolds, Zenon
  <1>3. BufInv => NoSenderOrReceiverForgotten
    BY BufInvWakes, Zenon
  <1> QED
    BY <1>1, <1>2, <1>3, PTL DEF BufSpec
=============================================================================
