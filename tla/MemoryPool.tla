----------------------------- MODULE MemoryPool -----------------------------
(***************************************************************************)
(* The emulated fixed-size memory pool of emulated_memory_pool.inl: a      *)
(* bitmap of allocated blocks and the counter `available`, both behind the *)
(* mutex `guard`, and a counting semaphore `sem` that callers take BEFORE  *)
(* they lock the guard and give AFTER they unlock it.  The bitmap and the  *)
(* semaphore are therefore out of step while a call is in flight, and the  *)
(* code relies on a successful take meaning that a block is free.          *)
(*                                                                         *)
(* A section between osal_mutex_lock and osal_mutex_unlock on the guard is *)
(* one step; every semaphore operation is a step of its own.  The words of *)
(* the bitmap are in module PoolBitmap.                                    *)
(***************************************************************************)
EXTENDS Integers, FiniteSets

CONSTANTS Threads,      \* callers of the pool
          BlockCount    \* block_count

ASSUME ThreadsAssumption == IsFiniteSet(Threads)
ASSUME BlockCountAssumption == BlockCount \in Nat \ {0}

VARIABLES bitmap,     \* blocks whose bit is set
          available,  \* pool->available
          sem,        \* count of pool->sem, bounded by block_count
          pc,         \* where each thread is in a call
          idx,        \* the local idx of each thread's call
          held,       \* blocks each caller has been given and not returned
          misused     \* whether a caller has returned a block it did not hold

vars == <<bitmap, available, sem, pc, idx, held, misused>>

Blocks == 0 .. BlockCount - 1
Free == Blocks \ bitmap

Pcs == {"idle", "take", "take_timed", "took", "give_back", "free", "give"}

TypeOK ==
  /\ bitmap \in SUBSET Blocks
  /\ available \in 0 .. BlockCount
  /\ sem \in 0 .. BlockCount
  /\ pc \in [Threads -> Pcs]
  /\ idx \in [Threads -> Blocks]
  /\ held \in [Threads -> SUBSET Blocks]
  /\ misused \in BOOLEAN

(* A created pool: every bit clear, initial and maximal semaphore count    *)
(* block_count.                                                            *)
Init ==
  /\ bitmap = {}
  /\ available = BlockCount
  /\ sem = BlockCount
  /\ pc = [t \in Threads |-> "idle"]
  /\ idx = [t \in Threads |-> 0]
  /\ held = [t \in Threads |-> {}]
  /\ misused = FALSE

Goto(t, label) == pc' = [pc EXCEPT ![t] = label]

(* The backend's semaphore: a give at the maximal count reports overflow   *)
(* and leaves the count alone; the pool ignores that result.               *)
SemGive == sem' = IF sem < BlockCount THEN sem + 1 ELSE sem

-----------------------------------------------------------------------------
(* osal_memory_pool_allocate: try_take, nullptr when it fails.             *)
Allocate(t) ==
  /\ pc[t] = "idle"
  /\ IF sem > 0
       THEN sem' = sem - 1 /\ Goto(t, "took")
       ELSE UNCHANGED <<sem, pc>>
  /\ UNCHANGED <<bitmap, available, idx, held, misused>>

(* osal_memory_pool_allocate_timed: blocks in osal_semaphore_take, either  *)
(* with WAIT_FOREVER ("take") or with a finite timeout ("take_timed").     *)
AllocateTimed(t) ==
  /\ pc[t] = "idle"
  /\ \E p \in {"take", "take_timed"} : Goto(t, p)
  /\ UNCHANGED <<bitmap, available, sem, idx, held, misused>>

TakeSucceeds(t) ==
  /\ pc[t] \in {"take", "take_timed"}
  /\ sem > 0
  /\ sem' = sem - 1
  /\ Goto(t, "took")
  /\ UNCHANGED <<bitmap, available, idx, held, misused>>

TakeTimesOut(t) ==
  /\ pc[t] = "take_timed"
  /\ sem = 0
  /\ Goto(t, "idle")
  /\ UNCHANGED <<bitmap, available, sem, idx, held, misused>>

(* Variant: the free mask is not applied, any bit may be chosen.           *)
BitmapAlloc_NoMask(t) ==
  /\ pc[t] = "took"
  /\ \E i \in Blocks :
       /\ bitmap' = bitmap \cup {i}
       /\ available' = available - 1
       /\ idx' = [idx EXCEPT ![t] = i]
       /\ held' = [held EXCEPT ![t] = @ \cup {i}]
       /\ Goto(t, "idle")
  /\ UNCHANGED <<sem, misused>>

(* pool_bitmap_alloc under the guard: the first clear bit, or block_count, *)
(* which sends the caller to the branch marked "Should not happen".        *)
BitmapAlloc(t) ==
  /\ pc[t] = "took"
  /\ IF Free = {}
       THEN /\ Goto(t, "give_back")
            /\ UNCHANGED <<bitmap, available, idx, held>>
       ELSE \E i \in Free :
              /\ \A j \in Free : i <= j
              /\ bitmap' = bitmap \cup {i}
              /\ available' = available - 1
              /\ idx' = [idx EXCEPT ![t] = i]
              /\ held' = [held EXCEPT ![t] = @ \cup {i}]
              /\ Goto(t, "idle")
  /\ UNCHANGED <<sem, misused>>

-----------------------------------------------------------------------------
(* osal_memory_pool_deallocate: the caller passes a pointer to block b,    *)
(* which is in range and aligned, and which it may not hold.               *)
Deallocate(t, b) ==
  /\ pc[t] = "idle"
  /\ misused' = (misused \/ b \notin held[t])
  /\ idx' = [idx EXCEPT ![t] = b]
  /\ held' = [held EXCEPT ![t] = @ \ {b}]
  /\ Goto(t, "free")
  /\ UNCHANGED <<bitmap, available, sem>>

(* Variant: no test for a bit that is already clear.                       *)
BitmapFree_NoDoubleFreeTest(t) ==
  /\ pc[t] = "free"
  /\ bitmap' = bitmap \ {idx[t]}
  /\ available' = available + 1
  /\ Goto(t, "give")
  /\ UNCHANGED <<sem, idx, held, misused>>

(* Variant: the semaphore is given before the bit is cleared.              *)
BitmapFree_GiveFirst(t) ==
  /\ pc[t] = "free"
  /\ IF idx[t] \in bitmap THEN SemGive ELSE UNCHANGED sem
  /\ Goto(t, "give")
  /\ UNCHANGED <<bitmap, available, idx, held, misused>>

(* Variant: the block is freed and the semaphore is not given.             *)
BitmapFree_NoGive(t) ==
  /\ pc[t] = "free"
  /\ IF idx[t] \in bitmap
       THEN bitmap' = bitmap \ {idx[t]} /\ available' = available + 1
       ELSE UNCHANGED <<bitmap, available>>
  /\ Goto(t, "idle")
  /\ UNCHANGED <<sem, idx, held, misused>>

(* The guarded part: a clear bit is a double free and returns              *)
(* invalid_argument, otherwise pool_bitmap_free and, after the unlock, the *)
(* give.                                                                   *)
BitmapFree(t) ==
  /\ pc[t] = "free"
  /\ IF idx[t] \in bitmap
       THEN /\ bitmap' = bitmap \ {idx[t]}
            /\ available' = available + 1
            /\ Goto(t, "give")
       ELSE /\ Goto(t, "idle")
            /\ UNCHANGED <<bitmap, available>>
  /\ UNCHANGED <<sem, idx, held, misused>>

(* osal_semaphore_give, of deallocate and of the allocators' last branch.  *)
Give(t) ==
  /\ pc[t] \in {"give", "give_back"}
  /\ SemGive
  /\ Goto(t, "idle")
  /\ UNCHANGED <<bitmap, available, idx, held, misused>>

-----------------------------------------------------------------------------
Step(t) ==
  \/ Allocate(t)
  \/ AllocateTimed(t)
  \/ TakeSucceeds(t)
  \/ TakeTimesOut(t)
  \/ BitmapAlloc(t)
  \/ \E b \in Blocks : Deallocate(t, b)
  \/ BitmapFree(t)
  \/ Give(t)

Next == \E t \in Threads : Step(t)

Spec == Init /\ [][Next]_vars

(* A thread inside a call keeps running: the scheduler is fair to the      *)
(* steps of a call that are not waiting for anything, and a semaphore with *)
(* a positive count releases a thread that is blocked on it.               *)
InCall(t) == TakeSucceeds(t) \/ BitmapAlloc(t) \/ BitmapFree(t) \/ Give(t)

FairSpec == Spec /\ \A t \in Threads : WF_vars(InCall(t))

-----------------------------------------------------------------------------
(* Callers between a successful take and pool_bitmap_alloc, and between    *)
(* pool_bitmap_free and the give.                                          *)
Taking == {t \in Threads : pc[t] = "took"}
Giving == {t \in Threads : pc[t] \in {"give", "give_back"}}

(* Tokens are conserved: the semaphore's count, the tokens of the callers  *)
(* that took one and have not marked a block yet, and those of the callers *)
(* that cleared a block and have not given one yet, add up to the clear    *)
(* bits; the counter osal_memory_pool_available reports is that number.    *)
Accounting ==
  /\ sem + Cardinality(Taking) + Cardinality(Giving) + Cardinality(bitmap) = BlockCount
  /\ available = BlockCount - Cardinality(bitmap)

(* The counters are within their bounds and agree with the bitmap.         *)
WellFormed == TypeOK /\ Accounting

(* The branch of allocate and allocate_timed marked "Should not happen     *)
(* (sem said a slot was free)" is never taken, whatever order callers run  *)
(* in and even if they free blocks twice.                                  *)
SemSaysSlotFree == \A t \in Threads : pc[t] # "give_back"

(* The give that ends deallocate never meets the semaphore's maximum, so   *)
(* the result the code discards is never an overflow.                      *)
GiveNeverOverflows == \A t \in Threads : pc[t] = "give" => sem < BlockCount

(* No block has two owners, and a block that is held or on its way back    *)
(* has its bit set.                                                        *)
Owned ==
  /\ \A t, u \in Threads : t # u => held[t] \cap held[u] = {}
  /\ \A t \in Threads : held[t] \subseteq bitmap
  /\ \A t \in Threads : pc[t] = "free" =>
       /\ idx[t] \in bitmap
       /\ \A u \in Threads : idx[t] \notin held[u]
       /\ \A u \in Threads : u # t /\ pc[u] = "free" => idx[u] # idx[t]

(* As long as callers have only returned what they hold, no allocation     *)
(* hands out a block that is in use, and no free of a block is refused.    *)
ExclusiveOwnership == ~misused => Owned

(* A caller that waits in allocate_timed with WAIT_FOREVER is not left     *)
(* blocked beside a free block once the calls of the others have ended:    *)
(* every deallocate passes its token on.                                   *)
AtRest(t) == pc[t] \in {"idle", "take", "take_timed"}

NoStrandedWaiter ==
  []<>((\A t \in Threads : AtRest(t)) /\ Free # {} => \A t \in Threads : pc[t] # "take")
=============================================================================
