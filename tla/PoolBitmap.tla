----------------------------- MODULE PoolBitmap -----------------------------
(***************************************************************************)
(* The words of the memory pool's bitmap: pool_bitmap_word_mask,           *)
(* pool_first_free_bit, pool_bitmap_alloc and pool_bitmap_free on an array *)
(* of machine words, each a set of bit positions.  The word has 32 bits in *)
(* the code and WordBits bits here; block_count need not be a multiple of  *)
(* it.  Calls run one at a time, as they do under the pool's guard.        *)
(***************************************************************************)
EXTENDS Integers, FiniteSets, FiniteSetsExt

CONSTANTS BitmapBlocks,  \* block_count
          WordBits

ASSUME SizesAssumption == BitmapBlocks \in Nat \ {0} /\ WordBits \in Nat \ {0}

VARIABLES words,      \* bitmap: word index -> set of bits that are one
          clear,      \* pool->available
          last        \* the block the last call handed out or took back

bitmapVars == <<words, clear, last>>

BitmapWords == (BitmapBlocks + WordBits - 1) \div WordBits
WordIndices == 0 .. BitmapWords - 1
Bits == 0 .. WordBits - 1
BitmapIndices == 0 .. BitmapBlocks - 1

(* Variant: the last word is not masked down to block_count.               *)
pool_bitmap_word_mask_Full(w) == Bits

pool_bitmap_word_mask(w) ==
  LET remaining == BitmapBlocks - w * WordBits
  IN  IF remaining >= WordBits THEN Bits ELSE 0 .. remaining - 1

FreeMask(w) == (Bits \ words[w]) \cap pool_bitmap_word_mask(w)

pool_first_free_bit(freeMask) == Min(freeMask)

BitmapInit ==
  /\ words = [w \in WordIndices |-> {}]
  /\ clear = BitmapBlocks
  /\ last = BitmapBlocks

(* The first word with a clear bit below block_count is used.              *)
pool_bitmap_alloc ==
  LET candidates == {w \in WordIndices : FreeMask(w) # {}}
  IN  IF candidates = {}
        THEN last' = BitmapBlocks /\ UNCHANGED <<words, clear>>
        ELSE LET w == Min(candidates)
                 b == pool_first_free_bit(FreeMask(w))
             IN  /\ words' = [words EXCEPT ![w] = @ \cup {b}]
                 /\ clear' = clear - 1
                 /\ last' = w * WordBits + b

(* deallocate only reaches pool_bitmap_free when the bit is set.           *)
pool_bitmap_free(i) ==
  LET w == i \div WordBits
      b == i % WordBits
  IN  /\ b \in words[w]
      /\ words' = [words EXCEPT ![w] = @ \ {b}]
      /\ clear' = clear + 1
      /\ last' = i

BitmapNext == pool_bitmap_alloc \/ \E i \in BitmapIndices : pool_bitmap_free(i)

BitmapSpec == BitmapInit /\ [][BitmapNext]_bitmapVars

-----------------------------------------------------------------------------
(* The blocks whose bit is set, as deallocate computes their positions.    *)
Allocated == {i \in BitmapIndices : (i % WordBits) \in words[i \div WordBits]}

(* The padding bits of the last word are never handed out, and the counter *)
(* is the number of blocks whose bit is clear.                             *)
NoBlockPastEnd ==
  /\ \A w \in WordIndices : \A b \in words[w] : w * WordBits + b \in BitmapIndices
  /\ clear = BitmapBlocks - Cardinality(Allocated)

(* What the bitmap promises the pool: alloc adds exactly the lowest free   *)
(* block and reports it, or reports block_count when none is free; free    *)
(* removes exactly the block it is given; NoBlockPastEnd is kept.          *)
SetSemantics ==
  LET free == BitmapIndices \ Allocated
  IN  \/ free = {} /\ Allocated' = Allocated /\ last' = BitmapBlocks
      \/ free # {} /\ last' = Min(free) /\ Allocated' = Allocated \cup {last'}
      \/ last' \in Allocated /\ Allocated' = Allocated \ {last'}

BitmapIsASet == [][SetSemantics /\ NoBlockPastEnd']_bitmapVars
=============================================================================
