---------------------------- MODULE MCMemoryPool ----------------------------
(* Three independent systems; a behaviour is one of one of them.           *)
(* pool: three callers on a pool of two blocks, one more caller than       *)
(* blocks, so that exhaustion, blocking and hand-over all happen.          *)
(* bitmap: the words of a bitmap of seven blocks, three to a word.         *)
(* buffer: a producer and a consumer on a ring of four bytes.              *)
EXTENDS MemoryPool, PoolBitmap, ByteBuffer

CONSTANTS t1, t2, t3

MCThreads == {t1, t2, t3}

VARIABLE part

mcVars == <<part, vars, bitmapVars, bufVars>>

MCInit ==
  /\ part \in {"pool", "bitmap", "buffer"}
  /\ Init /\ BitmapInit /\ BufInit
  /\ part # "buffer" => kind = "stream"

MCNext ==
  /\ \/ part = "pool" /\ Next /\ UNCHANGED <<bitmapVars, bufVars>>
     \/ part = "bitmap" /\ BitmapNext /\ UNCHANGED <<vars, bufVars>>
     \/ part = "buffer" /\ BufNext /\ UNCHANGED <<vars, bitmapVars>>
  /\ UNCHANGED part

(* The fairness of FairSpec and of BufFairSpec.                            *)
MCSpec ==
  /\ MCInit /\ [][MCNext]_mcVars
  /\ \A t \in Threads : WF_vars(InCall(t))
  /\ WF_bufVars(ProducerStep) /\ WF_bufVars(ConsumerStep)
-----------------------------------------------------------------------------
(* Nobody stays blocked beside a free block; a send that fits and a        *)
(* receive for which enough was sent return.                               *)
SatisfiedCallsReturn == NoStrandedWaiter /\ EnoughReturns
=============================================================================
