---------------------------- MODULE ThreadLocal ----------------------------
(***************************************************************************)
(* thread_local_data (include/osal/thread_local_data.hpp) where it does    *)
(* not sit on pthread keys: the portable storage and bare metal's, both    *)
(* with the generations of tls_registry, and FreeRTOS's slots without.     *)
(* Keys are thread_local_data objects in the order of their construction.  *)
(* A value stands for the key and the thread it was set through.           *)
(***************************************************************************)
EXTENDS Integers, FiniteSets

CONSTANTS TlsBuilds,   \* which of "portable", "bare_metal", "freertos"
          TlsThreads, TlsSlots,
          MaxKeys,     \* bound on the objects constructed
          MaxLives     \* bound on the threads that follow each other in one place

ASSUME TlsAssumption ==
  /\ TlsBuilds \subseteq {"portable", "bare_metal", "freertos"}
  /\ TlsSlots # {}
  /\ MaxKeys \in Nat /\ MaxLives \in Nat \ {0}

VARIABLES tlsBuild,
          tlsMask,   \* used_mask()
          tlsGen,    \* generations()
          tlsKey,    \* key -> "new", "claimed", "live", "cleared", "dead"
          tlsSlot,   \* key -> key_
          tlsValue,  \* values_, per thread and slot
          tlsSeen,   \* generations_seen_
          tlsLife    \* how many threads have lived in this place

tlsVars == <<tlsBuild, tlsMask, tlsGen, tlsKey, tlsSlot, tlsValue, tlsSeen, tlsLife>>

Keys == 1 .. MaxKeys
NoValue == <<0, 0>>
KeyIn(k, state) == tlsKey[k] = state
KeyGoto(k, state) == tlsKey' = [tlsKey EXCEPT ![k] = state]

TlsInit(build) ==
  /\ tlsBuild = build
  /\ tlsMask = {}
  /\ tlsGen = [s \in TlsSlots |-> 0]
  /\ tlsKey = [k \in Keys |-> "new"]
  /\ tlsSlot = [k \in Keys |-> CHOOSE s \in TlsSlots : TRUE]
  /\ tlsValue = [t \in TlsThreads |-> [s \in TlsSlots |-> NoValue]]
  /\ tlsSeen = [t \in TlsThreads |-> [s \in TlsSlots |-> 0]]
  /\ tlsLife = [t \in TlsThreads |-> 1]
-----------------------------------------------------------------------------
(* acquire: the exchange on the mask, then the generation.  The scan is    *)
(* not atomic, so it may find any slot that is free when it gets there.    *)
acquire(k) ==
  /\ KeyIn(k, "new") /\ \A j \in 1 .. k - 1 : ~KeyIn(j, "new")
  /\ \E s \in TlsSlots \ tlsMask :
        tlsMask' = tlsMask \cup {s} /\ tlsSlot' = [tlsSlot EXCEPT ![k] = s]
  /\ KeyGoto(k, IF tlsBuild = "freertos" THEN "live" ELSE "claimed")
  /\ UNCHANGED <<tlsBuild, tlsGen, tlsValue, tlsSeen, tlsLife>>

AcquireCounts_Not(k) ==
  /\ KeyIn(k, "claimed")
  /\ KeyGoto(k, "live")
  /\ UNCHANGED <<tlsBuild, tlsMask, tlsGen, tlsSlot, tlsValue, tlsSeen, tlsLife>>

AcquireCounts(k) ==
  /\ KeyIn(k, "claimed")
  /\ tlsGen' = [tlsGen EXCEPT ![tlsSlot[k]] = @ + 1]
  /\ KeyGoto(k, "live")
  /\ UNCHANGED <<tlsBuild, tlsMask, tlsSlot, tlsValue, tlsSeen, tlsLife>>

(* release: the mask first, then the generation.                           *)
release(k) ==
  /\ KeyIn(k, "live")
  /\ tlsMask' = tlsMask \ {tlsSlot[k]}
  /\ KeyGoto(k, IF tlsBuild = "freertos" THEN "dead" ELSE "cleared")
  /\ UNCHANGED <<tlsBuild, tlsGen, tlsSlot, tlsValue, tlsSeen, tlsLife>>

ReleaseCounts(k) ==
  /\ KeyIn(k, "cleared")
  /\ tlsGen' = [tlsGen EXCEPT ![tlsSlot[k]] = @ + 1]
  /\ KeyGoto(k, "dead")
  /\ UNCHANGED <<tlsBuild, tlsMask, tlsSlot, tlsValue, tlsSeen, tlsLife>>
-----------------------------------------------------------------------------
(* set: the generation is its only shared read.                            *)
set(t, k) ==
  /\ KeyIn(k, "live")
  /\ tlsValue' = [tlsValue EXCEPT ![t][tlsSlot[k]] = <<k, tlsLife[t]>>]
  /\ tlsSeen' = [tlsSeen EXCEPT ![t][tlsSlot[k]] = tlsGen[tlsSlot[k]]]
  /\ UNCHANGED <<tlsBuild, tlsMask, tlsGen, tlsKey, tlsSlot, tlsLife>>

get(t, k) ==
  LET s == tlsSlot[k]
  IN  IF tlsBuild = "freertos" \/ tlsSeen[t][s] = tlsGen[s] THEN tlsValue[t][s] ELSE NoValue

(* A thread ends and another starts in its place: with fresh thread_local  *)
(* storage or a fresh task control block, but in the same row of bare      *)
(* metal's arrays.                                                         *)
ThreadFollows(t) ==
  /\ tlsLife[t] < MaxLives
  /\ tlsLife' = [tlsLife EXCEPT ![t] = @ + 1]
  /\ IF tlsBuild = "bare_metal"
     THEN UNCHANGED <<tlsValue, tlsSeen>>
     ELSE /\ tlsValue' = [tlsValue EXCEPT ![t] = [s \in TlsSlots |-> NoValue]]
          /\ tlsSeen' = [tlsSeen EXCEPT ![t] = [s \in TlsSlots |-> 0]]
  /\ UNCHANGED <<tlsBuild, tlsMask, tlsGen, tlsKey, tlsSlot>>

TlsNext ==
  \/ \E k \in Keys : acquire(k) \/ AcquireCounts(k) \/ release(k) \/ ReleaseCounts(k)
  \/ \E t \in TlsThreads : ThreadFollows(t) \/ \E k \in Keys : set(t, k)

TlsSpec == (\E build \in TlsBuilds : TlsInit(build)) /\ [][TlsNext]_tlsVars
-----------------------------------------------------------------------------
TlsTypeOK ==
  /\ tlsMask \subseteq TlsSlots
  /\ tlsKey \in [Keys -> {"new", "claimed", "live", "cleared", "dead"}]
  /\ tlsSlot \in [Keys -> TlsSlots]

(* Two keys in use never share a slot, and what get returns was set        *)
(* through this key, never through an earlier key of the slot; and by this *)
(* thread, not by an earlier one.  (Without generations, on FreeRTOS, an   *)
(* earlier key's pointer is still there; on bare metal an earlier task's.) *)
TlsOwnValue ==
  /\ TlsTypeOK
  /\ \A j, k \in Keys :
        j # k /\ {tlsKey[j], tlsKey[k]} \subseteq {"claimed", "live"} => tlsSlot[j] # tlsSlot[k]
  /\ \A t \in TlsThreads, k \in Keys :
        KeyIn(k, "live") /\ get(t, k) # NoValue =>
           /\ tlsBuild # "freertos" => get(t, k)[1] = k
           /\ tlsBuild # "bare_metal" => get(t, k)[2] = tlsLife[t]

(* A value that a thread has set through a live key is what it gets        *)
(* (tests/test_thread_local_data.cpp: set(&value), get() == &value).       *)
TlsKeepsValue ==
  \A t \in TlsThreads, k \in Keys :
     KeyIn(k, "live") /\ tlsValue[t][tlsSlot[k]] = <<k, tlsLife[t]>> => get(t, k) = <<k, tlsLife[t]>>
=============================================================================
