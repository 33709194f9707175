------------------------- MODULE CondvarUserProofs -------------------------
(***************************************************************************)
(* Three users of the emulated condition variable, for every number of     *)
(* threads and of slots: the barrier, the predicate waits of condvar.hpp,  *)
(* and the notification with its wait set.                                 *)
(***************************************************************************)
EXTENDS MCCondvarPredicate, CondvarSlots

(* Those who wait although their rendezvous is over, and the rendezvous    *)
(* completed so far.                                                       *)
Over == {t \in Threads : pc[t] = "wait" /\ gen[t] # generation}
Rounds == Cardinality(Total("barrier_serial"))

BarrierTypes ==
  /\ arrived \in 0 .. Threshold - 1
  /\ generation \in 0 .. GenMod - 1
  /\ gen \in [Threads -> 0 .. GenMod - 1]
  /\ pc \in [Threads -> {"idle", "wait"}]
  /\ calls \in [Threads -> 0 .. MaxRounds]
  /\ returned \in [Threads -> [Results -> 0 .. MaxRounds]]

(* Every call has passed or is waiting.                                    *)
CallsCounted ==
  \A t \in Threads : calls[t] = Passed(t) + (IF pc[t] = "wait" THEN 1 ELSE 0)

(* Every thread has passed each completed rendezvous, or is about to.      *)
RoundsCounted ==
  \A t \in Threads : Rounds = Passed(t) + (IF t \in Over THEN 1 ELSE 0)

(* Of each rendezvous all but the serial thread have returned ok or will.  *)
OksCounted == Cardinality(Total("ok")) + Cardinality(Over) = (Threshold - 1) * Rounds

(* A thread is inside osal_condvar_wait only during osal_barrier_wait.     *)
WaitIsInCall == \A t \in Threads : InWait(t) => pc[t] = "wait"

CvRest == SlotIInv /\ OwnerIsAThread /\ TimedIsBoolean

BarrierInv ==
  /\ BarrierTypes /\ CallsCounted /\ RoundsCounted /\ OksCounted
  /\ ArrivedAreWaiting /\ WaitIsInCall /\ OverMeansNotified

(* As many threads as the threshold, and a slot for each: with fewer slots *)
(* a call returns out_of_resources and its arrival stays counted.          *)
FullHouse == Cardinality(Threads) = Threshold /\ Threshold <= MaxWaiters

-----------------------------------------------------------------------------
(* The returns of a result are finitely many.                              *)
LEMMA TotalIsFinite == \A x : IsFiniteSet(Total(x)) /\ Cardinality(Total(x)) \in Nat
<1> TAKE x
<1>1. IsFiniteSet(1 .. MaxRounds)
  BY BarrierAssumption, FS_Interval
<1>2. IsFiniteSet(Threads \X (1 .. MaxRounds))
  BY <1>1, CondvarAssumption, FS_Product, Zenon
<1>3. Total(x) \in SUBSET (Threads \X (1 .. MaxRounds))
  BY Zenon DEF Total
<1>4. QED
  BY <1>2, <1>3, FS_Subset, FS_CardinalityType, Zenon

(* A call of osal_barrier_wait that returns x adds one return of x to its  *)
(* own thread's and to the total, and nothing else.                        *)
LEMMA ReturnCounts ==
  ASSUME BarrierTypes, NEW t \in Threads, NEW x \in Results, returned[t][x] < MaxRounds,
         returned' = [returned EXCEPT ![t][x] = @ + 1]
  PROVE  /\ returned' \in [Threads -> [Results -> 0 .. MaxRounds]]
         /\ \A u \in Threads, y \in Results :
              returned'[u][y] = IF u = t /\ y = x THEN returned[t][x] + 1 ELSE returned[u][y]
         /\ Cardinality(Total(x)') = Cardinality(Total(x)) + 1
         /\ \A y \in Results \ {x} : Total(y)' = Total(y)
<1>1. /\ returned \in [Threads -> [Results -> 0 .. MaxRounds]] /\ MaxRounds \in Nat
  BY BarrierAssumption, Zenon DEF BarrierTypes
<1>2. \A u \in Threads, y \in Results :
        returned'[u][y] = IF u = t /\ y = x THEN returned[t][x] + 1 ELSE returned[u][y]
  BY <1>1, Zenon
<1>3. returned' \in [Threads -> [Results -> 0 .. MaxRounds]]
  BY <1>1
<1>4. returned[t][x] \in Nat
  BY <1>1
<1> DEFINE c == <<t, returned[t][x] + 1>>
<1>5. c \in Threads \X (1 .. MaxRounds) /\ c \notin Total(x)
  BY <1>1, <1>4 DEF Total
<1>6. Total(x)' = Total(x) \cup {c}
  <2>1. ASSUME NEW d \in Threads \X (1 .. MaxRounds)
        PROVE  d[2] <= returned'[d[1]][x] <=> d[2] <= returned[d[1]][x] \/ d = c
    <3>1. d = <<d[1], d[2]>> /\ d[1] \in Threads /\ d[2] \in 1 .. MaxRounds
      BY <2>1
    <3>2. CASE d[1] = t
      <4>1. returned'[d[1]][x] = returned[t][x] + 1
        BY <1>2, <3>2, Zenon
      <4>2. d[2] <= returned[t][x] + 1 <=> d[2] <= returned[t][x] \/ d[2] = returned[t][x] + 1
        <5>1. d[2] \in Int /\ returned[t][x] \in Int
          BY <1>4, <3>1
        <5>2. QED
          BY <5>1
      <4>3. d = c <=> d[2] = returned[t][x] + 1
        BY <3>1, <3>2
      <4>4. QED
        BY <3>2, <4>1, <4>2, <4>3, Zenon
    <3>3. CASE d[1] # t
      BY <1>2, <3>1, <3>3
    <3>4. QED
      BY <3>2, <3>3, Zenon
  <2>2. QED
    BY <1>5, <2>1, Zenon DEF Total
<1>7. Cardinality(Total(x)') = Cardinality(Total(x)) + 1
  BY <1>5, <1>6, TotalIsFinite, FS_AddElement, Zenon
<1>8. \A y \in Results \ {x} : Total(y)' = Total(y)
  BY <1>2 DEF Total
<1>9. QED
  BY <1>2, <1>3, <1>7, <1>8, Zenon

(* With a slot for every thread, a thread that is not waiting finds one.   *)
LEMMA ThereIsASlot ==
  ASSUME FullHouse, SlotIInv, NEW t \in Threads, ~InWait(t)
  PROVE  FreeSlots # {}
<1> DEFINE W == {u \in Threads : InWait(u)}
<1>1. W \in SUBSET (Threads \ {t})
  BY Zenon
<1>2. IsFiniteSet(Threads \ {t}) /\ Cardinality(Threads \ {t}) = Threshold - 1
  BY CondvarAssumption, FS_RemoveElement, Zenon DEF FullHouse
<1>3. IsFiniteSet(W) /\ Cardinality(W) <= Threshold - 1
  BY <1>1, <1>2, FS_Subset
<1>4. in_use = {my_slot[u] : u \in W}
  BY Zenon DEF SlotIInv, SlotsMatchWaiters
<1>5. Cardinality(in_use) <= Cardinality(W)
  <2>1. [u \in W |-> my_slot[u]] \in Surjection(W, in_use)
    BY <1>4, Zenon DEF Surjection
  <2>2. QED
    BY <1>3, <2>1, FS_Surjection, Zenon
<1>6. Cardinality(Slots) = MaxWaiters
  <2>1. 0 \in Int /\ MaxWaiters - 1 \in Int /\ MaxWaiters \in Nat /\ MaxWaiters > 0
    BY CondvarAssumption
  <2>2. Cardinality(0 .. MaxWaiters - 1) =
          IF 0 > MaxWaiters - 1 THEN 0 ELSE MaxWaiters - 1 - 0 + 1
    BY <2>1, FS_Interval, Zenon
  <2>3. QED
    BY <2>1, <2>2 DEF Slots
<1>7. SUFFICES ASSUME FreeSlots = {} PROVE FALSE
  BY Zenon
<1>8. in_use = Slots
  BY <1>7, Zenon DEF FreeSlots, SlotIInv, SlotTypes
<1>9. Cardinality(W) \in Nat /\ Threshold \in Nat /\ MaxWaiters \in Nat
  BY <1>3, BarrierAssumption, CondvarAssumption, FS_CardinalityType, Zenon
<1>10. MaxWaiters <= Cardinality(W)
  BY <1>5, <1>6, <1>8, Zenon
<1>11. QED
  BY <1>3, <1>9, <1>10 DEF FullHouse

(* generation wraps, and one more than it is always another value.         *)
LEMMA NextGeneration ==
  ASSUME NEW g \in 0 .. GenMod - 1
  PROVE  (g + 1) % GenMod \in 0 .. GenMod - 1 /\ (g + 1) % GenMod # g
<1>1. GenMod \in Nat /\ GenMod >= 2
  BY BarrierAssumption
<1>2. CASE g + 1 < GenMod
  <2>1. (g + 1) % GenMod = g + 1
    BY <1>1, <1>2
  <2>2. QED
    BY <1>1, <1>2, <2>1
<1>3. CASE g + 1 = GenMod
  <2>1. (g + 1) % GenMod = 0
    BY <1>1, <1>3
  <2>2. QED
    BY <1>1, <1>3, <2>1
<1>4. QED
  BY <1>1, <1>2, <1>3

(* The threads at the barrier are a finite set.                            *)
LEMMA AtTheBarrier ==
  /\ IsFiniteSet(Waiting) /\ IsFiniteSet(Over)
  /\ Cardinality(Waiting) \in Nat /\ Cardinality(Over) \in Nat
<1>1. Waiting \in SUBSET Threads /\ Over \in SUBSET Threads
  BY Zenon DEF Waiting, Over
<1>2. QED
  BY <1>1, CondvarAssumption, FS_Subset, FS_CardinalityType, Zenon

(* The rendezvous that a thread has passed are a number.                   *)
LEMMA PassedIsNat == ASSUME BarrierTypes, NEW t \in Threads
                     PROVE  /\ returned[t]["ok"] \in Nat /\ returned[t]["barrier_serial"] \in Nat
                            /\ Passed(t) \in Nat
<1>1. returned[t] \in [Results -> 0 .. MaxRounds] /\ MaxRounds \in Nat
  BY BarrierAssumption, Zenon DEF BarrierTypes
<1>2. "ok" \in Results /\ "barrier_serial" \in Results
  BY Zenon DEF Results
<1>3. returned[t]["ok"] \in Nat /\ returned[t]["barrier_serial"] \in Nat
  BY <1>1, <1>2
<1>4. QED
  BY <1>3 DEF Passed

-----------------------------------------------------------------------------
(* A thread that waits claims its slot for the current rendezvous and      *)
(* takes nobody's flag.                                                    *)
LEMMA ClaimKeepsNotified ==
  ASSUME SlotIInv, OverMeansNotified, WaitIsInCall, NEW t \in Threads,
         WaitCall(t, FALSE), FreeSlots # {},
         \A u \in Threads \ {t} : gen'[u] = gen[u] /\ (pc[u] = "wait" => pc'[u] = "wait"),
         pc'[t] = "wait", gen'[t] = generation, UNCHANGED generation
  PROVE  OverMeansNotified' /\ WaitIsInCall'
<1>1. PICK s \in Slots :
           /\ s \notin in_use
           /\ signalled' = signalled \ {s}
           /\ \A u \in Threads : wpc'[u] = IF u = t THEN "unlock" ELSE wpc[u]
           /\ \A u \in Threads : my_slot'[u] = IF u = t THEN s ELSE my_slot[u]
           /\ \A u \in Threads \ {t} : InWait(u) => my_slot[u] # s
  BY WaitCallEffect, Zenon
<1>2. OverMeansNotified'
  BY <1>1, Zenon DEF OverMeansNotified, InWait
<1>3. WaitIsInCall'
  BY <1>1, Zenon DEF WaitIsInCall, InWait
<1>4. QED
  BY <1>2, <1>3, Zenon

(* An arrival that is not the last: one more thread waits.                 *)
LEMMA ArrivesHolds ==
  ASSUME FullHouse, SlotIInv, BarrierInv, NEW t \in Threads, Arrives(t)
  PROVE  BarrierInv'
<1>1. BarrierTypes /\ CallsCounted /\ RoundsCounted /\ OksCounted /\ ArrivedAreWaiting
  BY Zenon DEF BarrierInv
<1>2. FreeSlots # {}
  BY ThereIsASlot, Zenon DEF Arrives, WaitOnCv, WaitCall, InWait
<1>3. /\ pc[t] = "idle" /\ calls[t] < MaxRounds
      /\ calls' = [calls EXCEPT ![t] = @ + 1]
      /\ gen' = [gen EXCEPT ![t] = generation]
      /\ arrived + 1 # Threshold /\ arrived' = arrived + 1
      /\ WaitCall(t, FALSE)
      /\ pc' = [pc EXCEPT ![t] = "wait"]
      /\ UNCHANGED <<returned, generation>>
  BY <1>2, Zenon DEF Arrives, Begins, WaitOnCv
<1>4. BarrierTypes'
  BY <1>1, <1>3, BarrierAssumption DEF BarrierTypes
<1>5. /\ \A u \in Threads : gen'[u] = IF u = t THEN generation ELSE gen[u]
      /\ \A u \in Threads : pc'[u] = IF u = t THEN "wait" ELSE pc[u]
      /\ \A u \in Threads : calls'[u] = IF u = t THEN calls[t] + 1 ELSE calls[u]
  BY <1>1, <1>3, Zenon DEF BarrierTypes
<1>6. Over' = Over /\ Waiting' = Waiting \cup {t} /\ t \notin Waiting
  BY <1>3, <1>5 DEF Over, Waiting
<1>7. /\ \A x : Total(x)' = Total(x)
      /\ \A u \in Threads : Passed(u)' = Passed(u)
  BY <1>3, Zenon DEF Total, Passed
<1>8. CallsCounted'
  <2> SUFFICES ASSUME NEW u \in Threads
               PROVE  calls'[u] = Passed(u)' + (IF pc'[u] = "wait" THEN 1 ELSE 0)
    BY Zenon DEF CallsCounted
  <2>1. Passed(u) \in Nat /\ calls[u] = Passed(u) + (IF pc[u] = "wait" THEN 1 ELSE 0)
    BY <1>1, PassedIsNat, Zenon DEF CallsCounted
  <2>2. QED
    BY <1>3, <1>5, <1>7, <2>1
<1>9. RoundsCounted' /\ OksCounted'
  BY <1>1, <1>6, <1>7, Zenon DEF RoundsCounted, OksCounted, Rounds
<1>10. ArrivedAreWaiting'
  <2>1. Cardinality(Waiting \cup {t}) = Cardinality(Waiting) + 1
    BY <1>6, AtTheBarrier, FS_AddElement, Zenon
  <2>2. QED
    BY <1>1, <1>3, <1>6, <2>1, Zenon DEF ArrivedAreWaiting
<1>11. OverMeansNotified' /\ WaitIsInCall'
  BY <1>2, <1>3, <1>5, ClaimKeepsNotified, Zenon DEF BarrierInv
<1>12. QED
  BY <1>4, <1>8, <1>9, <1>10, <1>11, Zenon DEF BarrierInv

(* A thread that finds its rendezvous over leaves it ...                   *)
LEMMA LeavesHolds ==
  ASSUME SlotIInv, BarrierInv, NEW t \in Threads, Recheck(t), gen[t] # generation
  PROVE  BarrierInv'
<1>1. BarrierTypes /\ CallsCounted /\ RoundsCounted /\ OksCounted /\ ArrivedAreWaiting
  BY Zenon DEF BarrierInv
<1>2. /\ pc[t] = "wait" /\ wpc[t] = "out"
      /\ pc' = [pc EXCEPT ![t] = "idle"]
      /\ returned' = [returned EXCEPT ![t]["ok"] = @ + 1]
      /\ UNCHANGED <<arrived, generation, gen, calls, wpc, my_slot, signalled>>
  BY Zenon DEF Recheck, Return, cvRest
<1>3. /\ Passed(t) \in Nat /\ returned[t]["ok"] \in Nat /\ returned[t]["barrier_serial"] \in Nat
      /\ calls[t] = Passed(t) + 1 /\ calls[t] \in 0 .. MaxRounds /\ MaxRounds \in Nat
  BY <1>1, <1>2, PassedIsNat, BarrierAssumption, Zenon DEF CallsCounted, BarrierTypes
<1>4. returned[t]["ok"] < MaxRounds
  BY <1>3 DEF Passed
<1>5. "ok" \in Results /\ "barrier_serial" \in Results \ {"ok"}
  BY Zenon DEF Results
<1>6. /\ returned' \in [Threads -> [Results -> 0 .. MaxRounds]]
      /\ \A u \in Threads, y \in Results :
           returned'[u][y] = IF u = t /\ y = "ok" THEN returned[t]["ok"] + 1 ELSE returned[u][y]
      /\ Cardinality(Total("ok")') = Cardinality(Total("ok")) + 1
      /\ Total("barrier_serial")' = Total("barrier_serial")
  BY <1>1, <1>2, <1>4, <1>5, ReturnCounts, Zenon
<1>7. BarrierTypes'
  BY <1>1, <1>2, <1>6, Zenon DEF BarrierTypes
<1>8. \A u \in Threads : pc'[u] = IF u = t THEN "idle" ELSE pc[u]
  BY <1>1, <1>2, Zenon DEF BarrierTypes
<1>9. Over' = Over \ {t} /\ t \in Over /\ Waiting' = Waiting
  BY <1>2, <1>8 DEF Over, Waiting
<1>10. \A u \in Threads : Passed(u)' = IF u = t THEN Passed(t) + 1 ELSE Passed(u)
  <2> TAKE u \in Threads
  <2>1. CASE u = t
    BY <1>3, <1>5, <1>6, <2>1 DEF Passed
  <2>2. CASE u # t
    BY <1>5, <1>6, <2>2, Zenon DEF Passed
  <2>3. QED
    BY <2>1, <2>2, Zenon
<1>11. CallsCounted'
  BY <1>1, <1>2, <1>3, <1>8, <1>10 DEF CallsCounted
<1>12. Rounds' = Rounds
  BY <1>6, Zenon DEF Rounds
<1>13. RoundsCounted'
  BY <1>1, <1>3, <1>9, <1>10, <1>12 DEF RoundsCounted
<1>14. OksCounted'
  <2>1. Cardinality(Over \ {t}) = Cardinality(Over) - 1
    BY <1>9, AtTheBarrier, FS_RemoveElement, Zenon
  <2>2. /\ Cardinality(Total("ok")) \in Nat /\ Cardinality(Over) \in Nat
    BY TotalIsFinite, AtTheBarrier, Zenon
  <2>3. Cardinality(Total("ok")') + Cardinality(Over') = Cardinality(Total("ok")) + Cardinality(Over)
    BY <1>6, <1>9, <2>1, <2>2
  <2>4. QED
    BY <1>1, <1>12, <2>3, Zenon DEF OksCounted
<1>15. ArrivedAreWaiting'
  BY <1>1, <1>2, <1>9, Zenon DEF ArrivedAreWaiting
<1>16. OverMeansNotified' /\ WaitIsInCall'
  BY <1>2, <1>8, Zenon DEF BarrierInv, OverMeansNotified, WaitIsInCall, InWait
<1>17. QED
  BY <1>7, <1>11, <1>13, <1>14, <1>15, <1>16, Zenon DEF BarrierInv

(* Steps that leave the barrier's own state alone.                         *)
LEMMA BarrierKept ==
  ASSUME BarrierInv, UNCHANGED barrierVars, OverMeansNotified', WaitIsInCall'
  PROVE  BarrierInv'
<1>1. BarrierTypes' /\ Over' = Over /\ Waiting' = Waiting
  BY Zenon DEF BarrierInv, BarrierTypes, barrierVars, Over, Waiting
<1>2. /\ \A x : Total(x)' = Total(x)
      /\ \A u \in Threads : Passed(u)' = Passed(u)
  BY Zenon DEF barrierVars, Total, Passed
<1>3. CallsCounted' /\ RoundsCounted' /\ OksCounted' /\ ArrivedAreWaiting'
  BY <1>1, <1>2, Zenon
  DEF BarrierInv, CallsCounted, RoundsCounted, OksCounted, ArrivedAreWaiting, Rounds, barrierVars
<1>4. QED
  BY <1>1, <1>3, Zenon DEF BarrierInv

(* ... one that does not waits again, ...                                  *)
LEMMA WaitsAgainHolds ==
  ASSUME FullHouse, SlotIInv, BarrierInv, NEW t \in Threads, Recheck(t), gen[t] = generation
  PROVE  BarrierInv'
<1>1. FreeSlots # {}
  BY ThereIsASlot, Zenon DEF Recheck, InWait
<1>2. /\ pc[t] = "wait" /\ WaitCall(t, FALSE)
      /\ pc' = [pc EXCEPT ![t] = "wait"]
      /\ UNCHANGED <<arrived, generation, gen, calls, returned>>
  BY <1>1, Zenon DEF Recheck, WaitOnCv
<1>3. pc' = pc
  BY <1>2, Zenon DEF BarrierInv, BarrierTypes
<1>4. OverMeansNotified' /\ WaitIsInCall'
  BY <1>1, <1>2, <1>3, ClaimKeepsNotified, Zenon DEF BarrierInv
<1>5. QED
  BY <1>2, <1>3, <1>4, BarrierKept, Zenon DEF barrierVars

(* ... and the steps inside osal_condvar_wait leave flags and rounds alone.*)
LEMMA InWaitHolds ==
  ASSUME SlotIInv, BarrierInv, NEW t \in Threads, InWaitStep(t)
  PROVE  BarrierInv'
<1>1. /\ UNCHANGED <<my_slot, signalled>> /\ InWait(t)
      /\ \A u \in Threads \ {t} : wpc'[u] = wpc[u]
      /\ wpc'[t] \in {"unlock", "take"} => wpc[t] \in {"unlock", "take"}
  BY WaitStepEffect, Zenon DEF InWaitStep
<1>2. UNCHANGED barrierVars
  BY Zenon DEF InWaitStep
<1>3. OverMeansNotified' /\ WaitIsInCall'
  BY <1>1, <1>2, Zenon DEF BarrierInv, OverMeansNotified, WaitIsInCall, InWait, barrierVars
<1>4. QED
  BY <1>2, <1>3, BarrierKept, Zenon

(* The last arrival: everybody else is waiting for this rendezvous, nobody *)
(* for an earlier one, and all of them are notified.                       *)
LEMMA LastArrivesHolds ==
  ASSUME FullHouse, SlotIInv, BarrierInv, NEW t \in Threads, LastArrives(t)
  PROVE  BarrierInv'
<1>1. BarrierTypes /\ CallsCounted /\ RoundsCounted /\ OksCounted /\ ArrivedAreWaiting
  BY Zenon DEF BarrierInv
<1>2. /\ pc[t] = "idle" /\ calls[t] < MaxRounds
      /\ calls' = [calls EXCEPT ![t] = @ + 1]
      /\ gen' = [gen EXCEPT ![t] = generation]
      /\ arrived + 1 = Threshold /\ arrived' = 0
      /\ generation' = (generation + 1) % GenMod
      /\ osal_condvar_notify_all
      /\ pc' = [pc EXCEPT ![t] = "idle"]
      /\ returned' = [returned EXCEPT ![t]["barrier_serial"] = @ + 1]
  BY Zenon DEF LastArrives, Begins, Return
<1>3. generation' \in 0 .. GenMod - 1 /\ generation' # generation
  BY <1>1, <1>2, NextGeneration, Zenon DEF BarrierTypes
<1>4. /\ Passed(t) \in Nat /\ returned[t]["ok"] \in Nat /\ returned[t]["barrier_serial"] \in Nat
      /\ calls[t] = Passed(t) /\ MaxRounds \in Nat
  BY <1>1, <1>2, PassedIsNat, BarrierAssumption DEF CallsCounted
<1>5. returned[t]["barrier_serial"] < MaxRounds
  BY <1>2, <1>4 DEF Passed
<1>6. "ok" \in Results \ {"barrier_serial"} /\ "barrier_serial" \in Results
  BY Zenon DEF Results
<1>7. /\ returned' \in [Threads -> [Results -> 0 .. MaxRounds]]
      /\ \A u \in Threads, y \in Results :
           returned'[u][y] = IF u = t /\ y = "barrier_serial"
                               THEN returned[t]["barrier_serial"] + 1 ELSE returned[u][y]
      /\ Cardinality(Total("barrier_serial")') = Cardinality(Total("barrier_serial")) + 1
      /\ Total("ok")' = Total("ok")
  BY <1>1, <1>2, <1>5, <1>6, ReturnCounts, Zenon
<1>8. BarrierTypes'
  <2>1. calls' \in [Threads -> 0 .. MaxRounds]
    BY <1>1, <1>2, <1>4 DEF BarrierTypes
  <2>2. gen' \in [Threads -> 0 .. GenMod - 1] /\ pc' \in [Threads -> {"idle", "wait"}]
    BY <1>1, <1>2, Zenon DEF BarrierTypes
  <2>3. arrived' \in 0 .. Threshold - 1
    BY <1>2, BarrierAssumption
  <2>4. QED
    BY <1>3, <1>7, <2>1, <2>2, <2>3, Zenon DEF BarrierTypes
<1>9. Waiting = Threads \ {t}
  <2>1. Waiting \in SUBSET (Threads \ {t})
    BY <1>2, Zenon DEF Waiting
  <2>2. IsFiniteSet(Threads \ {t}) /\ Cardinality(Threads \ {t}) = Threshold - 1
    BY CondvarAssumption, FS_RemoveElement, Zenon DEF FullHouse
  <2>3. Cardinality(Waiting) = Threshold - 1
    BY <1>1, <1>2, BarrierAssumption, AtTheBarrier DEF ArrivedAreWaiting
  <2>4. QED
    BY <2>1, <2>2, <2>3, FS_Subset, Zenon
<1>10. /\ \A u \in Threads : gen'[u] = generation
       /\ \A u \in Threads \ {t} : pc'[u] = "wait" /\ pc[u] = "wait"
       /\ pc'[t] = "idle"
  BY <1>1, <1>2, <1>9, Zenon DEF BarrierTypes, Waiting
<1>11. Over = {} /\ Over' = Threads \ {t} /\ Waiting' = {}
  BY <1>2, <1>3, <1>9, <1>10, Zenon DEF Over, Waiting
<1>12. \A u \in Threads : Passed(u)' = IF u = t THEN Passed(t) + 1 ELSE Passed(u)
  <2> TAKE u \in Threads
  <2>1. CASE u = t
    BY <1>4, <1>6, <1>7, <2>1 DEF Passed
  <2>2. CASE u # t
    BY <1>6, <1>7, <2>2, Zenon DEF Passed
  <2>3. QED
    BY <2>1, <2>2, Zenon
<1>13. CallsCounted'
  <2> SUFFICES ASSUME NEW u \in Threads
               PROVE  calls'[u] = Passed(u)' + (IF pc'[u] = "wait" THEN 1 ELSE 0)
    BY Zenon DEF CallsCounted
  <2>1. calls'[u] = IF u = t THEN calls[t] + 1 ELSE calls[u]
    BY <1>1, <1>2, Zenon DEF BarrierTypes
  <2>2. CASE u = t
    BY <1>4, <1>10, <1>12, <2>1, <2>2
  <2>3. CASE u # t
    BY <1>1, <1>10, <1>12, <2>1, <2>3, Zenon DEF CallsCounted
  <2>4. QED
    BY <2>2, <2>3, Zenon
<1>14. Rounds' = Rounds + 1 /\ Rounds \in Nat
  BY <1>7, TotalIsFinite, Zenon DEF Rounds
<1>15. RoundsCounted'
  <2> SUFFICES ASSUME NEW u \in Threads
               PROVE  Rounds' = Passed(u)' + (IF u \in Over' THEN 1 ELSE 0)
    BY Zenon DEF RoundsCounted
  <2>1. Rounds = Passed(u) /\ Passed(u) \in Nat
    BY <1>1, <1>11, PassedIsNat DEF RoundsCounted
  <2>2. CASE u = t
    BY <1>11, <1>12, <1>14, <2>1, <2>2
  <2>3. CASE u # t
    BY <1>11, <1>12, <1>14, <2>1, <2>3, Zenon
  <2>4. QED
    BY <2>2, <2>3, Zenon
<1>16. OksCounted'
  <2>1. Cardinality(Over') = Threshold - 1
    BY <1>11, CondvarAssumption, FS_RemoveElement, Zenon DEF FullHouse
  <2>2. Cardinality(Over) = 0
    BY <1>11, FS_EmptySet, Zenon
  <2>3. Cardinality(Total("ok")) = (Threshold - 1) * Rounds
    <3>1. Cardinality(Total("ok")) + 0 = (Threshold - 1) * Rounds
      BY <1>1, <2>2, Zenon DEF OksCounted
    <3>2. Cardinality(Total("ok")) \in Nat
      BY TotalIsFinite, Zenon
    <3>3. QED
      BY <3>1, <3>2
  <2>4. (Threshold - 1) * (Rounds + 1) = (Threshold - 1) * Rounds + (Threshold - 1)
    BY <1>14, BarrierAssumption
  <2>5. Cardinality(Total("ok")') + Cardinality(Over') = (Threshold - 1) * Rounds'
    BY <1>7, <1>14, <2>1, <2>3, <2>4, Zenon
  <2>6. QED
    BY <2>5, Zenon DEF OksCounted
<1>17. ArrivedAreWaiting'
  BY <1>2, <1>11, FS_EmptySet, Zenon DEF ArrivedAreWaiting
<1>18. OverMeansNotified' /\ WaitIsInCall'
  <2>1. /\ UNCHANGED <<wpc, my_slot>>
        /\ \A u \in Threads : InWait(u) => my_slot[u] \in signalled'
    BY <1>2, NotifyAllEffect, Zenon
  <2>2. ~InWait(t)
    BY <1>2, Zenon DEF BarrierInv, WaitIsInCall
  <2>3. QED
    BY <1>10, <2>1, <2>2, Zenon DEF OverMeansNotified, WaitIsInCall, InWait
<1>19. QED
  BY <1>8, <1>13, <1>15, <1>16, <1>17, <1>18, Zenon DEF BarrierInv

-----------------------------------------------------------------------------
(* osal_barrier_create establishes the invariant, ...                      *)
LEMMA InitBarrierInv == ASSUME Init PROVE BarrierInv /\ CvRest
<1>1. /\ \A t \in Threads, x \in Results : returned[t][x] = 0
      /\ \A t \in Threads : pc[t] = "idle" /\ calls[t] = 0 /\ wpc[t] = "out"
  BY Zenon DEF Init, CvInit
<1>2. BarrierTypes
  BY BarrierAssumption DEF Init, BarrierTypes
<1>3. Over = {} /\ Waiting = {}
  BY <1>1, Zenon DEF Over, Waiting
<1>4. "ok" \in Results /\ "barrier_serial" \in Results
  BY Zenon DEF Results
<1>5. \A t \in Threads : Passed(t) = 0
  BY <1>1, <1>4 DEF Passed
<1>6. \A x \in Results : Total(x) = {}
  BY <1>1, BarrierAssumption DEF Total
<1>7. Rounds = 0 /\ Cardinality(Total("ok")) = 0 /\ Cardinality(Over) = 0
  BY <1>3, <1>4, <1>6, FS_EmptySet, Zenon DEF Rounds
<1>8. CallsCounted /\ RoundsCounted
  BY <1>1, <1>3, <1>5, <1>7 DEF CallsCounted, RoundsCounted
<1>9. OksCounted
  BY <1>7, BarrierAssumption DEF OksCounted
<1>10. ArrivedAreWaiting /\ OverMeansNotified /\ WaitIsInCall
  BY <1>1, <1>3, FS_EmptySet, Zenon DEF Init, ArrivedAreWaiting, OverMeansNotified, WaitIsInCall, InWait
<1>11. QED
  BY <1>2, <1>8, <1>9, <1>10, SlotInit, TimedInit, Zenon DEF BarrierInv, CvRest, Init

(* ... every step of a caller keeps it, ...                                *)
LEMMA StepBarrierInv ==
  ASSUME FullHouse
  PROVE  CvRest /\ BarrierInv /\ [Next]_allVars => BarrierInv'
<1> SUFFICES ASSUME CvRest, BarrierInv, [Next]_allVars PROVE BarrierInv'
  BY Zenon
<1>1. ASSUME NEW t \in Threads, Recheck(t) PROVE BarrierInv'
  BY <1>1, FullHouse, LeavesHolds, WaitsAgainHolds, Zenon DEF CvRest
<1>2. CASE UNCHANGED allVars
  <2>1. OverMeansNotified' /\ WaitIsInCall'
    BY <1>2, Zenon DEF BarrierInv, OverMeansNotified, WaitIsInCall, InWait, allVars, cvVars, barrierVars
  <2>2. QED
    BY <1>2, <2>1, BarrierKept, Zenon DEF allVars
<1>3. QED
  BY <1>1, <1>2, FullHouse, LastArrivesHolds, ArrivesHolds, InWaitHolds, Zenon DEF Next, CvRest

(* ... and uses the condition variable as its other callers do.            *)
LEMMA StepCv == CvRest /\ [Next]_allVars => CvRest'
<1> SUFFICES ASSUME CvRest, [Next]_allVars PROVE CvRest'
  BY Zenon
<1>1. ASSUME mutex' \in Threads \cup {NoThread}, SlotIInv', timed' = timed PROVE CvRest'
  BY <1>1, Zenon DEF CvRest, OwnerIsAThread, TimedIsBoolean
<1>2. ASSUME NEW t \in Threads, WaitOnCv(t) PROVE CvRest'
  <2>1. mutex' \in Threads \cup {NoThread} /\ WaitCall(t, FALSE)
    BY <1>2, Zenon DEF WaitOnCv, Return
  <2>2. SlotIInv' /\ TimedIsBoolean'
    BY <2>1, SlotClaim, TimedWaitCall, Zenon DEF CvRest
  <2>3. QED
    BY <2>1, <2>2, Zenon DEF CvRest, OwnerIsAThread
<1>3. ASSUME NEW t \in Threads, LastArrives(t) PROVE CvRest'
  <2>1. osal_condvar_notify_all /\ mutex' = NoThread
    BY <1>3, Zenon DEF LastArrives, Return
  <2>2. timed' = timed
    BY <2>1, Zenon DEF osal_condvar_notify_all, Signal
  <2>3. QED
    BY <1>1, <2>1, <2>2, SlotNotify, Zenon DEF CvRest
<1>4. ASSUME NEW t \in Threads, Recheck(t), gen[t] # generation PROVE CvRest'
  <2>1. mutex' = NoThread /\ UNCHANGED cvRest
    BY <1>4, Zenon DEF Recheck, Return
  <2>2. SlotIInv' /\ timed' = timed
    BY <2>1, SlotStutter, Zenon DEF CvRest, cvRest, slotVars
  <2>3. QED
    BY <1>1, <2>1, <2>2, Zenon
<1>5. ASSUME NEW t \in Threads, InWaitStep(t) PROVE CvRest'
  <2>1. timed' = timed /\ OwnerIsAThread' /\ SlotIInv'
    BY <1>5, TimedKept, OwnerWaitStep, SlotWaitStep, Zenon DEF InWaitStep, CvRest
  <2>2. QED
    BY <1>1, <2>1, Zenon DEF OwnerIsAThread
<1>6. CASE UNCHANGED allVars
  <2>1. SlotIInv' /\ timed' = timed /\ mutex' = mutex
    BY <1>6, SlotStutter, Zenon DEF CvRest, allVars, cvVars, slotVars
  <2>2. QED
    BY <1>1, <2>1, Zenon DEF CvRest, OwnerIsAThread
<1>7. QED
  BY <1>2, <1>3, <1>4, <1>5, <1>6, Zenon DEF Next, Arrives, Recheck

(* The invariant is what the run checks.                                   *)
LEMMA BarrierInvSuffices == CvRest /\ BarrierInv => RendezvousIsExact
<1> SUFFICES ASSUME CvRest, BarrierInv PROVE RendezvousIsExact
  BY Zenon
<1>1. TypeOK
  <2>1. CvTypeOK
    BY SlotsAreExact, Zenon DEF CvRest, SlotsAndWakeupsAreExact
  <2>2. QED
    BY <2>1, Zenon DEF TypeOK, BarrierInv, BarrierTypes
<1>2. Rendezvous
  <2> SUFFICES ASSUME NEW t \in Threads, NEW u \in Threads PROVE Passed(t) <= calls[u]
    BY Zenon DEF Rendezvous
  <2>1. Passed(t) \in Nat /\ Passed(u) \in Nat
    BY PassedIsNat, Zenon DEF BarrierInv
  <2>2. /\ Rounds = Passed(t) + (IF t \in Over THEN 1 ELSE 0)
        /\ Rounds = Passed(u) + (IF u \in Over THEN 1 ELSE 0)
        /\ calls[u] = Passed(u) + (IF pc[u] = "wait" THEN 1 ELSE 0)
    BY Zenon DEF BarrierInv, RoundsCounted, CallsCounted
  <2>3. u \in Over => pc[u] = "wait"
    BY Zenon DEF Over
  <2>4. QED
    BY <2>1, <2>2, <2>3
<1>3. OneSerialPerRound
  <2>1. /\ Cardinality(Over) \in Nat /\ Cardinality(Total("ok")) \in Nat
        /\ Cardinality(Total("barrier_serial")) \in Nat
    BY AtTheBarrier, TotalIsFinite, Zenon
  <2>2. Cardinality(Total("ok")) + Cardinality(Over)
          = (Threshold - 1) * Cardinality(Total("barrier_serial"))
    BY Zenon DEF BarrierInv, OksCounted, Rounds
  <2>3. QED
    BY <2>1, <2>2 DEF OneSerialPerRound
<1>4. QED
  BY <1>1, <1>2, <1>3, Zenon DEF RendezvousIsExact, BarrierInv

(* With as many threads as the threshold and a slot for each, nobody       *)
(* passes osal_barrier_wait before all have reached it, each rendezvous    *)
(* has one serial thread, the arrivals counted are the threads waiting,    *)
(* and whoever waits for a past rendezvous has been notified: for every    *)
(* threshold, and with two values of generation or more.                   *)
THEOREM RendezvousHolds ==
  ASSUME FullHouse
  PROVE  Spec => []RendezvousIsExact
<1>1. CvRest /\ BarrierInv /\ [Next]_allVars => BarrierInv'
  BY FullHouse, StepBarrierInv, Zenon
<1>2. Init => BarrierInv /\ CvRest
  BY InitBarrierInv, Zenon
<1>3. QED
  BY <1>1, <1>2, StepCv, BarrierInvSuffices, PTL DEF Spec
-----------------------------------------------------------------------------
(* The predicate waits of condvar.hpp.  A consumer is asleep while its     *)
(* slot has not been signalled; a producer that has yet to notify and a    *)
(* consumer that has been signalled, or is back in its loop, are active:   *)
(* while anybody is asleep there is one of these for every item.           *)
Asleep == {t \in Threads : InWait(t) /\ my_slot[t] \notin signalled}
Consuming(t) == user[t] \in {"wait", "wait_for"}
Active == {t \in Threads :
             \/ user[t] = "notify"
             \/ Consuming(t) /\ (~InWait(t) \/ my_slot[t] \in signalled)}

PredInv ==
  /\ data \in Nat
  /\ user \in [Threads -> {"idle", "wait", "wait_for", "notify"}]
  /\ \A t \in Threads : InWait(t) => Consuming(t)
  /\ Asleep # {} => data <= Cardinality(Active)

(* There are finitely many active threads.                                 *)
LEMMA ActiveIsFinite == IsFiniteSet(Active) /\ Cardinality(Active) \in Nat
<1>1. Active \in SUBSET Threads
  BY Zenon DEF Active
<1>2. QED
  BY <1>1, CondvarAssumption, FS_Subset, FS_CardinalityType, Zenon

(* A thread outside osal_condvar_wait may forget its locals.               *)
LEMMA ForgetKeepsSlots ==
  ASSUME SlotIInv, NEW t \in Threads, wpc[t] = "out",
         my_slot' = [my_slot EXCEPT ![t] = 0], r' = [r EXCEPT ![t] = "ok"],
         UNCHANGED <<in_use, signalled, sem, n_waiters, wpc>>
  PROVE  SlotIInv' /\ \A u \in Threads : InWait(u) => my_slot'[u] = my_slot[u]
<1>1. 0 \in Slots /\ "ok" \in WaitResults
  BY CondvarAssumption DEF Slots, WaitResults
<1>2. SlotTypes'
  BY <1>1, Zenon DEF SlotIInv, SlotTypes
<1>3. /\ \A u \in Threads : InWait(u)' <=> InWait(u)
      /\ \A u \in Threads : InWait(u) => my_slot'[u] = my_slot[u] /\ r'[u] = r[u]
  BY Zenon DEF SlotIInv, SlotTypes, InWait
<1>4. {my_slot[u] : u \in {v \in Threads : InWait(v)}}' = {my_slot[u] : u \in {v \in Threads : InWait(v)}}
  BY <1>3, Zenon
<1>5. SlotsMatchWaiters'
  BY <1>3, <1>4, Zenon DEF SlotIInv, SlotsMatchWaiters
<1>6. WakeupsAreExact'
  BY <1>3 DEF SlotIInv, WakeupsAreExact, NoStaleWakeup, NoLostWakeup, InWait
<1>7. QED
  BY <1>2, <1>3, <1>5, <1>6, Zenon DEF SlotIInv

(* The wait is over: with an item, or without one when there is none.      *)
LEMMA LeaveHolds ==
  ASSUME SlotIInv, PredInv, NEW t \in Threads, wpc[t] = "out", user[t] # "notify",
         NEW items \in {0, 1}, items <= data, items = 0 => data = 0, Leave(t, items)
  PROVE  SlotIInv' /\ PredInv'
<1>1. SlotIInv' /\ \A u \in Threads : InWait(u) => my_slot'[u] = my_slot[u]
  BY ForgetKeepsSlots, Zenon DEF Leave, LocalsDie
<1>2. data' = data - items /\ data' \in Nat
  BY DEF Leave, PredInv
<1>3. user' = [user EXCEPT ![t] = "idle"] /\ UNCHANGED <<wpc, signalled>>
  BY Zenon DEF Leave, PredGoto
<1>4. \A u \in Threads : user'[u] = IF u = t THEN "idle" ELSE user[u]
  BY <1>3, Zenon DEF PredInv
<1>5. /\ user' \in [Threads -> {"idle", "wait", "wait_for", "notify"}]
      /\ \A u \in Threads : InWait(u)' => Consuming(u)'
  BY <1>3, <1>4, Zenon DEF PredInv, InWait, Consuming
<1>6. Asleep' = Asleep /\ Active' = Active \ {t}
  BY <1>1, <1>3, <1>4 DEF Asleep, Active, InWait, Consuming
<1>7. Cardinality(Active \ {t}) \in Nat /\ Cardinality(Active \ {t}) >= Cardinality(Active) - 1
  <2>1. /\ IsFiniteSet(Active \ {t})
        /\ Cardinality(Active \ {t}) =
             IF t \in Active THEN Cardinality(Active) - 1 ELSE Cardinality(Active)
    BY ActiveIsFinite, FS_RemoveElement, Zenon
  <2>2. Cardinality(Active \ {t}) \in Nat
    BY <2>1, FS_CardinalityType, Zenon
  <2>3. QED
    BY <2>1, <2>2, ActiveIsFinite
<1>8. Asleep' # {} => data' <= Cardinality(Active')
  <2>1. CASE items = 0
    BY <1>2, <1>6, <1>7, <2>1 DEF PredInv
  <2>2. CASE items = 1
    BY <1>2, <1>6, <1>7, <2>2, ActiveIsFinite DEF PredInv
  <2>3. QED
    BY <2>1, <2>2, Zenon
<1>9. QED
  BY <1>1, <1>2, <1>5, <1>8, Zenon DEF PredInv

(* Nobody waits unless there is no item.                                   *)
LEMMA WaitMoreHolds ==
  ASSUME SlotIInv, PredInv, NEW t \in Threads, data = 0, NEW kind \in {"wait", "wait_for"},
         WaitMore(t, kind)
  PROVE  SlotIInv' /\ PredInv'
<1>1. (kind = "wait_for") \in BOOLEAN /\ WaitCall(t, kind = "wait_for")
  BY Zenon DEF WaitMore
<1>2. SlotIInv'
  BY <1>1, SlotClaim, Zenon
<1>3. user' = [user EXCEPT ![t] = kind] /\ data' = 0
  BY Zenon DEF WaitMore, PredGoto
<1>4. user' \in [Threads -> {"idle", "wait", "wait_for", "notify"}]
  BY <1>3, Zenon DEF PredInv
<1>5. \A u \in Threads \ {t} : wpc'[u] = wpc[u]
  <2>1. CASE FreeSlots = {}
    BY <1>1, <2>1, Zenon DEF WaitCall
  <2>2. CASE FreeSlots # {}
    BY <1>1, <2>2, WaitCallEffect, Zenon
  <2>3. QED
    BY <2>1, <2>2, Zenon
<1>6. \A u \in Threads : InWait(u)' => Consuming(u)'
  BY <1>3, <1>5, Zenon DEF PredInv, InWait, Consuming
<1>7. Cardinality(Active)' \in Nat
  <2>1. Active' \in SUBSET Threads
    BY Zenon DEF Active
  <2>2. QED
    BY <2>1, CondvarAssumption, FS_Subset, FS_CardinalityType, Zenon
<1>8. QED
  BY <1>2, <1>3, <1>4, <1>6, <1>7 DEF PredInv

(* A producer adds an item and will notify.                                *)
LEMMA ProduceHolds ==
  ASSUME SlotIInv, PredInv, NEW t \in Threads, Produce(t)
  PROVE  SlotIInv' /\ PredInv'
<1>1. /\ user[t] = "idle" /\ data' = data + 1 /\ user' = [user EXCEPT ![t] = "notify"]
      /\ UNCHANGED cvVars
  BY Zenon DEF Produce, PredGoto
<1>2. \A u \in Threads : user'[u] = IF u = t THEN "notify" ELSE user[u]
  BY <1>1, Zenon DEF PredInv
<1>3. SlotIInv'
  BY <1>1, SlotStutter, Zenon DEF cvVars, slotVars
<1>4. /\ user' \in [Threads -> {"idle", "wait", "wait_for", "notify"}]
      /\ \A u \in Threads : InWait(u)' => Consuming(u)'
      /\ data' \in Nat
  BY <1>1, <1>2 DEF PredInv, InWait, Consuming, cvVars
<1>5. Asleep' = Asleep /\ Active' = Active \cup {t} /\ t \notin Active
  BY <1>1, <1>2, Zenon DEF PredInv, Asleep, Active, InWait, Consuming, cvVars
<1>6. Cardinality(Active') = Cardinality(Active) + 1
  BY <1>5, ActiveIsFinite, FS_AddElement, Zenon
<1>7. QED
  BY <1>1, <1>3, <1>4, <1>5, <1>6, ActiveIsFinite DEF PredInv

(* A notification makes one that is asleep active in the producer's stead, *)
(* or nobody is asleep.                                                    *)
LEMMA NotifyHolds ==
  ASSUME SlotIInv, PredInv, NEW t \in Threads, Notify(t)
  PROVE  SlotIInv' /\ PredInv'
<1>1. /\ user[t] = "notify" /\ data' = data /\ user' = [user EXCEPT ![t] = "idle"]
      /\ osal_condvar_notify_one
  BY Zenon DEF Notify, PredGoto
<1>2. \A u \in Threads : user'[u] = IF u = t THEN "idle" ELSE user[u]
  BY <1>1, Zenon DEF PredInv
<1>3. SlotIInv' /\ UNCHANGED <<wpc, my_slot>>
  BY <1>1, SlotNotify, Zenon DEF osal_condvar_notify_one, Signal
<1>4. ~InWait(t)
  BY <1>1, Zenon DEF PredInv, Consuming
<1>5. /\ user' \in [Threads -> {"idle", "wait", "wait_for", "notify"}]
      /\ \A u \in Threads : InWait(u)' => Consuming(u)'
      /\ data' \in Nat
  BY <1>1, <1>2, <1>3, <1>4, Zenon DEF PredInv, InWait, Consuming
<1>6. \A u \in Threads : InWait(u) => my_slot[u] \in in_use
  BY WaiterHasItsSlot, Zenon
<1>7. CASE Pending = {} /\ Signal({})
  <2>1. Asleep' = {}
    BY <1>3, <1>6, <1>7, Zenon DEF Asleep, Pending, Signal, InWait
  <2>2. QED
    BY <1>3, <1>5, <2>1, Zenon DEF PredInv
<1>8. ASSUME NEW s \in Pending, Signal({s}) PROVE PredInv'
  <2>1. PICK w \in Threads : InWait(w) /\ my_slot[w] = s
    BY Zenon DEF Pending, SlotIInv, SlotsMatchWaiters
  <2>2. /\ signalled' = signalled \cup {s} /\ s \notin signalled
        /\ \A u \in Threads : InWait(u) /\ my_slot[u] = s => u = w
    BY <1>8, <2>1, WaiterHasItsSlot, Zenon DEF Signal, Pending
  <2>3. w \in Asleep /\ w \notin Active /\ w # t /\ t \in Active
    BY <1>1, <1>4, <2>1, <2>2, Zenon DEF Asleep, Active, PredInv, Consuming
  <2>4. Active' = (Active \ {t}) \cup {w}
    BY <1>2, <1>3, <1>4, <2>1, <2>2, <2>3, Zenon DEF Active, InWait, Consuming, PredInv
  <2>5. Cardinality(Active') = Cardinality(Active)
    <3>1. IsFiniteSet(Active \ {t}) /\ Cardinality(Active \ {t}) = Cardinality(Active) - 1
      BY <2>3, ActiveIsFinite, FS_RemoveElement, Zenon
    <3>2. Cardinality((Active \ {t}) \cup {w}) = Cardinality(Active \ {t}) + 1
      BY <2>3, <3>1, FS_AddElement, Zenon
    <3>3. QED
      BY <2>4, <3>1, <3>2, ActiveIsFinite
  <2>6. QED
    BY <1>1, <1>5, <2>3, <2>5, Zenon DEF PredInv
<1>9. QED
  BY <1>1, <1>3, <1>7, <1>8, NotifyOneSignals, Zenon

(* The steps inside osal_condvar_wait make nobody inactive.                *)
LEMMA PredWaitHolds ==
  ASSUME SlotIInv, PredInv, NEW t \in Threads, PredWaitStep(t)
  PROVE  SlotIInv' /\ PredInv'
<1>1. /\ UNCHANGED <<my_slot, signalled>> /\ InWait(t)
      /\ \A u \in Threads \ {t} : wpc'[u] = wpc[u]
  BY WaitStepEffect, Zenon DEF PredWaitStep
<1>2. SlotIInv' /\ UNCHANGED <<data, user>>
  BY SlotWaitStep, Zenon DEF PredWaitStep
<1>3. \A u \in Threads : InWait(u)' => InWait(u)
  BY <1>1, Zenon DEF InWait
<1>4. Asleep' \subseteq Asleep /\ Active \subseteq Active'
  BY <1>1, <1>2, <1>3, Zenon DEF Asleep, Active, InWait, Consuming
<1>5. Cardinality(Active) <= Cardinality(Active') /\ Cardinality(Active') \in Nat
  <2>1. Active' \in SUBSET Threads
    BY Zenon DEF Active
  <2>2. IsFiniteSet(Active')
    BY <2>1, CondvarAssumption, FS_Subset, Zenon
  <2>3. QED
    BY <1>4, <2>2, FS_Subset, FS_CardinalityType, Zenon
<1>6. /\ \A u \in Threads : InWait(u)' => Consuming(u)'
  BY <1>2, <1>3, Zenon DEF PredInv, Consuming
<1>7. QED
  BY <1>2, <1>4, <1>5, <1>6, ActiveIsFinite DEF PredInv

(* All steps of producers and consumers.                                   *)
LEMMA PredStepHolds == SlotIInv /\ PredInv /\ [PredNext]_predicateVars => SlotIInv' /\ PredInv'
<1> SUFFICES ASSUME SlotIInv, PredInv, [PredNext]_predicateVars PROVE SlotIInv' /\ PredInv'
  BY Zenon
<1>1. ASSUME NEW t \in Threads, Consume(t) PROVE SlotIInv' /\ PredInv'
  <2>1. user[t] = "idle" /\ wpc[t] = "out"
    BY <1>1, Zenon DEF Consume, PredInv, InWait, Consuming
  <2>2. CASE data > 0
    BY <1>1, <2>1, <2>2, LeaveHolds DEF Consume, PredInv
  <2>3. CASE ~(data > 0)
    <3>1. data = 0
      BY <2>3 DEF PredInv
    <3>2. PICK kind \in {"wait", "wait_for"} : WaitMore(t, kind)
      BY <1>1, <2>3, Zenon DEF Consume
    <3>3. QED
      BY <3>1, <3>2, WaitMoreHolds, Zenon
  <2>4. QED
    BY <2>2, <2>3, Zenon
<1>2. ASSUME NEW t \in Threads, PredRecheck(t) PROVE SlotIInv' /\ PredInv'
  <2>1. user[t] \in {"wait", "wait_for"} /\ wpc[t] = "out"
    BY <1>2, Zenon DEF PredRecheck
  <2>2. CASE data > 0 /\ Leave(t, 1)
    BY <2>1, <2>2, LeaveHolds DEF PredInv
  <2>3. CASE data = 0 /\ Leave(t, 0)
    BY <2>1, <2>3, LeaveHolds DEF PredInv
  <2>4. CASE data = 0 /\ WaitMore(t, user[t])
    BY <2>1, <2>4, WaitMoreHolds, Zenon
  <2>5. QED
    BY <1>2, <2>2, <2>3, <2>4, Zenon DEF PredRecheck
<1>3. CASE UNCHANGED predicateVars
  <2>1. SlotIInv'
    BY <1>3, SlotStutter, Zenon DEF predicateVars, cvVars, slotVars
  <2>2. Asleep' = Asleep /\ Active' = Active
    BY <1>3, Zenon DEF predicateVars, cvVars, Asleep, Active, InWait, Consuming
  <2>3. QED
    BY <1>3, <2>1, <2>2, Zenon DEF predicateVars, cvVars, PredInv, InWait, Consuming
<1>4. QED
  BY <1>1, <1>2, <1>3, ProduceHolds, NotifyHolds, PredWaitHolds, Zenon DEF PredNext

(* At first nobody waits, so nobody is asleep.                             *)
LEMMA PredInitHolds == PredInit => SlotIInv /\ PredInv
<1> SUFFICES ASSUME PredInit PROVE SlotIInv /\ PredInv
  BY Zenon
<1>1. \A t \in Threads : wpc[t] = "out"
  BY Zenon DEF PredInit, CvInit
<1>2. Asleep = {}
  BY <1>1, Zenon DEF Asleep, InWait
<1>3. QED
  BY <1>1, <1>2, SlotInit, Zenon DEF PredInit, PredInv, InWait

(* When everybody has come to rest nobody is active: then no consumer is   *)
(* asleep, or there is no item.                                            *)
LEMMA PredInvSuffices == SlotIInv /\ PredInv => NoStrandedConsumer
<1> SUFFICES ASSUME SlotIInv, PredInv, \A t \in Threads : AtRest(t), data > 0,
                    NEW t \in Threads, user[t] # "idle"
             PROVE  FALSE
  BY Zenon DEF NoStrandedConsumer
<1>1. \A u \in Threads : user[u] # "idle" => wpc[u] = "take" /\ my_slot[u] \notin signalled
  BY Zenon DEF AtRest, SlotIInv, WakeupsAreExact, NoLostWakeup
<1>2. t \in Asleep
  BY <1>1, Zenon DEF Asleep, InWait
<1>3. Active = {}
  <2> SUFFICES ASSUME NEW a \in Active PROVE FALSE
    BY Zenon
  <2>1. user[a] # "idle" /\ a \in Threads
    BY Zenon DEF Active, Consuming
  <2>2. wpc[a] = "take" /\ my_slot[a] \notin signalled
    BY <1>1, <2>1, Zenon
  <2>3. Consuming(a)
    BY <2>1, <2>2, Zenon DEF PredInv, InWait
  <2>4. QED
    BY <2>2, <2>3, Zenon DEF Active, InWait, Consuming
<1>4. data <= 0
  BY <1>2, <1>3, FS_EmptySet, Zenon DEF PredInv
<1>5. QED
  BY <1>4 DEF PredInv

(* Producers that change the state under the mutex and notify after it,    *)
(* and consumers in wait and wait_for: when all have come to rest, no      *)
(* consumer is blocked beside an item, however many threads, slots and     *)
(* items there are and whichever waits time out.                           *)
THEOREM NoStrandedConsumerHolds == PredSpec => []NoStrandedConsumer
  BY PredInitHolds, PredStepHolds, PredInvSuffices, PTL DEF PredSpec

-----------------------------------------------------------------------------
(* The notification and the wait set.  A thread that sleeps for a slot of  *)
(* the notification has been signalled if the slot is pending; a pass of   *)
(* the wait set has at most one find per entry that it has probed, and is  *)
(* between the read and the clear of an entry only with that entry's find. *)
NoteInv ==
  /\ pending \subseteq NoteSlots
  /\ noteUser \in [Threads -> {"idle", "wait", "wait_for"}]
  /\ noteIndex \in [Threads -> NoteSlots]
  /\ \A t \in Threads : InWait(t) => noteUser[t] # "idle"
  /\ \A t \in Threads :
       wpc[t] \in {"unlock", "take"} /\ noteIndex[t] \in pending => my_slot[t] \in signalled

AllThings == {Slot(s) : s \in NoteSlots} \cup {Bit(b) : b \in FlagBits} \cup {<<"other">>}
Finds == [entry : 1 .. MaxEntries, things : SUBSET AllThings]

ScanTypes ==
  /\ flags \subseteq FlagBits
  /\ entries \in [1 .. MaxEntries -> Registrations \cup {NoEntry}]
  /\ owed \subseteq {Slot(s) : s \in NoteSlots} \cup {Bit(b) : b \in FlagBits}
  /\ found \in Seq(Finds)

Probing(i) == scan = <<i>> /\ Len(found) <= i - 1

Clearing(i) ==
  /\ scan = <<i, "clear">> /\ Len(found) \in 1 .. i
  /\ entries[i] # NoEntry
  /\ entries[i].kind = "notification" => found[Len(found)].things = {Slot(entries[i].arg)}

ScanInv ==
  \/ scan = <<>> /\ found = <<>>
  \/ \E i \in 1 .. MaxEntries + 1 : Probing(i)
  \/ \E i \in 1 .. MaxEntries : Clearing(i)

WsInv == NoteInv /\ ScanTypes /\ ScanInv /\ NothingIsErasedUntold

(* A notification's slot is not an event flag's bit.                       *)
LEMMA SlotsAreNotBits ==
  ASSUME NEW s, NEW b
  PROVE  /\ Slot(s) # Bit(b)
         /\ \A u : Slot(u) = Slot(s) => u = s
         /\ \A c : Bit(c) = Bit(b) => c = b
  BY Zenon DEF Slot, Bit

(* What a pass has found, entry by entry.                                  *)
LEMMA ThingsFound ==
  ASSUME NEW f \in Seq(Finds)
  PROVE  /\ Len(f) \in Nat
         /\ \A x : x \in Things(f) <=> \E i \in 1 .. Len(f) : x \in f[i].things
<1>1. DOMAIN f = 1 .. Len(f) /\ Len(f) \in Nat
  OBVIOUS
<1>2. QED
  BY <1>1, Zenon DEF Things

(* One more find adds its things and keeps the others.                     *)
LEMMA ThingsAppend ==
  ASSUME NEW f \in Seq(Finds), NEW e \in Finds
  PROVE  /\ Append(f, e) \in Seq(Finds) /\ Len(Append(f, e)) = Len(f) + 1
         /\ Append(f, e)[Len(f) + 1] = e
         /\ Things(f) \subseteq Things(Append(f, e))
<1>1. /\ Append(f, e) \in Seq(Finds) /\ Len(Append(f, e)) = Len(f) + 1 /\ Len(f) \in Nat
      /\ \A i \in 1 .. Len(f) : Append(f, e)[i] = f[i]
      /\ Append(f, e)[Len(f) + 1] = e
  OBVIOUS
<1>2. ASSUME NEW x \in Things(f) PROVE x \in Things(Append(f, e))
  <2>1. PICK i \in 1 .. Len(f) : x \in f[i].things
    BY ThingsFound, Zenon
  <2>2. i \in 1 .. Len(Append(f, e)) /\ x \in Append(f, e)[i].things
    BY <1>1, <2>1
  <2>3. QED
    BY <1>1, <2>2, ThingsFound, Zenon
<1>3. QED
  BY <1>1, <1>2, Zenon

(* With room for all entries the caller is told all that was found.        *)
LEMMA AllReported ==
  ASSUME found \in Seq(Finds), Len(found) <= MaxEntries, MaxReady >= MaxEntries
  PROVE  Things(found) \subseteq Things(Reported)
<1>1. Len(found) \in Nat /\ MaxReady \in Nat /\ MaxEntries \in Nat
  BY WaitSetAssumption
<1>2. Reported = SubSeq(found, 1, Len(found))
  BY <1>1 DEF Reported
<1>3. /\ SubSeq(found, 1, Len(found)) \in Seq(Finds)
      /\ Len(SubSeq(found, 1, Len(found))) = Len(found)
      /\ \A i \in 1 .. Len(found) : SubSeq(found, 1, Len(found))[i] = found[i]
  BY <1>1
<1>4. QED
  BY <1>2, <1>3, ThingsFound, Zenon

(* notify makes the slot pending and signals everybody who waits.          *)
LEMMA NoteNotifyHolds ==
  ASSUME SlotIInv, NoteInv, NEW s \in NoteSlots, NEW action, NoteNotify(s, action)
  PROVE  SlotIInv' /\ NoteInv'
<1>1. CASE UNCHANGED <<cvRest, pending>>
  <2>1. SlotIInv'
    BY <1>1, SlotStutter, Zenon DEF cvRest, slotVars
  <2>2. QED
    BY <1>1, <2>1, Zenon DEF NoteNotify, NoteInv, InWait, cvRest
<1>2. CASE osal_condvar_notify_all /\ pending' = pending \cup {s}
  <2>1. /\ SlotIInv' /\ UNCHANGED <<wpc, my_slot>>
        /\ \A u \in Threads : InWait(u) => my_slot[u] \in signalled'
    BY <1>2, NotifyAllEffect, Zenon
  <2>2. UNCHANGED <<noteUser, noteIndex>>
    BY Zenon DEF NoteNotify
  <2>3. QED
    BY <1>2, <2>1, <2>2, Zenon DEF NoteInv, InWait
<1>3. QED
  BY <1>1, <1>2, Zenon DEF NoteNotify

(* A wait that ends, with its notification or without.                     *)
LEMMA NoteLeaveHolds ==
  ASSUME SlotIInv, NoteInv, NEW t \in Threads, NEW s, NEW took, wpc[t] = "out",
         NoteLeave(t, s, took)
  PROVE  SlotIInv' /\ NoteInv'
<1>1. SlotIInv' /\ \A u \in Threads : InWait(u) => my_slot'[u] = my_slot[u]
  BY ForgetKeepsSlots, Zenon DEF NoteLeave
<1>2. (CHOOSE u \in NoteSlots : TRUE) \in NoteSlots
  BY WaitSetAssumption, Zenon
<1>3. /\ pending' = pending \ took /\ UNCHANGED <<wpc, signalled>>
      /\ noteUser' = [noteUser EXCEPT ![t] = "idle"]
      /\ noteIndex' = [noteIndex EXCEPT ![t] = CHOOSE u \in NoteSlots : TRUE]
  BY Zenon DEF NoteLeave
<1>4. \A u \in Threads \ {t} : noteUser'[u] = noteUser[u] /\ noteIndex'[u] = noteIndex[u]
  BY <1>3, Zenon DEF NoteInv
<1>5. /\ noteUser' \in [Threads -> {"idle", "wait", "wait_for"}]
      /\ noteIndex' \in [Threads -> NoteSlots]
  BY <1>2, <1>3, Zenon DEF NoteInv
<1>6. QED
  BY <1>1, <1>3, <1>4, <1>5, Zenon DEF NoteInv, InWait

(* A wait begins to sleep, or sleeps again, for a slot not pending.        *)
LEMMA NoteSleepHolds ==
  ASSUME SlotIInv, NoteInv, NEW t \in Threads, NEW s \in NoteSlots \ pending,
         NEW kind \in {"wait", "wait_for"}, NoteSleep(t, s, kind)
  PROVE  SlotIInv' /\ NoteInv'
<1>1. (kind = "wait_for") \in BOOLEAN /\ WaitCall(t, kind = "wait_for")
  BY Zenon DEF NoteSleep
<1>2. SlotIInv'
  BY <1>1, SlotClaim, Zenon
<1>3. /\ noteUser' = [noteUser EXCEPT ![t] = kind] /\ noteIndex' = [noteIndex EXCEPT ![t] = s]
      /\ pending' = pending
  BY Zenon DEF NoteSleep
<1>4. /\ noteUser' \in [Threads -> {"idle", "wait", "wait_for"}]
      /\ noteIndex' \in [Threads -> NoteSlots]
      /\ noteUser'[t] = kind /\ noteIndex'[t] = s
      /\ \A u \in Threads \ {t} : noteUser'[u] = noteUser[u] /\ noteIndex'[u] = noteIndex[u]
  BY <1>3, Zenon DEF NoteInv
<1>5. \A u \in Threads \ {t} :
        /\ wpc'[u] = wpc[u] /\ my_slot'[u] = my_slot[u]
        /\ InWait(u) /\ my_slot[u] \in signalled => my_slot[u] \in signalled'
  <2>1. CASE FreeSlots = {}
    BY <1>1, <2>1, Zenon DEF WaitCall
  <2>2. CASE FreeSlots # {}
    <3>1. PICK x \in Slots :
            /\ signalled' = signalled \ {x}
            /\ \A u \in Threads : wpc'[u] = IF u = t THEN "unlock" ELSE wpc[u]
            /\ \A u \in Threads : my_slot'[u] = IF u = t THEN x ELSE my_slot[u]
            /\ \A u \in Threads \ {t} : InWait(u) => my_slot[u] # x
      BY <1>1, <2>2, WaitCallEffect, Zenon
    <3>2. QED
      BY <3>1, Zenon
  <2>3. QED
    BY <2>1, <2>2, Zenon
<1>6. QED
  BY <1>2, <1>3, <1>4, <1>5, Zenon DEF NoteInv, InWait

(* The steps of the notification and of the wait set.                      *)
LEMMA NoteStepHolds ==
  ASSUME SlotIInv, NoteInv, [WsNext]_<<cvVars, wsVars>>
  PROVE  SlotIInv' /\ NoteInv'
<1>1. ASSUME UNCHANGED <<cvVars, noteUser, noteIndex>>, pending' \subseteq pending
      PROVE  SlotIInv' /\ NoteInv'
  <2>1. SlotIInv'
    BY <1>1, SlotStutter, Zenon DEF cvVars, slotVars
  <2>2. QED
    BY <1>1, <2>1, Zenon DEF NoteInv, InWait, cvVars
<1>2. ASSUME NEW s \in NoteSlots, NEW t \in Threads, NEW kind \in {"wait", "wait_for"},
             NoteWait(t, s, kind)
      PROVE  SlotIInv' /\ NoteInv'
  <2>1. wpc[t] = "out"
    BY <1>2, Zenon DEF NoteWait, NoteInv, InWait
  <2>2. QED
    BY <1>2, <2>1, NoteLeaveHolds, NoteSleepHolds, Zenon DEF NoteWait
<1>3. ASSUME NEW t \in Threads, NoteRecheck(t) PROVE SlotIInv' /\ NoteInv'
  <2>1. noteIndex[t] \in NoteSlots /\ noteUser[t] \in {"wait", "wait_for"} /\ wpc[t] = "out"
    BY <1>3, Zenon DEF NoteRecheck, NoteInv
  <2>2. QED
    BY <1>3, <2>1, NoteLeaveHolds, NoteSleepHolds, Zenon DEF NoteRecheck
<1>4. ASSUME NEW t \in Threads, NoteWaitStep(t) PROVE SlotIInv' /\ NoteInv'
  <2>1. SlotIInv' /\ UNCHANGED <<pending, noteUser, noteIndex>>
    BY <1>4, SlotWaitStep, Zenon DEF NoteWaitStep, wsVars
  <2>2. /\ UNCHANGED <<my_slot, signalled>> /\ InWait(t)
        /\ \A u \in Threads \ {t} : wpc'[u] = wpc[u]
        /\ wpc'[t] \in {"unlock", "take"} => wpc[t] \in {"unlock", "take"}
    BY <1>4, WaitStepEffect, Zenon DEF NoteWaitStep
  <2>3. QED
    BY <2>1, <2>2, Zenon DEF NoteInv, InWait
<1>5. CASE Probe \/ ProbeClears \/ PassEnds \/ WsWait
  <2>1. UNCHANGED <<cvVars, noteUser, noteIndex>> /\ pending' \subseteq pending
    BY <1>5, Zenon DEF Probe, ProbeClears, PassEnds, WsWait
  <2>2. QED
    BY <1>1, <2>1, Zenon
<1>6. ASSUME NEW i, NEW e, remove(i) \/ add_entry(e) PROVE SlotIInv' /\ NoteInv'
  BY <1>1, <1>6, Zenon DEF remove, add_entry
<1>7. ASSUME NEW b, SetFlag(b) \/ ClearFlag(b) \/ NoteReset(b) PROVE SlotIInv' /\ NoteInv'
  BY <1>1, <1>7, Zenon DEF SetFlag, ClearFlag, NoteReset
<1>8. CASE UNCHANGED <<cvVars, wsVars>>
  BY <1>1, <1>8, Zenon DEF wsVars
<1>9. QED
  BY <1>2, <1>3, <1>4, <1>5, <1>6, <1>7, <1>8, NoteNotifyHolds, Zenon DEF WsNext, WatchStep

(* What the read of an entry can find.                                     *)
LEMMA MatchesFind ==
  ASSUME NoteInv, ScanTypes, NEW e \in Registrations \cup {NoEntry}, NEW hit \in Matches(e)
  PROVE  /\ hit \subseteq AllThings
         /\ e = NoEntry => hit = {}
         /\ e # NoEntry /\ hit # {} /\ e.kind = "notification" => hit = {Slot(e.arg)}
<1>1. CASE e = NoEntry
  <2>1. Matches(e) = {{}}
    BY <1>1, Zenon DEF Matches
  <2>2. QED
    BY <1>1, <2>1, Zenon
<1>2. CASE e # NoEntry
  <2>1. e.kind \in {"notification", "event_any", "event_all", "other"}
    BY <1>2, WaitSetAssumption, Zenon
  <2>2. CASE e.kind = "notification"
    <3>1. hit = {Slot(s) : s \in {e.arg} \cap pending}
      BY <1>2, <2>2, Zenon DEF Matches
    <3>2. pending \subseteq NoteSlots
      BY Zenon DEF NoteInv
    <3>3. QED
      BY <1>2, <3>1, <3>2, Zenon DEF AllThings
  <2>3. CASE e.kind = "event_any"
    <3>1. hit = {Bit(b) : b \in e.arg \cap flags}
      BY <1>2, <2>3, Zenon DEF Matches
    <3>2. QED
      BY <1>2, <2>3, <3>1, Zenon DEF ScanTypes, AllThings
  <2>4. CASE e.kind = "event_all"
    <3>1. hit = {} \/ (e.arg \subseteq flags /\ hit = {Bit(b) : b \in e.arg})
      BY <1>2, <2>4, Zenon DEF Matches
    <3>2. QED
      BY <1>2, <2>4, <3>1, Zenon DEF ScanTypes, AllThings
  <2>5. CASE e.kind = "other"
    BY <1>2, <2>5, Zenon DEF Matches, AllThings
  <2>6. QED
    BY <2>1, <2>2, <2>3, <2>4, <2>5, Zenon
<1>3. QED
  BY <1>1, <1>2, Zenon

(* Two sequences are equal when their elements are.                        *)
LEMMA SeqsEqual ==
  ASSUME NEW S, NEW f \in Seq(S), NEW g \in Seq(S), Len(f) = Len(g),
         \A i \in 1 .. Len(f) : f[i] = g[i]
  PROVE  f = g
  OBVIOUS

(* A sequence of one element becomes one of two.                           *)
LEMMA AppendToOne ==
  ASSUME NEW a, NEW b
  PROVE  Append(<<a>>, b) = <<a, b>>
<1>1. <<a>> \in Seq({a, b}) /\ <<a, b>> \in Seq({a, b}) /\ Len(<<a>>) = 1 /\ Len(<<a, b>>) = 2
  OBVIOUS
<1>2. /\ Append(<<a>>, b) \in Seq({a, b}) /\ Len(Append(<<a>>, b)) = 2
      /\ Append(<<a>>, b)[1] = a /\ Append(<<a>>, b)[2] = b
  BY <1>1
<1>3. \A i \in 1 .. 2 : Append(<<a>>, b)[i] = <<a, b>>[i]
  BY <1>2
<1>4. QED
  BY <1>1, <1>2, <1>3, SeqsEqual, Zenon

(* The read of an entry: what it finds it will report.                     *)
LEMMA ProbeHolds ==
  ASSUME WsInv, Probe
  PROVE  ScanTypes' /\ ScanInv' /\ NothingIsErasedUntold'
<1>1. PICK i \in 1 .. MaxEntries : scan = <<i>> /\ Len(found) <= i - 1
  BY WaitSetAssumption DEF WsInv, ScanInv, Probing, Clearing, Probe
<1>2. MaxEntries \in Nat /\ found \in Seq(Finds) /\ Len(found) \in Nat
  BY WaitSetAssumption DEF WsInv, ScanTypes
<1>3. entries[i] \in Registrations \cup {NoEntry}
  BY Zenon DEF WsInv, ScanTypes
<1>4. PICK hit \in Matches(entries[i]) :
        IF hit = {}
          THEN scan' = <<i + 1>> /\ found' = found
          ELSE /\ found' = Append(found, [entry |-> i, things |-> hit])
               /\ scan' = IF entries[i].clear THEN Append(scan, "clear") ELSE <<i + 1>>
  <2>1. scan[1] = i
    BY <1>1, Zenon
  <2>2. QED
    BY <2>1, Zenon DEF Probe
<1>5. /\ hit \subseteq AllThings
      /\ entries[i] = NoEntry => hit = {}
      /\ entries[i] # NoEntry /\ hit # {} /\ entries[i].kind = "notification"
           => hit = {Slot(entries[i].arg)}
  BY <1>3, MatchesFind, Zenon DEF WsInv
<1>6. UNCHANGED <<pending, flags, entries, owed>>
  BY Zenon DEF Probe
<1>7. CASE hit = {}
  <2>1. scan' = <<i + 1>> /\ found' = found
    BY <1>4, <1>7, Zenon
  <2>2. Probing(i + 1)' /\ i + 1 \in 1 .. MaxEntries + 1
    BY <1>1, <1>2, <2>1 DEF Probing
  <2>3. ScanInv'
    BY <2>2, Zenon DEF ScanInv
  <2>4. QED
    BY <1>6, <2>1, <2>3, Zenon DEF WsInv, ScanTypes, NothingIsErasedUntold, Things
<1>8. CASE hit # {}
  <2> DEFINE find == [entry |-> i, things |-> hit]
  <2>1. find \in Finds
    BY <1>5, Zenon DEF Finds
  <2>2. found' = Append(found, find) /\ (scan' = Append(scan, "clear") \/ scan' = <<i + 1>>)
    BY <1>4, <1>8, Zenon
  <2>3. /\ found' \in Seq(Finds) /\ Len(found') = Len(found) + 1
        /\ found'[Len(found) + 1] = find /\ Things(found) \subseteq Things(found')
    BY <1>2, <2>1, <2>2, ThingsAppend, Zenon
  <2>4. ASSUME scan' = <<i + 1>> PROVE ScanInv'
    <3>1. Probing(i + 1)' /\ i + 1 \in 1 .. MaxEntries + 1
      BY <1>1, <1>2, <2>3, <2>4 DEF Probing
    <3>2. QED
      BY <3>1, Zenon DEF ScanInv
  <2>5. ASSUME scan' = Append(scan, "clear") PROVE ScanInv'
    <3>1. scan' = <<i, "clear">>
      BY <1>1, <2>5, AppendToOne, Zenon
    <3>2. Len(found') \in 1 .. i /\ found'[Len(found')].things = hit
      BY <1>1, <1>2, <2>3
    <3>3. Clearing(i)'
      BY <1>5, <1>6, <1>8, <3>1, <3>2, Zenon DEF Clearing
    <3>4. QED
      BY <3>3, Zenon DEF ScanInv
  <2>6. ScanInv'
    BY <2>2, <2>4, <2>5, Zenon
  <2>7. NothingIsErasedUntold'
    BY <1>6, <2>3, Zenon DEF WsInv, NothingIsErasedUntold
  <2>8. QED
    BY <1>6, <2>3, <2>6, <2>7, Zenon DEF WsInv, ScanTypes
<1>9. QED
  BY <1>7, <1>8, Zenon

(* The clear of an entry erases only what its read has found.              *)
LEMMA ProbeClearsHolds ==
  ASSUME WsInv, ProbeClears
  PROVE  ScanTypes' /\ ScanInv' /\ NothingIsErasedUntold'
<1>1. PICK i \in 1 .. MaxEntries : Clearing(i)
  <2>1. Len(scan) = 2
    BY Zenon DEF ProbeClears
  <2>2. scan # <<>> /\ \A i : scan # <<i>>
    BY <2>1
  <2>3. QED
    BY <2>2, Zenon DEF WsInv, ScanInv, Probing
<1>2. scan[1] = i /\ Len(found) \in 1 .. i
  BY <1>1, Zenon DEF Clearing
<1>3. MaxEntries \in Nat /\ found \in Seq(Finds)
  BY WaitSetAssumption, Zenon DEF WsInv, ScanTypes
<1>4. \A x \in found[Len(found)].things : x \in Things(found)
  BY <1>2, <1>3, ThingsFound
<1>5. scan' = <<i + 1>> /\ UNCHANGED <<entries, found, owed>>
  BY <1>2, Zenon DEF ProbeClears
<1>6. ScanInv'
  <2>1. Probing(i + 1)' /\ i + 1 \in 1 .. MaxEntries + 1
    BY <1>2, <1>3, <1>5 DEF Probing
  <2>2. QED
    BY <2>1, Zenon DEF ScanInv
<1>7. flags' \subseteq flags
  BY Zenon DEF ProbeClears
<1>8. \A s \in pending \ pending' : Slot(s) \in Things(found)
  <2>1. CASE entries[i].kind = "notification"
    BY <1>1, <1>2, <1>4, <2>1, Zenon DEF ProbeClears, Clearing
  <2>2. CASE entries[i].kind # "notification"
    BY <1>2, <2>2, Zenon DEF ProbeClears
  <2>3. QED
    BY <2>1, <2>2, Zenon
<1>9. \A b \in flags \ flags' : Bit(b) \in Things(found)
  BY <1>2, <1>4, Zenon DEF ProbeClears
<1>10. NothingIsErasedUntold'
  BY <1>5, <1>8, <1>9, Zenon DEF WsInv, NothingIsErasedUntold
<1>11. QED
  BY <1>5, <1>6, <1>7, <1>10, Zenon DEF WsInv, ScanTypes

(* The end of a pass: with room for all entries all finds are reported.    *)
LEMMA PassEndsHolds ==
  ASSUME WsInv, PassEnds
  PROVE  ScanTypes' /\ ScanInv' /\ NothingIsErasedUntold'
<1>1. MaxEntries \in Nat \ {0} /\ found \in Seq(Finds) /\ UNCHANGED <<pending, flags, entries>>
  BY WaitSetAssumption, Zenon DEF WsInv, ScanTypes, PassEnds
<1>2. Len(found) <= MaxEntries
  BY <1>1 DEF WsInv, ScanInv, Probing, Clearing, PassEnds
<1>3. CASE found # <<>>
  <2>1. scan' = <<>> /\ found' = <<>> /\ owed' = owed \ Things(Reported)
    BY <1>3, Zenon DEF PassEnds
  <2>2. NothingIsErasedUntold'
    BY <1>1, <1>2, <2>1, AllReported, Zenon DEF WsInv, NothingIsErasedUntold
  <2>3. found' \in Seq(Finds)
    BY <2>1
  <2>4. QED
    BY <1>1, <2>1, <2>2, <2>3, Zenon DEF WsInv, ScanTypes, ScanInv
<1>4. CASE found = <<>>
  <2>1. scan' \in {<<>>, <<1>>} /\ UNCHANGED <<found, owed>>
    BY <1>4, Zenon DEF PassEnds
  <2>2. ScanInv'
    <3>1. CASE scan' = <<>>
      BY <1>4, <2>1, <3>1, Zenon DEF ScanInv
    <3>2. CASE scan' = <<1>>
      <4>1. Probing(1)' /\ 1 \in 1 .. MaxEntries + 1
        BY <1>1, <1>4, <2>1, <3>2 DEF Probing
      <4>2. QED
        BY <4>1, Zenon DEF ScanInv
    <3>3. QED
      BY <2>1, <3>1, <3>2, Zenon
  <2>3. QED
    BY <1>1, <2>1, <2>2 DEF WsInv, ScanTypes, NothingIsErasedUntold, Things
<1>5. QED
  BY <1>3, <1>4, Zenon

(* notify, reset and the flags change what is owed with what is there.     *)
LEMMA NothingErasedOutside ==
  ASSUME WsInv, UNCHANGED found,
         \A x \in owed' : x \in owed \/ x \in {Slot(s) : s \in pending'} \cup {Bit(b) : b \in flags'},
         \A s \in pending \ pending' : Slot(s) \notin owed',
         \A b \in flags \ flags' : Bit(b) \notin owed'
  PROVE  NothingIsErasedUntold'
<1> SUFFICES ASSUME MaxReady >= MaxEntries, NEW x \in owed'
             PROVE  \/ x \in {Slot(s) : s \in pending'}
                    \/ x \in {Bit(b) : b \in flags'}
                    \/ x \in Things(found)
  BY Zenon DEF NothingIsErasedUntold, Things
<1>1. CASE x \in owed
  <2>1. x \in {Slot(s) : s \in pending} \cup {Bit(b) : b \in flags} \cup Things(found)
    BY <1>1, Zenon DEF WsInv, NothingIsErasedUntold
  <2>2. QED
    BY <2>1, Zenon
<1>2. QED
  BY <1>1, Zenon

(* Every step of the notification, the flags and the wait set.             *)
LEMMA WsStepHolds ==
  SlotIInv /\ WsInv /\ [WsNext]_<<cvVars, wsVars>> => SlotIInv' /\ WsInv'
<1> SUFFICES ASSUME SlotIInv, WsInv, [WsNext]_<<cvVars, wsVars>> PROVE SlotIInv' /\ WsInv'
  BY Zenon
<1> DEFINE Goal == ScanTypes' /\ ScanInv' /\ NothingIsErasedUntold'
<1>1. SlotIInv' /\ NoteInv'
  BY NoteStepHolds, Zenon DEF WsInv
<1>2. UNCHANGED scanVars => ScanInv'
  BY Zenon DEF scanVars, WsInv, ScanInv, Probing, Clearing
<1>3. ASSUME UNCHANGED <<scanVars, pending, flags, owed>> PROVE Goal
  BY <1>2, <1>3 DEF scanVars, WsInv, ScanTypes, NothingIsErasedUntold, Things
<1>4. ASSUME NEW s \in NoteSlots, NEW action, NoteNotify(s, action) PROVE Goal
  <2>1. UNCHANGED <<scanVars, flags>>
    BY <1>4, Zenon DEF NoteNotify
  <2>2. CASE UNCHANGED <<pending, owed>>
    BY <1>3, <2>1, <2>2, Zenon
  <2>3. CASE pending' = pending \cup {s} /\ owed' = owed \cup {Slot(s)}
    <3>1. NothingIsErasedUntold'
      BY <2>1, <2>3, NothingErasedOutside, Zenon DEF scanVars
    <3>2. QED
      BY <1>2, <2>1, <2>3, <3>1, Zenon DEF scanVars, WsInv, ScanTypes
  <2>4. QED
    BY <1>4, <2>2, <2>3, Zenon DEF NoteNotify
<1>5. ASSUME NEW took, pending' = pending \ took, owed' = owed \ {Slot(u) : u \in took},
             UNCHANGED <<scanVars, flags>>
      PROVE  Goal
  <2>1. NothingIsErasedUntold'
    BY <1>5, NothingErasedOutside, Zenon DEF scanVars
  <2>2. QED
    BY <1>2, <1>5, <2>1, Zenon DEF scanVars, WsInv, ScanTypes
<1>6. ASSUME NEW s, NoteReset(s) PROVE Goal
  <2>1. owed' = owed \ {Slot(u) : u \in {s}}
    BY <1>6, Zenon DEF NoteReset
  <2>2. QED
    BY <1>5, <1>6, <2>1, Zenon DEF NoteReset
<1>7. ASSUME NEW t, NEW s, NEW kind, NoteWait(t, s, kind) PROVE Goal
  BY <1>3, <1>5, <1>7, Zenon DEF NoteWait, NoteLeave, NoteSleep
<1>8. ASSUME NEW t, NoteRecheck(t) PROVE Goal
  BY <1>3, <1>5, <1>8, Zenon DEF NoteRecheck, NoteLeave, NoteSleep
<1>9. ASSUME NEW t, NoteWaitStep(t) PROVE Goal
  BY <1>3, <1>9, Zenon DEF NoteWaitStep, wsVars
<1>10. ASSUME NEW b \in FlagBits, SetFlag(b) PROVE Goal
  <2>1. /\ flags' = flags \cup {b} /\ owed' = owed \cup {Bit(b)}
        /\ UNCHANGED <<pending, scanVars>>
    BY <1>10, Zenon DEF SetFlag
  <2>2. NothingIsErasedUntold'
    BY <2>1, NothingErasedOutside, Zenon DEF scanVars
  <2>3. QED
    BY <1>2, <2>1, <2>2, Zenon DEF scanVars, WsInv, ScanTypes
<1>11. ASSUME NEW b \in FlagBits, ClearFlag(b) PROVE Goal
  <2>1. /\ flags' = flags \ {b} /\ owed' = owed \ {Bit(b)}
        /\ UNCHANGED <<pending, scanVars>>
    BY <1>11, Zenon DEF ClearFlag
  <2>2. NothingIsErasedUntold'
    BY <2>1, NothingErasedOutside, Zenon DEF scanVars
  <2>3. QED
    BY <1>2, <2>1, <2>2, Zenon DEF scanVars, WsInv, ScanTypes
<1>12. ASSUME NEW i \in 1 .. MaxEntries, NEW e \in Registrations \cup {NoEntry},
              scan = <<>>, entries' = [entries EXCEPT ![i] = e],
              UNCHANGED <<pending, flags, scan, found, owed>>
       PROVE  Goal
  <2>1. found = <<>>
    BY <1>12, Zenon DEF WsInv, ScanInv, Probing, Clearing
  <2>2. ScanInv'
    BY <1>12, <2>1, Zenon DEF ScanInv
  <2>3. QED
    BY <1>12, <2>2 DEF WsInv, ScanTypes, NothingIsErasedUntold, Things
<1>13. ASSUME NEW e \in Registrations, add_entry(e) PROVE Goal
  <2>1. PICK i \in 1 .. MaxEntries : entries' = [entries EXCEPT ![i] = e]
    BY <1>13, Zenon DEF add_entry, Unused
  <2>2. QED
    BY <1>12, <1>13, <2>1, Zenon DEF add_entry
<1>14. ASSUME NEW i \in 1 .. MaxEntries, remove(i) PROVE Goal
  BY <1>12, <1>14, Zenon DEF remove
<1>15. ASSUME WsWait PROVE Goal
  <2>1. /\ scan = <<>> /\ scan' = <<1>> /\ found' = <<>>
        /\ UNCHANGED <<pending, flags, entries, owed>>
    BY <1>15, Zenon DEF WsWait
  <2>2. found = <<>>
    BY <2>1, Zenon DEF WsInv, ScanInv, Probing, Clearing
  <2>3. Probing(1)' /\ 1 \in 1 .. MaxEntries + 1
    BY <2>1, WaitSetAssumption DEF Probing
  <2>4. QED
    BY <2>1, <2>2, <2>3 DEF WsInv, ScanTypes, ScanInv, NothingIsErasedUntold, Things
<1>16. ASSUME UNCHANGED <<cvVars, wsVars>> PROVE Goal
  BY <1>3, <1>16, Zenon DEF wsVars
<1>17. Goal
  BY <1>4, <1>6, <1>7, <1>8, <1>9, <1>10, <1>11, <1>13, <1>14, <1>15, <1>16,
     ProbeHolds, ProbeClearsHolds, PassEndsHolds, Zenon DEF WsNext, WatchStep
<1>18. QED
  BY <1>1, <1>17, Zenon DEF WsInv

(* At first nothing is pending, no flag is set and no pass is under way.   *)
LEMMA WsInitHolds == WsInit => SlotIInv /\ WsInv
<1> SUFFICES ASSUME WsInit PROVE SlotIInv /\ WsInv
  BY Zenon
<1>1. SlotIInv
  BY SlotInit, Zenon DEF WsInit
<1>2. NoteInv
  <2>1. (CHOOSE s \in NoteSlots : TRUE) \in NoteSlots
    BY WaitSetAssumption, Zenon
  <2>2. QED
    BY <2>1, Zenon DEF WsInit, CvInit, NoteInv, InWait
<1>3. found \in Seq(Finds)
  BY DEF WsInit
<1>4. ScanTypes /\ ScanInv /\ NothingIsErasedUntold
  BY <1>3, Zenon DEF WsInit, ScanTypes, ScanInv, NothingIsErasedUntold
<1>5. QED
  BY <1>1, <1>2, <1>4, Zenon DEF WsInv

(* Whoever is at rest in a wait has no token, so was not signalled since   *)
(* it began to wait, so its slot is not pending.                           *)
LEMMA WsInvSuffices ==
  ASSUME SlotIInv, WsInv
  PROVE  WsTypeOK /\ NoWaitBesidePending /\ NothingIsErasedUntold
<1>1. WsTypeOK
  BY Zenon DEF WsInv, NoteInv, ScanTypes, WsTypeOK
<1>2. NoWaitBesidePending
  BY Zenon DEF WsInv, NoteInv, NoWaitBesidePending, SlotIInv, WakeupsAreExact, NoLostWakeup
<1>3. QED
  BY <1>1, <1>2, Zenon DEF WsInv

-----------------------------------------------------------------------------
(* What holds of the part that a behaviour is about.                       *)
EventInv ==
  /\ part = "predicate" => SlotIInv /\ PredInv
  /\ part \in {"notes", "flags"} => SlotIInv /\ WsInv

(* Nobody sleeps beside what it waits for, an item of the documented       *)
(* pattern or a notification, and the wait set erases nothing that it does *)
(* not report: for any number of threads, waiter slots, items, notification *)
(* slots, flags and entries, and whatever add() registers.                 *)
THEOREM NoEventIsLostHolds == MCSpec => []NoEventIsLost
<1>1. MCInit => EventInv
  BY PredInitHolds, WsInitHolds, Zenon DEF MCInit, EventInv
<1>2. EventInv /\ [MCNext]_mcVars => EventInv'
  <2> SUFFICES ASSUME EventInv, [MCNext]_mcVars PROVE EventInv'
    BY Zenon
  <2>1. part' = part
    BY Zenon DEF MCNext, mcVars
  <2>2. CASE part = "predicate"
    <3>1. [PredNext]_predicateVars
      BY <2>2, Zenon DEF MCNext, mcVars, predicateVars, allVars
    <3>2. QED
      BY <2>1, <2>2, <3>1, PredStepHolds, Zenon DEF EventInv
  <2>3. CASE part \in {"notes", "flags"}
    <3>1. [WsNext]_<<cvVars, wsVars>>
      BY <2>3, Zenon DEF MCNext, mcVars, allVars
    <3>2. QED
      BY <2>1, <2>3, <3>1, WsStepHolds, Zenon DEF EventInv
  <2>4. QED
    BY <2>1, <2>2, <2>3, Zenon DEF EventInv
<1>3. EventInv => NoEventIsLost
  BY PredInvSuffices, WsInvSuffices, Zenon DEF EventInv, NoEventIsLost
<1>4. QED
  BY <1>1, <1>2, <1>3, PTL DEF MCSpec
=============================================================================
