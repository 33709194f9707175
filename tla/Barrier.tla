------------------------------ MODULE Barrier ------------------------------
(***************************************************************************)
(* The emulated barrier of emulated_barrier.inl over the emulated          *)
(* condition variable: `arrived` and `generation` behind the mutex         *)
(* `guard`.  generation is an unsigned integer that wraps; GenMod stands   *)
(* for its range.                                                          *)
(***************************************************************************)
EXTENDS Condvar

CONSTANTS Threshold,  \* threads per rendezvous
          GenMod,     \* number of values of `generation`
          MaxRounds   \* bound on the calls each thread makes

ASSUME BarrierAssumption ==
  /\ Threshold \in Nat \ {0}
  /\ GenMod \in Nat \ {0, 1}
  /\ MaxRounds \in Nat

VARIABLES arrived,
          generation,
          gen,      \* the local `generation` of each caller
          pc,       \* whether each thread is inside osal_barrier_wait
          calls,    \* calls each thread has started
          returned  \* the results each thread's calls have returned so far

barrierVars == <<arrived, generation, gen, pc, calls, returned>>
allVars == <<cvVars, barrierVars>>

Results == {"ok", "barrier_serial", "out_of_resources"}

TypeOK ==
  /\ CvTypeOK
  /\ arrived \in 0 .. Threshold - 1
  /\ generation \in 0 .. GenMod - 1
  /\ gen \in [Threads -> 0 .. GenMod - 1]
  /\ pc \in [Threads -> {"idle", "wait"}]
  /\ calls \in [Threads -> 0 .. MaxRounds]
  /\ returned \in [Threads -> [Results -> 0 .. MaxRounds]]

Init ==
  /\ CvInit
  /\ arrived = 0
  /\ generation = 0
  /\ gen = [t \in Threads |-> 0]
  /\ pc = [t \in Threads |-> "idle"]
  /\ calls = [t \in Threads |-> 0]
  /\ returned = [t \in Threads |-> [x \in Results |-> 0]]

Return(t, result) ==
  /\ mutex' = NoThread
  /\ pc' = [pc EXCEPT ![t] = "idle"]
  /\ returned' = [returned EXCEPT ![t][result] = @ + 1]

(* The loop waits on the condvar; an error from it ends the call, and the  *)
(* arrival stays counted.                                                  *)
WaitOnCv(t) ==
  /\ WaitCall(t, FALSE)
  /\ IF FreeSlots = {}
       THEN Return(t, "out_of_resources")
       ELSE /\ mutex' = t
            /\ pc' = [pc EXCEPT ![t] = "wait"]
            /\ UNCHANGED returned

Begins(t) ==
  /\ pc[t] = "idle"
  /\ calls[t] < MaxRounds
  /\ mutex = NoThread
  /\ calls' = [calls EXCEPT ![t] = @ + 1]
  /\ gen' = [gen EXCEPT ![t] = generation]

(* Variant: the next rendezvous starts without a new generation.           *)
LastArrives_SameGeneration(t) ==
  /\ Begins(t)
  /\ arrived + 1 = Threshold
  /\ arrived' = 0
  /\ osal_condvar_notify_all
  /\ Return(t, "barrier_serial")
  /\ UNCHANGED generation

(* Variant: one waiter is notified where all should be.                    *)
LastArrives_NotifyOne(t) ==
  /\ Begins(t)
  /\ arrived + 1 = Threshold
  /\ arrived' = 0
  /\ generation' = (generation + 1) % GenMod
  /\ osal_condvar_notify_one
  /\ Return(t, "barrier_serial")

(* Variant: the barrier opens one arrival early.                           *)
LastArrives_OffByOne(t) ==
  /\ Begins(t)
  /\ arrived + 2 = Threshold
  /\ arrived' = 0
  /\ generation' = (generation + 1) % GenMod
  /\ osal_condvar_notify_all
  /\ Return(t, "barrier_serial")

(* Variant: the releasing thread returns ok like the others.               *)
LastArrives_NoSerial(t) ==
  /\ Begins(t)
  /\ arrived + 1 = Threshold
  /\ arrived' = 0
  /\ generation' = (generation + 1) % GenMod
  /\ osal_condvar_notify_all
  /\ Return(t, "ok")

(* osal_barrier_wait by the thread that completes the rendezvous ...       *)
LastArrives(t) ==
  /\ Begins(t)
  /\ arrived + 1 = Threshold
  /\ arrived' = 0
  /\ generation' = (generation + 1) % GenMod
  /\ osal_condvar_notify_all
  /\ Return(t, "barrier_serial")

(* ... and by the others.                                                  *)
Arrives(t) ==
  /\ Begins(t)
  /\ arrived + 1 # Threshold
  /\ arrived' = arrived + 1
  /\ WaitOnCv(t)
  /\ UNCHANGED generation

(* osal_condvar_wait has returned and the loop compares the generations.   *)
Recheck(t) ==
  /\ pc[t] = "wait" /\ wpc[t] = "out"
  /\ mutex = t
  /\ IF gen[t] = generation
       THEN WaitOnCv(t)
       ELSE Return(t, "ok") /\ UNCHANGED cvRest
  /\ UNCHANGED <<arrived, generation, gen, calls>>

InWaitStep(t) == WaitStep(t) /\ UNCHANGED barrierVars

Next == \E t \in Threads :
  LastArrives(t) \/ Arrives(t) \/ Recheck(t) \/ InWaitStep(t)

Spec == Init /\ [][Next]_allVars

(* A thread inside a call runs on when it is not blocked.                  *)
FairSpec == Spec /\ \A t \in Threads : WF_allVars(Recheck(t) \/ InWaitStep(t))

-----------------------------------------------------------------------------
Passed(t) == returned[t]["ok"] + returned[t]["barrier_serial"]

(* The returns of one result, of whichever thread.                         *)
Total(x) == {c \in Threads \X (1 .. MaxRounds) : c[2] <= returned[c[1]][x]}

Waiting == {t \in Threads : pc[t] = "wait" /\ gen[t] = generation}

(* The arrivals the code has counted are the threads now blocked at the    *)
(* barrier: nobody of an earlier rendezvous is counted into this one, and  *)
(* nobody who has left is.                                                 *)
ArrivedAreWaiting == arrived = Cardinality(Waiting)

(* A thread that waits for the current rendezvous and was notified would   *)
(* go back to sleep; one that waits and whose rendezvous is over has been  *)
(* notified.                                                               *)
OverMeansNotified ==
  \A t \in Threads :
    wpc[t] \in {"unlock", "take"} /\ gen[t] # generation => my_slot[t] \in signalled

(* With as many threads as the threshold, nobody passes the barrier again  *)
(* before everybody has reached it: a thread that passed k times has seen  *)
(* every other one start its k-th call.  One bit of generation is enough.  *)
Rendezvous == \A t, u \in Threads : Passed(t) <= calls[u]

(* Each rendezvous has one serial thread: the returns of ok do not exceed  *)
(* Threshold - 1 for each return of barrier_serial.                        *)
OneSerialPerRound ==
  Cardinality(Total("ok")) <= (Threshold - 1) * Cardinality(Total("barrier_serial"))

(* No thread passes the barrier before all have reached it, each           *)
(* rendezvous has one serial thread, the arrivals counted are the threads  *)
(* waiting, and whoever waits for a past rendezvous has been notified.     *)
RendezvousIsExact ==
  TypeOK /\ ArrivedAreWaiting /\ OverMeansNotified /\ Rendezvous /\ OneSerialPerRound

(* Once the last thread has arrived, every waiter of that rendezvous       *)
(* returns.                                                                *)
ReleasedReturn ==
  \A t \in Threads : (pc[t] = "wait" /\ gen[t] # generation) ~> pc[t] = "idle"
=============================================================================
