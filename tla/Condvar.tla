------------------------------ MODULE Condvar ------------------------------
(***************************************************************************)
(* The emulated condition variable of emulated_condvar.inl: a bounded      *)
(* array of waiter slots, each with a binary semaphore, behind the mutex   *)
(* `guard`.  This module has the state and the steps of the operations;    *)
(* the modules that use a condition variable extend it: CondvarClient      *)
(* (arbitrary callers), CondvarPredicate, RwLock, Barrier and WorkQueue.   *)
(*                                                                         *)
(* A section under the condvar's guard is one step.  osal_condvar_wait is  *)
(* five steps: claim a slot, unlock the caller's mutex, take the slot's    *)
(* semaphore, lock the caller's mutex again, release the slot.             *)
(***************************************************************************)
EXTENDS Integers, FiniteSets

CONSTANTS Threads,     \* threads that use the condition variable
          MaxWaiters,  \* OSAL_CONDVAR_MAX_WAITERS
          NoThread     \* the owner of a free mutex

ASSUME CondvarAssumption ==
  /\ IsFiniteSet(Threads)
  /\ MaxWaiters \in Nat \ {0}
  /\ NoThread \notin Threads

VARIABLES mutex,      \* owner of the mutex the callers pass to wait
          in_use,     \* waiters[s].in_use, as the set of such slots
          signalled,  \* waiters[s].signalled, as the set of such slots
          sem,        \* the slots whose binary semaphore has its token
          n_waiters,
          wpc,        \* where each thread is in osal_condvar_wait
          my_slot,    \* its local my_slot
          timed,      \* whether it passed a finite timeout
          r           \* what its last wait returned

cvRest == <<in_use, signalled, sem, n_waiters, wpc, my_slot, timed, r>>
cvVars == <<mutex, in_use, signalled, sem, n_waiters, wpc, my_slot, timed, r>>

Slots == 0 .. MaxWaiters - 1

WaitPcs == {"out", "unlock", "take", "relock", "release"}
WaitResults == {"ok", "timeout", "out_of_resources"}

CvTypeOK ==
  /\ mutex \in Threads \cup {NoThread}
  /\ in_use \in SUBSET Slots
  /\ signalled \in SUBSET Slots
  /\ sem \in SUBSET Slots
  /\ n_waiters \in 0 .. MaxWaiters
  /\ wpc \in [Threads -> WaitPcs]
  /\ my_slot \in [Threads -> Slots]
  /\ timed \in [Threads -> BOOLEAN]
  /\ r \in [Threads -> WaitResults]

(* osal_condvar_create: all slots free, all semaphores empty.              *)
CvInit ==
  /\ mutex = NoThread
  /\ in_use = {}
  /\ signalled = {}
  /\ sem = {}
  /\ n_waiters = 0
  /\ wpc = [t \in Threads |-> "out"]
  /\ my_slot = [t \in Threads |-> 0]
  /\ timed = [t \in Threads |-> FALSE]
  /\ r = [t \in Threads |-> "ok"]

WaitGoto(t, label) == wpc' = [wpc EXCEPT ![t] = label]
WaitReturns(t, result) == r' = [r EXCEPT ![t] = result]

FreeSlots == Slots \ in_use
Pending == in_use \ signalled

IsLowest(s, S) == s \in S /\ \A u \in S : s <= u

-----------------------------------------------------------------------------
(* Variant: a slot is claimed without draining its semaphore.              *)
Claim_NoDrain(t, withTimeout) ==
  \E s \in Slots :
    /\ IsLowest(s, FreeSlots)
    /\ in_use' = in_use \cup {s}
    /\ signalled' = signalled \ {s}
    /\ n_waiters' = n_waiters + 1
    /\ my_slot' = [my_slot EXCEPT ![t] = s]
    /\ timed' = [timed EXCEPT ![t] = withTimeout]
    /\ WaitGoto(t, "unlock")
    /\ UNCHANGED sem

(* Variant: the slot keeps the signalled flag of its previous waiter.      *)
Claim_KeepsSignalled(t, withTimeout) ==
  \E s \in Slots :
    /\ IsLowest(s, FreeSlots)
    /\ in_use' = in_use \cup {s}
    /\ sem' = sem \ {s}
    /\ n_waiters' = n_waiters + 1
    /\ my_slot' = [my_slot EXCEPT ![t] = s]
    /\ timed' = [timed EXCEPT ![t] = withTimeout]
    /\ WaitGoto(t, "unlock")
    /\ UNCHANGED signalled

(* The first free slot is drained and marked in use, under the guard.      *)
Claim(t, withTimeout) ==
  \E s \in Slots :
    /\ IsLowest(s, FreeSlots)
    /\ in_use' = in_use \cup {s}
    /\ signalled' = signalled \ {s}
    /\ sem' = sem \ {s}
    /\ n_waiters' = n_waiters + 1
    /\ my_slot' = [my_slot EXCEPT ![t] = s]
    /\ timed' = [timed EXCEPT ![t] = withTimeout]
    /\ WaitGoto(t, "unlock")

(* A thread that holds the mutex calls osal_condvar_wait.  With no free    *)
(* slot the call returns at once and the mutex stays with the caller.  The *)
(* action leaves `mutex` to its user, which may be locking it in the same  *)
(* section.                                                                *)
WaitCall(t, withTimeout) ==
  /\ wpc[t] = "out"
  /\ IF FreeSlots = {}
       THEN /\ WaitReturns(t, "out_of_resources")
            /\ UNCHANGED <<in_use, signalled, sem, n_waiters, wpc, my_slot, timed>>
       ELSE /\ Claim(t, withTimeout)
            /\ UNCHANGED r

(* Variant: the mutex is kept until the semaphore has been taken.          *)
WaitUnlock_Keeps(t) ==
  /\ wpc[t] = "unlock"
  /\ WaitGoto(t, "take")
  /\ UNCHANGED <<mutex, in_use, signalled, sem, n_waiters, my_slot, timed, r>>

WaitUnlock(t) ==
  /\ wpc[t] = "unlock"
  /\ mutex' = NoThread
  /\ WaitGoto(t, "take")
  /\ UNCHANGED <<in_use, signalled, sem, n_waiters, my_slot, timed, r>>

(* osal_semaphore_take on the slot's semaphore succeeds ...                *)
WaitTake(t) ==
  /\ wpc[t] = "take"
  /\ my_slot[t] \in sem
  /\ sem' = sem \ {my_slot[t]}
  /\ WaitReturns(t, "ok")
  /\ WaitGoto(t, "relock")
  /\ UNCHANGED <<mutex, in_use, signalled, n_waiters, my_slot, timed>>

(* ... or its timeout expires.                                             *)
WaitTimeout(t) ==
  /\ wpc[t] = "take"
  /\ timed[t]
  /\ my_slot[t] \notin sem
  /\ WaitReturns(t, "timeout")
  /\ WaitGoto(t, "relock")
  /\ UNCHANGED <<mutex, in_use, signalled, sem, n_waiters, my_slot, timed>>

WaitRelock(t) ==
  /\ wpc[t] = "relock"
  /\ mutex = NoThread
  /\ mutex' = t
  /\ WaitGoto(t, "release")
  /\ UNCHANGED <<in_use, signalled, sem, n_waiters, my_slot, timed, r>>

(* Variant: the slot is released without counting the waiter out.          *)
WaitRelease_NoCount(t) ==
  /\ wpc[t] = "release"
  /\ in_use' = in_use \ {my_slot[t]}
  /\ WaitGoto(t, "out")
  /\ UNCHANGED <<mutex, signalled, sem, n_waiters, my_slot, timed, r>>

WaitRelease(t) ==
  /\ wpc[t] = "release"
  /\ in_use' = in_use \ {my_slot[t]}
  /\ n_waiters' = n_waiters - 1
  /\ WaitGoto(t, "out")
  /\ UNCHANGED <<mutex, signalled, sem, my_slot, timed, r>>

WaitStep(t) ==
  \/ WaitUnlock(t)
  \/ WaitTake(t)
  \/ WaitTimeout(t)
  \/ WaitRelock(t)
  \/ WaitRelease(t)

-----------------------------------------------------------------------------
(* Slots marked signalled and given their token, under the guard.          *)
Signal(S) ==
  /\ signalled' = signalled \cup S
  /\ sem' = sem \cup S
  /\ UNCHANGED <<in_use, n_waiters, wpc, my_slot, timed, r>>

(* Variant: notify_one wakes whoever has a slot, signalled before or not.  *)
osal_condvar_notify_one_AnySlot ==
  IF n_waiters = 0 \/ in_use = {}
    THEN Signal({})
    ELSE \E s \in Slots : IsLowest(s, in_use) /\ Signal({s})

(* The first slot that is in use and not signalled yet.                    *)
osal_condvar_notify_one ==
  IF n_waiters = 0 \/ Pending = {}
    THEN Signal({})
    ELSE \E s \in Slots : IsLowest(s, Pending) /\ Signal({s})

osal_condvar_notify_all == Signal(IF n_waiters = 0 THEN {} ELSE Pending)

-----------------------------------------------------------------------------
InWait(t) == wpc[t] # "out"

(* Every slot in use has exactly one thread inside osal_condvar_wait, and  *)
(* n_waiters, which notify consults first, counts them.                    *)
SlotsMatchWaiters ==
  /\ in_use = {my_slot[t] : t \in {u \in Threads : InWait(u)}}
  /\ \A t, u \in Threads : InWait(t) /\ InWait(u) /\ t # u => my_slot[t] # my_slot[u]
  /\ n_waiters = Cardinality(in_use)

(* Nobody is woken by a token meant for an earlier user of the slot: a     *)
(* slot in use holds its token only if it was signalled since it was       *)
(* claimed, and a wait that returns ok was signalled.                      *)
NoStaleWakeup ==
  /\ in_use \cap sem \subseteq signalled
  /\ \A t \in Threads :
       wpc[t] \in {"relock", "release"} /\ r[t] = "ok" => my_slot[t] \in signalled

(* A waiter that was notified between claiming its slot and blocking, or   *)
(* while it blocks, finds its token: no notification is lost in the gap    *)
(* between the unlock of the caller's mutex and the take.                  *)
NoLostWakeup ==
  \A t \in Threads :
    wpc[t] \in {"unlock", "take"} /\ my_slot[t] \in signalled => my_slot[t] \in sem

(* Until its take a waiter has a token exactly when it was notified since  *)
(* it claimed its slot: no wakeup is stale and none is lost.               *)
WakeupsAreExact == NoStaleWakeup /\ NoLostWakeup

(* Whoever waits, a notification is neither lost nor received by a later   *)
(* user of its slot, and every slot in use has one waiter, which n_waiters *)
(* counts.                                                                 *)
SlotsAndWakeupsAreExact == CvTypeOK /\ SlotsMatchWaiters /\ WakeupsAreExact
=============================================================================
