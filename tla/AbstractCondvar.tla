-------------------------- MODULE AbstractCondvar --------------------------
(***************************************************************************)
(* What a condition variable promises its callers: waiting releases the    *)
(* mutex and joins the waiters in ONE step, a notification moves waiters   *)
(* that are present at that moment, and nobody leaves the wait without     *)
(* holding the mutex.  A waiter whose timeout has expired stays a          *)
(* candidate for notify_one until its call has ended, which is later than  *)
(* the moment it has the mutex again: that is as much as the emulated      *)
(* condition variable promises.                                            *)
(***************************************************************************)
CONSTANTS Threads, NoThread

VARIABLES mutex,  \* its owner
          state   \* of each thread

vars == <<mutex, state>>

Candidates == {t \in Threads : state[t] \in {"waiting", "expired", "leaving"}}

Init == mutex = NoThread /\ state = [t \in Threads |-> "out"]

Lock(t) ==
  /\ state[t] = "out" /\ mutex = NoThread
  /\ mutex' = t /\ UNCHANGED state

Unlock(t) ==
  /\ state[t] = "out" /\ mutex = t
  /\ mutex' = NoThread /\ UNCHANGED state

Wait(t) ==
  /\ state[t] = "out" /\ mutex = t
  /\ mutex' = NoThread
  /\ state' = [state EXCEPT ![t] = "waiting"]

Expire(t) ==
  /\ state[t] = "waiting"
  /\ state' = [state EXCEPT ![t] = "expired"]
  /\ UNCHANGED mutex

Notify(S) ==
  /\ state' = [t \in Threads |->
                 CASE t \in S /\ state[t] = "leaving" -> "out"
                   [] t \in S /\ state[t] # "leaving" -> "notified"
                   [] t \notin S -> state[t]]
  /\ UNCHANGED mutex

NotifyOne == Candidates # {} /\ \E t \in Candidates : Notify({t})
NotifyAll == Notify(Candidates)

Return(t) ==
  /\ state[t] \in {"notified", "expired"} /\ mutex = NoThread
  /\ mutex' = t
  /\ state' = [state EXCEPT ![t] = IF @ = "notified" THEN "out" ELSE "leaving"]

Leave(t) ==
  /\ state[t] = "leaving"
  /\ state' = [state EXCEPT ![t] = "out"]
  /\ UNCHANGED mutex

Next ==
  \/ \E t \in Threads : Lock(t) \/ Unlock(t) \/ Wait(t) \/ Expire(t) \/ Return(t) \/ Leave(t)
  \/ NotifyOne
  \/ NotifyAll

Spec == Init /\ [][Next]_vars
=============================================================================
