----------------------------- MODULE WaitSignal -----------------------------
(***************************************************************************)
(* wait_signal and wait_until_ready (include/osal/wait_signal.hpp) with    *)
(* the stop token whose callback notifies the signal: a generation and a   *)
(* binary semaphore.  Every atomic access and semaphore call is a step.    *)
(* The predicate is a flag that producers set before they notify.          *)
(***************************************************************************)
EXTENDS StopToken

CONSTANTS Waiters,     \* the owners that register through wait_until_ready
          Producers,
          GenMod      \* generation_ wraps: 2^32 in the code

ASSUME WsgAssumption == GenMod \in Nat \ {0} /\ Waiters \subseteq Owners

VARIABLES wsgGen,      \* generation_
          wsgSem,      \* permits of the semaphore, 0 or 1
          wsgWaiting,  \* waiting_
          wsgReady,    \* what the predicate reads
          wsgPc,       \* producer -> "idle", "notify", "give"
          wsgSeen      \* waiter -> observed

wsgVars == <<wsgGen, wsgSem, wsgWaiting, wsgReady, wsgPc, wsgSeen, stpVars>>
signal == <<wsgGen, wsgSem, wsgWaiting, wsgReady, wsgPc, wsgSeen>>

WsgInit ==
  /\ StpInit
  /\ wsgGen = 0 /\ wsgSem = 0 /\ wsgWaiting = FALSE /\ wsgReady = FALSE
  /\ wsgPc = [p \in Producers |-> "idle"]
  /\ wsgSeen = [o \in Waiters |-> 0]
-----------------------------------------------------------------------------
(* notify_impl: the generation first, then the semaphore, where overflow   *)
(* is fine.                                                                *)
NotifyCount ==
  wsgGen' = (wsgGen + 1) % GenMod /\ UNCHANGED <<wsgSem, wsgWaiting, wsgReady, wsgSeen>>

NotifyGive_Lost ==
  UNCHANGED <<wsgGen, wsgSem, wsgWaiting, wsgReady, wsgSeen>>
NotifyGive ==
  wsgSem' = 1 /\ UNCHANGED <<wsgGen, wsgWaiting, wsgReady, wsgSeen>>

Produce(p) ==
  /\ wsgPc[p] = "idle" /\ ~wsgReady
  /\ wsgReady' = TRUE
  /\ wsgPc' = [wsgPc EXCEPT ![p] = "notify"]
  /\ UNCHANGED <<wsgGen, wsgSem, wsgWaiting, wsgSeen, stpVars>>

ProducerNotifies(p) ==
  /\ \/ wsgPc[p] = "notify" /\ NotifyCount /\ wsgPc' = [wsgPc EXCEPT ![p] = "give"]
     \/ wsgPc[p] = "give" /\ NotifyGive /\ wsgPc' = [wsgPc EXCEPT ![p] = "idle"]
  /\ UNCHANGED stpVars

(* The stop callback of wait_until_ready, run by request_stop and by the   *)
(* constructor.                                                            *)
RequesterNotifies(r) ==
  /\ stpAt[r] \in Waiters
  /\ \/ /\ StpAt(r, "call") /\ NotifyCount
        /\ StpGoto(r, "give")
        /\ UNCHANGED <<stpStopped, stpList, stpExecuting, stpAt, stpRuns>>
     \/ StpAt(r, "give") /\ NotifyGive /\ Called(r)
  /\ UNCHANGED wsgPc

OwnerNotifies(o) ==
  /\ \/ /\ StpAt(o, "inline") /\ NotifyCount
        /\ StpGoto(o, "inline_give")
        /\ UNCHANGED <<stpStopped, stpList, stpExecuting, stpAt, stpRuns>>
     \/ StpAt(o, "inline_give") /\ NotifyGive /\ Ran(o, "registered")
  /\ UNCHANGED wsgPc
-----------------------------------------------------------------------------
(* wait_until_ready: one consumer at a time (begin_wait), register, loop.  *)
wait_until_ready(o) ==
  /\ StpAt(o, "idle") /\ ~wsgWaiting
  /\ wsgWaiting' = TRUE
  /\ StpGoto(o, "register")
  /\ UNCHANGED <<wsgGen, wsgSem, wsgReady, wsgPc, wsgSeen,
                 stpStopped, stpList, stpExecuting, stpAt, stpRuns>>

RegisterStop(o) == StpAt(o, "register") /\ Construct(o, "registered", "end_wait") /\ UNCHANGED signal

WaitGoto(o, there) ==
  /\ StpGoto(o, there)
  /\ UNCHANGED <<stpStopped, stpList, stpExecuting, stpAt, stpRuns>>

Observe(o) ==
  /\ StpAt(o, "registered")
  /\ wsgSeen' = [wsgSeen EXCEPT ![o] = wsgGen]
  /\ WaitGoto(o, "check_stop")
  /\ UNCHANGED <<wsgGen, wsgSem, wsgWaiting, wsgReady, wsgPc>>

CheckStop(o) ==
  /\ StpAt(o, "check_stop")
  /\ WaitGoto(o, IF stpStopped THEN "close" ELSE "check_ready")
  /\ UNCHANGED signal

(* ready(): the caller then consumes what it was waiting for.              *)
CheckReady(o) ==
  /\ StpAt(o, "check_ready")
  /\ WaitGoto(o, IF wsgReady THEN "close" ELSE "compare")
  /\ wsgReady' = FALSE
  /\ UNCHANGED <<wsgGen, wsgSem, wsgWaiting, wsgPc, wsgSeen>>

(* wait_for_change.  From here on observed is dead, and reset.             *)
Compare(o) ==
  /\ StpAt(o, "compare")
  /\ WaitGoto(o, IF wsgGen # wsgSeen[o] THEN "registered" ELSE "take")
  /\ wsgSeen' = [wsgSeen EXCEPT ![o] = 0]
  /\ UNCHANGED <<wsgGen, wsgSem, wsgWaiting, wsgReady, wsgPc>>

TakePermit(o) ==
  /\ StpAt(o, "take") /\ wsgSem = 1
  /\ wsgSem' = 0
  /\ WaitGoto(o, "registered")
  /\ UNCHANGED <<wsgGen, wsgWaiting, wsgReady, wsgPc, wsgSeen>>

(* The deadline, before the wait or in it.                                 *)
WaitExpires(o) ==
  /\ stpPc[o] \in {"compare", "take"}
  /\ WaitGoto(o, "close")
  /\ wsgSeen' = [wsgSeen EXCEPT ![o] = 0]
  /\ UNCHANGED <<wsgGen, wsgSem, wsgWaiting, wsgReady, wsgPc>>

CloseStop(o) ==
  /\ \/ stpPc[o] \in {"close", "unclosed"} /\ close(o, "end_wait")
     \/ CloseDone(o, "end_wait")
  /\ UNCHANGED signal

CloseGivesUp(o) == CloseTimesOut(o) /\ UNCHANGED signal

end_wait(o) ==
  /\ StpAt(o, "end_wait")
  /\ wsgWaiting' = FALSE
  /\ wsgSeen' = [wsgSeen EXCEPT ![o] = 0]
  /\ WaitGoto(o, "idle")
  /\ UNCHANGED <<wsgGen, wsgSem, wsgReady, wsgPc>>
-----------------------------------------------------------------------------
WaitStep(o) ==
  \/ RegisterStop(o) \/ OwnerNotifies(o) \/ Observe(o) \/ CheckStop(o) \/ CheckReady(o)
  \/ Compare(o) \/ TakePermit(o) \/ CloseStop(o) \/ end_wait(o)
RequestStep(r) ==
  \/ RequesterNotifies(r)
  \/ stpAt[r] \notin Waiters /\ PlainBody(r) /\ UNCHANGED signal
  \/ Relock(r) /\ UNCHANGED signal

WsgNext ==
  \/ \E o \in Owners \ Waiters : Plain(o) /\ UNCHANGED signal
  \/ \E o \in Waiters : wait_until_ready(o) \/ WaitStep(o) \/ WaitExpires(o) \/ CloseGivesUp(o)
  \/ \E r \in Requesters : (request_stop(r) /\ UNCHANGED signal) \/ RequestStep(r)
  \/ \E p \in Producers : Produce(p) \/ ProducerNotifies(p)

(* A task inside a call gets to run.                                       *)
WsgFairness ==
  /\ \A o \in Waiters : WF_wsgVars(WaitStep(o))
  /\ \A r \in Requesters : WF_wsgVars(RequestStep(r))
  /\ \A p \in Producers : WF_wsgVars(ProducerNotifies(p))

WsgSpec == WsgInit /\ [][WsgNext]_wsgVars /\ WsgFairness

(* A wait, up to where it begins to unregister its callback; it has to end *)
(* when stop is requested and when what it waits for is there.             *)
Waiting(o) == stpPc[o] \in {"registered", "check_stop", "check_ready", "compare", "take"}
WaitOver(o) == stpPc[o] \in {"close", "closing", "unclosed", "end_wait", "idle"}
WsgMustEnd(o) == Waiting(o) /\ (stpStopped \/ wsgReady)
=============================================================================
