----------------------------- MODULE StopToken -----------------------------
(***************************************************************************)
(* stop_source and stop_callback (include/osal/stop_token.hpp).  A task    *)
(* owns one registration at a time.  request_stop takes the callbacks off  *)
(* the list under metadata_ and runs each with the lock released, its      *)
(* executing_ flag set; close takes its node off the list and waits for    *)
(* that flag.  A section under metadata_ is one step.  Locks and condition *)
(* variables that fail are left out.  pc "call" and "inline" begin the     *)
(* body of a callback, Called and Ran end it; PlainBody is a callback that *)
(* touches nothing of the model, and the steps of a task that registers    *)
(* one for itself are Plain.                                               *)
(***************************************************************************)
EXTENDS Integers, Sequences, FiniteSets, SequencesExt

CONSTANTS Owners,        \* tasks with a stop_callback
          Requesters,    \* tasks that call request_stop
          MaxCallbacks,  \* OSAL_STOP_SOURCE_MAX_CALLBACKS
          NoOwner

ASSUME StpAssumption == MaxCallbacks \in Nat /\ NoOwner \notin Owners

VARIABLES stpStopped,    \* stopped_
          stpList,       \* from head_
          stpExecuting,  \* the registrations whose executing_ is set
          stpPc,
          stpAt,         \* requester -> the callback it runs
          stpRuns        \* ghost: owner -> how often this registration ran

stpVars == <<stpStopped, stpList, stpExecuting, stpPc, stpAt, stpRuns>>

StpAt(p, here) == stpPc[p] = here
StpGoto(p, there) == stpPc' = [stpPc EXCEPT ![p] = there]

StpInit ==
  /\ stpStopped = FALSE
  /\ stpList = <<>>
  /\ stpExecuting = {}
  /\ stpPc = [p \in Owners \cup Requesters |-> "idle"]
  /\ stpAt = [r \in Requesters |-> NoOwner]
  /\ stpRuns = [o \in Owners |-> 0]
-----------------------------------------------------------------------------
(* The head of the loop of request_stop, with the lock held: the next      *)
(* callback, or unlock and return.                                         *)
TakeHead(r, executing) ==
  IF stpList = <<>>
  THEN /\ StpGoto(r, "idle")
       /\ stpAt' = [stpAt EXCEPT ![r] = NoOwner]
       /\ stpExecuting' = executing
       /\ UNCHANGED stpList
  ELSE /\ StpGoto(r, "call")
       /\ stpAt' = [stpAt EXCEPT ![r] = Head(stpList)]
       /\ stpExecuting' = executing \cup {Head(stpList)}
       /\ stpList' = Tail(stpList)

(* A second request finds stopped_ set and returns.                        *)
request_stop(r) ==
  /\ StpAt(r, "idle") /\ ~stpStopped
  /\ stpStopped' = TRUE
  /\ TakeHead(r, stpExecuting)
  /\ UNCHANGED stpRuns

(* The callback returns.                                                   *)
Called(r) ==
  /\ StpGoto(r, "relock")
  /\ stpRuns' = [stpRuns EXCEPT ![stpAt[r]] = @ + 1]
  /\ UNCHANGED <<stpStopped, stpList, stpExecuting, stpAt>>

(* Lock again, clear executing_, wake the closers, look for the next.      *)
Relock(r) ==
  /\ StpAt(r, "relock")
  /\ TakeHead(r, stpExecuting \ {stpAt[r]})
  /\ UNCHANGED <<stpStopped, stpRuns>>
-----------------------------------------------------------------------------
(* The constructor: run at once if stop was requested, refuse when the     *)
(* list is full, else link.                                                *)
Construct_NoCheck(o, after, refused) ==
  /\ IF Len(stpList) = MaxCallbacks
     THEN StpGoto(o, refused) /\ UNCHANGED stpList
     ELSE StpGoto(o, after) /\ stpList' = <<o>> \o stpList
  /\ stpRuns' = [stpRuns EXCEPT ![o] = 0]
  /\ UNCHANGED <<stpStopped, stpExecuting, stpAt>>

Construct(o, after, refused) ==
  /\ IF stpStopped
     THEN StpGoto(o, "inline") /\ UNCHANGED stpList
     ELSE IF Len(stpList) = MaxCallbacks
     THEN StpGoto(o, refused) /\ UNCHANGED stpList
     ELSE StpGoto(o, after) /\ stpList' = <<o>> \o stpList
  /\ stpRuns' = [stpRuns EXCEPT ![o] = 0]
  /\ UNCHANGED <<stpStopped, stpExecuting, stpAt>>

(* The callback that the constructor runs itself returns.                  *)
Ran(o, after) ==
  /\ StpGoto(o, after)
  /\ stpRuns' = [stpRuns EXCEPT ![o] = @ + 1]
  /\ UNCHANGED <<stpStopped, stpList, stpExecuting, stpAt>>

(* close: off the list; return, or wait until the callback has returned.   *)
close(o, after) ==
  /\ stpList' = SelectSeq(stpList, LAMBDA p : p # o)
  /\ StpGoto(o, IF o \in stpExecuting THEN "closing" ELSE after)
  /\ UNCHANGED <<stpStopped, stpExecuting, stpAt, stpRuns>>

CloseDone_NoWait(o, after) ==
  /\ StpAt(o, "closing")
  /\ StpGoto(o, after)
  /\ UNCHANGED <<stpStopped, stpList, stpExecuting, stpAt, stpRuns>>

CloseDone(o, after) ==
  /\ StpAt(o, "closing")
  /\ o \notin stpExecuting
  /\ StpGoto(o, after)
  /\ UNCHANGED <<stpStopped, stpList, stpExecuting, stpAt, stpRuns>>

(* close(timeout) gives up; the registration stays with its owner, who     *)
(* has to close it again (the destructor does, without a timeout).         *)
CloseTimesOut(o) ==
  /\ StpAt(o, "closing")
  /\ StpGoto(o, "unclosed")
  /\ UNCHANGED <<stpStopped, stpList, stpExecuting, stpAt, stpRuns>>
-----------------------------------------------------------------------------
PlainBody(r) == StpAt(r, "call") /\ Called(r)
PlainConstruct(o) == StpAt(o, "idle") /\ Construct(o, "registered", "idle")
PlainRan(o) == StpAt(o, "inline") /\ Ran(o, "registered")
PlainClose(o) == (stpPc[o] \in {"registered", "unclosed"} /\ close(o, "idle")) \/ CloseDone(o, "idle")
Plain(o) == PlainConstruct(o) \/ PlainRan(o) \/ PlainClose(o) \/ CloseTimesOut(o)
-----------------------------------------------------------------------------
StpTypeOK ==
  /\ stpStopped \in BOOLEAN
  /\ Len(stpList) <= MaxCallbacks /\ IsInjective(stpList)
  /\ ToSet(stpList) \subseteq Owners /\ stpExecuting \subseteq Owners

(* A callback runs at most once for a registration, never after close has  *)
(* returned (its object is gone), and a registration that request_stop     *)
(* finds and that is not closed has run when request_stop returns.         *)
StpClosedIsQuiet ==
  /\ StpTypeOK
  /\ \A o \in Owners :
        /\ stpRuns[o] <= 1
        /\ StpAt(o, "idle") => o \notin ToSet(stpList) \cup stpExecuting
        /\ StpAt(o, "registered") /\ stpStopped /\ (\A r \in Requesters : StpAt(r, "idle"))
              => stpRuns[o] = 1
  /\ \A r \in Requesters : stpPc[r] \in {"call", "give"} => stpAt[r] \in stpExecuting
=============================================================================
