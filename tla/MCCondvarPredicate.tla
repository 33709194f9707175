------------------------- MODULE MCCondvarPredicate -------------------------
(* Three threads with a slot for each, or fewer slots: producers and       *)
(* consumers in the documented pattern, a barrier, or a notification with  *)
(* a wait set.                                                             *)
EXTENDS CondvarPredicate, Barrier, WaitSet

CONSTANTS t1, t2, t3,
          Parts   \* those explored

MCThreads == {t1, t2, t3}

Registration(kind, arg, clear) == [kind |-> kind, arg |-> arg, clear |-> clear]

MCRegistrations ==
  {Registration("notification", 1, TRUE), Registration("event_any", {1, 2}, TRUE),
   Registration("event_all", {1, 2}, TRUE), Registration("other", {}, FALSE)}

VARIABLE part

mcVars == <<part, data, user, allVars, wsVars>>

MCInit == part \in Parts /\ PredInit /\ Init /\ WsInit

(* A wait set of one slot of the notification, or of event flags; t2 and   *)
(* t3 wait for the slot that is watched and for the other one.             *)
Watches ==
  /\ part = "notes" => UNCHANGED flags /\ \A t \in {t2, t3} :
       noteUser'[t] # "idle" => noteIndex'[t] = IF t = t2 THEN 1 ELSE 2
  /\ part = "flags" => UNCHANGED <<cvVars, pending>>
  /\ LET kinds == IF part = "notes" THEN {"notification"} ELSE {"event_any", "event_all", "other"}
     IN  \A i \in 1 .. MaxEntries :
           entries'[i] \in {NoEntry} \cup {e \in Registrations : e.kind \in kinds /\ (part = "notes" => i = 1)}

MCNext ==
  /\ \/ part = "predicate" /\ PredNext /\ UNCHANGED <<barrierVars, wsVars>>
     \/ part = "barrier" /\ Next /\ UNCHANGED <<data, user, wsVars>>
     \/ part \in {"notes", "flags"} /\ WsNext /\ Watches /\ UNCHANGED <<data, user, barrierVars>>
  /\ UNCHANGED part

(* The fairness of PredFairSpec, of FairSpec and of WsFairSpec.            *)
Running(t) ==
  /\ \/ /\ part = "predicate" /\ UNCHANGED <<barrierVars, wsVars>>
        /\ PredRecheck(t) \/ Notify(t) \/ PredWaitStep(t)
     \/ /\ part = "barrier" /\ UNCHANGED <<data, user, wsVars>>
        /\ Recheck(t) \/ InWaitStep(t)
     \/ /\ part = "notes" /\ UNCHANGED <<data, user, barrierVars>>
        /\ NoteRecheck(t) \/ NoteWaitStep(t)
  /\ UNCHANGED part

Watching ==
  part \in {"notes", "flags"} /\ WatchStep /\ UNCHANGED <<part, data, user, barrierVars>>

MCSpec ==
  /\ MCInit /\ [][MCNext]_mcVars
  /\ \A t \in Threads : WF_mcVars(Running(t))
  /\ SF_mcVars(Watching)
-----------------------------------------------------------------------------
(* Nobody sleeps beside what it waits for, an item or a notification, and  *)
(* the wait set erases nothing without reporting it.                       *)
NoEventIsLost ==
  /\ part = "predicate" => NoStrandedConsumer
  /\ part \in {"notes", "flags"} => WsTypeOK /\ NoWaitBesidePending /\ NothingIsErasedUntold

(* Consumers do not keep the mutex while they wait, every waiter of a      *)
(* completed rendezvous returns, and so does a wait on a wait set one of   *)
(* whose entries stays ready.                                              *)
WaitersAreReleased == MutexIsReleased /\ ReleasedReturn /\ WatcherIsTold
=============================================================================
