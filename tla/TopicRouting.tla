---------------------------- MODULE TopicRouting ----------------------------
(***************************************************************************)
(* topic_registry (include/osal/bus/topic_registry.hpp) and the observers  *)
(* and routes of osal_signal_premium.  A dispatch publishes outside the    *)
(* registry's lock; publish calls the observers on a snapshot; an observer *)
(* may route on, so calls nest and routes may form cycles.  A section      *)
(* under a mutex is one step.  The queues a publish also fills are those   *)
(* of SignalBus and are left out here, as are the results of the calls.    *)
(***************************************************************************)
EXTENDS Naturals, Sequences, FiniteSets, SequencesExt

CONSTANTS RtTasks,
          Topics,        \* osal_signal_premium objects
          MaxTopics,     \* entries of the registry
          IdMod,         \* number of values of signal_id; 0 is invalid_signal_id
          Observers,     \* functions
          MaxObservers,  \* max_observers_
          NoTopic

ASSUME RtAssumption ==
  /\ MaxTopics \in Nat \ {0} /\ IdMod \in Nat \ {0, 1} /\ MaxObservers \in Nat
  /\ NoTopic \notin Topics

VARIABLES rtEntries,  \* entries_
          rtNext,     \* next_id_
          rtGiven,    \* ghost: the ids register_topic has returned, in order
          rtBound,    \* the topics whose registry_ is set
          rtRouting,  \* routing_ of each topic
          rtObs,      \* the observers of each topic
          rtStack     \* the calls each task is in, innermost last

registryVars == <<rtEntries, rtNext, rtGiven>>
rtVars == <<registryVars, rtBound, rtRouting, rtObs, rtStack>>

Entries == 1 .. MaxTopics
Empty == [topic |-> NoTopic, id |-> 0, active |-> FALSE]

RtInit ==
  /\ rtEntries = [e \in Entries |-> Empty]
  /\ rtNext = 1 /\ rtGiven = <<>>
  /\ rtBound = {}
  /\ rtRouting = [x \in Topics |-> 0]
  /\ rtObs = [x \in Topics |-> <<>>]
  /\ rtStack = [t \in RtTasks |-> <<>>]

Top(t) == rtStack[t][Len(rtStack[t])]
Push(t, frame) == rtStack' = [rtStack EXCEPT ![t] = Append(@, frame)]
Pop(t) == rtStack' = [rtStack EXCEPT ![t] = Front(@)]
Swap(t, frame) == rtStack' = [rtStack EXCEPT ![t] = Append(Front(@), frame)]

(* Tasks call from outside and from inside an observer.                    *)
MayCall(t) == rtStack[t] # <<>> => Top(t).op = "observer"

Registered(x) == \E e \in Entries : rtEntries[e].topic = x

(* The first entry with the id, if there is one.                           *)
At(id) ==
  LET S == {e \in Entries : rtEntries[e].topic # NoTopic /\ rtEntries[e].id = id}
  IN  {e \in S : \A f \in S : e <= f}
-----------------------------------------------------------------------------
(* Variant: the counter wraps and ids are given out again.                 *)
register_topic_Wraps(t, x) ==
  /\ MayCall(t) /\ ~Registered(x)
  /\ \E e \in Entries :
       /\ rtEntries[e].topic = NoTopic
       /\ \A f \in Entries : rtEntries[f].topic = NoTopic => e <= f
       /\ rtEntries' = [rtEntries EXCEPT ![e] = [topic |-> x, id |-> rtNext, active |-> FALSE]]
  /\ rtNext' = (rtNext + 1) % IdMod /\ rtGiven' = Append(rtGiven, rtNext)
  /\ UNCHANGED <<rtBound, rtRouting, rtObs, rtStack>>

(* register_topic: once the counter has wrapped it refuses.                *)
register_topic(t, x) ==
  /\ MayCall(t) /\ ~Registered(x) /\ rtNext # 0
  /\ \E e \in Entries :
       /\ rtEntries[e].topic = NoTopic
       /\ \A f \in Entries : rtEntries[f].topic = NoTopic => e <= f
       /\ rtEntries' = [rtEntries EXCEPT ![e] = [topic |-> x, id |-> rtNext, active |-> FALSE]]
  /\ rtNext' = (rtNext + 1) % IdMod /\ rtGiven' = Append(rtGiven, rtNext)
  /\ UNCHANGED <<rtBound, rtRouting, rtObs, rtStack>>

(* Variant: unregister does not look at active.                            *)
unregister_topic_NotBusy(t, id) ==
  /\ MayCall(t)
  /\ \E e \in At(id) : rtEntries' = [rtEntries EXCEPT ![e] = Empty]
  /\ UNCHANGED <<rtNext, rtGiven, rtBound, rtRouting, rtObs, rtStack>>

(* unregister_topic: busy while the entry is dispatching.                  *)
unregister_topic(t, id) ==
  /\ MayCall(t)
  /\ \E e \in At(id) : ~rtEntries[e].active /\ rtEntries' = [rtEntries EXCEPT ![e] = Empty]
  /\ UNCHANGED <<rtNext, rtGiven, rtBound, rtRouting, rtObs, rtStack>>

(* Variant: an entry that is dispatching is dispatched again.              *)
Dispatchable_Again(id) == At(id)

(* dispatch refuses ids it does not have and entries that are dispatching. *)
Dispatchable(id) == {e \in At(id) : ~rtEntries[e].active}

Selects(e) == rtEntries' = [rtEntries EXCEPT ![e].active = TRUE]
Dispatch(e) == [op |-> "dispatch", entry |-> e, id |-> rtEntries[e].id]

(* dispatch, called on the registry or through route_to(registry, ...).    *)
dispatch(t, id) ==
  /\ MayCall(t)
  /\ \E e \in Dispatchable(id) : Selects(e) /\ Push(t, Dispatch(e))
  /\ UNCHANGED <<rtNext, rtGiven, rtBound, rtRouting, rtObs>>

(* The entry's topic is read and published to outside the lock, up to the  *)
(* snapshot of its observers ...                                           *)
DispatchPublishes(t) ==
  /\ rtStack[t] # <<>> /\ Top(t).op = "dispatch"
  /\ LET x == rtEntries[Top(t).entry].topic
     IN  rtStack' = [rtStack EXCEPT ![t] =
           Front(@) \o <<[Top(t) EXCEPT !.op = "dispatched"], [op |-> "publish", left |-> rtObs[x]]>>]
  /\ UNCHANGED <<registryVars, rtBound, rtRouting, rtObs>>

(* Variant: the entry stays active after the publish.                      *)
DispatchEnds_StaysActive(t) ==
  /\ rtStack[t] # <<>> /\ Top(t).op = "dispatched"
  /\ Pop(t)
  /\ UNCHANGED <<registryVars, rtBound, rtRouting, rtObs>>

(* ... and then the entry is free again.                                   *)
DispatchEnds(t) ==
  /\ rtStack[t] # <<>> /\ Top(t).op = "dispatched"
  /\ rtEntries' = [rtEntries EXCEPT ![Top(t).entry].active = FALSE]
  /\ Pop(t)
  /\ UNCHANGED <<rtNext, rtGiven, rtBound, rtRouting, rtObs>>
-----------------------------------------------------------------------------
(* publish of a topic by a task; invoke_observers calls the snapshot.      *)
PublishTopic(t, x) ==
  /\ rtStack[t] = <<>>
  /\ Push(t, [op |-> "publish", left |-> rtObs[x]])
  /\ UNCHANGED <<registryVars, rtBound, rtRouting, rtObs>>

invoke_observers(t) ==
  /\ rtStack[t] # <<>> /\ Top(t).op = "publish"
  /\ IF Top(t).left = <<>>
       THEN Pop(t)
       ELSE rtStack' = [rtStack EXCEPT ![t] =
              Front(@) \o <<[Top(t) EXCEPT !.left = Tail(@)], [op |-> "observer"]>>]
  /\ UNCHANGED <<registryVars, rtBound, rtRouting, rtObs>>

ObserverReturns(t) ==
  /\ rtStack[t] # <<>> /\ Top(t).op = "observer"
  /\ Pop(t)
  /\ UNCHANGED <<registryVars, rtBound, rtRouting, rtObs>>

subscribe_observer(t, x, fn) ==
  /\ MayCall(t) /\ Len(rtObs[x]) < MaxObservers
  /\ rtObs' = [rtObs EXCEPT ![x] = Append(@, fn)]
  /\ UNCHANGED <<registryVars, rtBound, rtRouting, rtStack>>

(* The last observer takes the place of the one that is removed.           *)
unsubscribe_observer(t, x, fn) ==
  /\ MayCall(t) /\ fn \in ToSet(rtObs[x])
  /\ LET i == SelectInSeq(rtObs[x], LAMBDA o : o = fn)
     IN  rtObs' = [rtObs EXCEPT ![x] = Front([@ EXCEPT ![i] = Last(rtObs[x])])]
  /\ UNCHANGED <<registryVars, rtBound, rtRouting, rtStack>>
-----------------------------------------------------------------------------
bind_registry(t, x) ==
  /\ MayCall(t) /\ rtRouting[x] = 0 /\ x \notin rtBound
  /\ rtBound' = rtBound \cup {x}
  /\ UNCHANGED <<registryVars, rtRouting, rtObs, rtStack>>

(* Variant: unbind does not wait for the routes in progress.               *)
unbind_registry_Anyway(t, x) ==
  /\ MayCall(t)
  /\ rtBound' = rtBound \ {x}
  /\ UNCHANGED <<registryVars, rtRouting, rtObs, rtStack>>

unbind_registry(t, x) ==
  /\ MayCall(t) /\ rtRouting[x] = 0
  /\ rtBound' = rtBound \ {x}
  /\ UNCHANGED <<registryVars, rtRouting, rtObs, rtStack>>

(* route_to through the bound registry: the route is counted, ...          *)
route_to(t, x, id) ==
  /\ MayCall(t) /\ x \in rtBound
  /\ rtRouting' = [rtRouting EXCEPT ![x] = @ + 1]
  /\ Push(t, [op |-> "route", topic |-> x, id |-> id])
  /\ UNCHANGED <<registryVars, rtBound, rtObs>>

(* ... dispatched, which may be refused, ...                               *)
RouteDispatches(t) ==
  /\ rtStack[t] # <<>> /\ Top(t).op = "route"
  /\ LET S == Dispatchable(Top(t).id)
         routed == [Top(t) EXCEPT !.op = "routed"]
     IN  \/ /\ S = {}
            /\ Swap(t, routed) /\ UNCHANGED rtEntries
         \/ \E e \in S :
              /\ Selects(e)
              /\ rtStack' = [rtStack EXCEPT ![t] = Front(@) \o <<routed, Dispatch(e)>>]
  /\ UNCHANGED <<rtNext, rtGiven, rtBound, rtRouting, rtObs>>

(* ... and counted out.                                                    *)
RouteEnds(t) ==
  /\ rtStack[t] # <<>> /\ Top(t).op = "routed"
  /\ rtRouting' = [rtRouting EXCEPT ![Top(t).topic] = @ - 1]
  /\ Pop(t)
  /\ UNCHANGED <<registryVars, rtBound, rtObs>>

RtNext == \E t \in RtTasks :
  \/ \E x \in Topics : register_topic(t, x) \/ bind_registry(t, x) \/ unbind_registry(t, x) \/ PublishTopic(t, x)
  \/ \E id \in 1 .. IdMod - 1 : unregister_topic(t, id) \/ dispatch(t, id)
  \/ \E x \in Topics, id \in 1 .. IdMod - 1 : route_to(t, x, id)
  \/ \E x \in Topics, fn \in Observers : subscribe_observer(t, x, fn) \/ unsubscribe_observer(t, x, fn)
  \/ DispatchPublishes(t) \/ DispatchEnds(t) \/ invoke_observers(t) \/ ObserverReturns(t)
  \/ RouteDispatches(t) \/ RouteEnds(t)

RtSpec == RtInit /\ [][RtNext]_rtVars
-----------------------------------------------------------------------------
(* Where each call in progress is: a task and a depth.                     *)
Frames(ops) ==
  UNION {{<<t, i>> : i \in {j \in DOMAIN rtStack[t] : rtStack[t][j].op \in ops}} : t \in RtTasks}

Frame(f) == rtStack[f[1]][f[2]]

RtTypeOK ==
  /\ \A e \in Entries : rtEntries[e].topic \in Topics \cup {NoTopic} /\ rtEntries[e].id \in 0 .. IdMod - 1
  /\ rtNext \in 0 .. IdMod - 1 /\ rtBound \subseteq Topics
  /\ \A x \in Topics : Len(rtObs[x]) <= MaxObservers

(* The topic a dispatch publishes to, outside the lock, is still           *)
(* registered under the id it was found by, in an entry no other call      *)
(* dispatches; and an entry is busy only while a call is dispatching it.   *)
DispatchesAreHeld ==
  LET D == Frames({"dispatch", "dispatched"})
  IN  /\ \A f \in D : LET e == rtEntries[Frame(f).entry] IN
                        e.topic # NoTopic /\ e.id = Frame(f).id /\ e.active
      /\ \A f, g \in D : Frame(f).entry = Frame(g).entry => f = g
      /\ \A e \in Entries : rtEntries[e].active => \E f \in D : Frame(f).entry = e

(* The registry stays bound to a topic while it routes through it, and     *)
(* routing_ counts those routes.                                           *)
RoutesAreHeld ==
  \A x \in Topics :
    LET R == {f \in Frames({"route", "routed"}) : Frame(f).topic = x}
    IN  rtRouting[x] = Cardinality(R) /\ (R # {} => x \in rtBound)

(* An id is given out once, so that a stale one finds no other topic.      *)
IdsAreFresh == IsInjective(rtGiven) /\ 0 \notin ToSet(rtGiven)

(* A cycle of routes ends at the entry that is already dispatching: no     *)
(* task publishes more than once for each entry, and once for itself.      *)
CyclesEnd ==
  \A t \in RtTasks : Cardinality({f \in Frames({"publish"}) : f[1] = t}) <= MaxTopics + 1

RoutingSound == RtTypeOK /\ DispatchesAreHeld /\ RoutesAreHeld /\ IdsAreFresh /\ CyclesEnd
=============================================================================
