---------------------------- MODULE MCNativeState ----------------------------
(* Who owns what: the objects the backends create and destroy, threads,    *)
(* thread-local data, the buffers of a signal and the topics of a registry. *)
(* A behaviour is one of one of these on one backend or build.             *)
EXTENDS BackendObjects, BackendThread, ThreadLocal, SignalBus, TopicRouting

CONSTANT Parts   \* those explored

VARIABLE part

mcVars == <<part, objVars, thrVars, tlsVars, sigVars, rtVars>>

(* What a behaviour is not about stays as it began.                        *)
Of(this, all) == IF part = this THEN all ELSE {CHOOSE os \in all : TRUE}

MCInit ==
  /\ part \in Parts
  /\ ObjInit /\ objLife \in Of("objects", Lives)
  /\ \E os \in Of("threads", ThreadBuilds) : ThrInit(os)
  /\ \E build \in Of("thread_local", TlsBuilds) : TlsInit(build)
  /\ \E bus \in Of("signals", SigKinds) : SigInit(bus)
  /\ RtInit

MCNext ==
  /\ \/ part = "objects" /\ ObjNext /\ UNCHANGED <<thrVars, tlsVars, sigVars, rtVars>>
     \/ part = "threads" /\ ThrNext /\ UNCHANGED <<objVars, tlsVars, sigVars, rtVars>>
     \/ part = "thread_local" /\ TlsNext /\ UNCHANGED <<objVars, thrVars, sigVars, rtVars>>
     \/ part = "signals" /\ SigNext /\ UNCHANGED <<objVars, thrVars, tlsVars, rtVars>>
     \/ part = "routing" /\ RtNext /\ UNCHANGED <<objVars, thrVars, tlsVars, sigVars>>
  /\ UNCHANGED part

MCSpec == MCInit /\ [][MCNext]_mcVars

(* Two tasks that are alike in every part but that of the objects, and two *)
(* handles or topics.  No step orders them; a created thread is any of the *)
(* threads not created yet, which are alike as well.                       *)
Alike == Permutations(TlsThreads) \cup Permutations(ThrHandles)
-----------------------------------------------------------------------------
(* No two handles have one slot or one address, and give and take find the *)
(* handle's own slot.                                                      *)
ObjectsAreTheirOwners == ObjExclusive /\ ObjFindsItself

(* A signal's readers get what was published to them and its buffers are   *)
(* counted; a topic and its registry are there while they are routed       *)
(* through, and a cycle of routes ends.                                    *)
BusIsSound == (part = "signals" => SigSound) /\ (part = "routing" => RoutingSound)
=============================================================================
