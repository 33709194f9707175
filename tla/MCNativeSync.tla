---------------------------- MODULE MCNativeSync ----------------------------
(* The semaphores, mutexes, queues and event flags of every backend; a     *)
(* behaviour is one of one object on one backend.                          *)
EXTENDS BackendSemaphore, BackendMutex, BackendQueue, BackendEventFlags

CONSTANTS t1, t2, a, b

TwoTasks == {t1, t2}
TwoItems == {a, b}
MCRequests == [bits : {{1}}, all : {FALSE}, clear : BOOLEAN] \cup [bits : {{1, 2}}, all : BOOLEAN, clear : BOOLEAN]

VARIABLE part

mcVars == <<part, semVars, mtxVars, queVars, evtVars>>

(* The objects a behaviour is not about stay as they were created.         *)
Of(this, all) == IF part = this THEN all ELSE {CHOOSE os \in all : TRUE}

(* One backend of those whose records are the same.                        *)
OneEach(record) ==
  {CHOOSE os \in DOMAIN record : record[os] = r : r \in {record[os] : os \in DOMAIN record}}

MCInit ==
  /\ part \in {"semaphore", "mutex", "queue", "event_flags"}
  /\ \E os \in Of("semaphore", DOMAIN Semaphore) : SemInit(os) /\ (part # "semaphore" => semValue = 0)
  /\ \E os \in IF part = "mutex" THEN DOMAIN MutexOf ELSE {"zephyr"} : MtxInit(os) /\ (part # "mutex" => mtxRelock = "counts" /\ ~mtxRobust)
  /\ \E os \in Of("queue", OneEach(QueueOf)) : QueInit(os)
  /\ \E os \in Of("event_flags", OneEach(FlagsOf)) : EvtInit(os)

MCNext ==
  /\ \/ part = "semaphore" /\ SemNext /\ UNCHANGED <<mtxVars, queVars, evtVars>>
     \/ part = "mutex" /\ MtxNext /\ UNCHANGED <<semVars, queVars, evtVars>>
     \/ part = "queue" /\ QueNext /\ UNCHANGED <<semVars, mtxVars, evtVars>>
     \/ part = "event_flags" /\ EvtNext /\ UNCHANGED <<semVars, mtxVars, queVars>>
  /\ UNCHANGED part

MCSpec == MCInit /\ [][MCNext]_mcVars /\ SemFairness /\ QueFairness /\ EvtFairness
-----------------------------------------------------------------------------
(* A task that waits for ever does not do so beside a permit, an item, a   *)
(* free place or the flags it waits for, while these stay.                 *)
NobodyWaitsInVain == SemTakerServed /\ QueueServed /\ EvtServed
=============================================================================
