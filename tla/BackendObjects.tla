--------------------------- MODULE BackendObjects ---------------------------
(***************************************************************************)
(* Creation and destruction of the kernel objects behind the handles: one  *)
(* state machine, and for each backend and kind of object the record of    *)
(* what its create and destroy functions acquire and release, in order.    *)
(* The slots of a static pool are flags: "locked" pools are searched with  *)
(* interrupts masked, "scan" pools by one atomic exchange per slot, and a  *)
(* CMSIS-RTOS queue slot is probed, looked at and given back if its kernel *)
(* queue, which is never deleted, has another shape.  Arguments that       *)
(* create refuses change nothing and are left out.  A kernel that refuses  *)
(* to delete an object is a step where the code looks at the answer.       *)
(***************************************************************************)
EXTENDS Integers, Sequences

CONSTANTS ObjHandles,
          NSlots,       \* the size of the pool
          Shapes,       \* item size and capacity of CMSIS-RTOS queues
          Addresses,    \* what new and semCCreate hand out
          EarlyReuse,   \* also while a slot of the registry still holds it
          NoAddress

ASSUME ObjAssumption ==
  /\ NSlots \in Nat \ {0}
  /\ EarlyReuse \in BOOLEAN
  /\ NoAddress \notin Addresses

VARIABLES objLife,   \* the record of this build's create and destroy
          objUsed,   \* used (or active) flag of each slot
          objShape,  \* the kernel queue a CMSIS-RTOS slot keeps
          objReg,    \* id of each slot, by which give and take find it
          objTaken,  \* the addresses in use
          objPc,
          objAt,     \* the slot a call is at, or has
          objHas,    \* what is acquired for the handle
          objAddr,
          objWant,   \* the shape the call asks for
          objHandle  \* handle->native is set

objVars == <<objLife, objUsed, objShape, objReg, objTaken, objPc, objAt, objHas,
             objAddr, objWant, objHandle>>

(* make and drop: what create acquires and destroy releases, in order.     *)
(* fails: the acquisitions that may fail after the slot is claimed; what   *)
(* was acquired is then released in the reverse order.  kept: the release  *)
(* whose failure ends destroy with the handle still set.                   *)
Life(pool, make, fails, drop, kept) ==
  [pool |-> pool, make |-> make, fails |-> fails, drop |-> drop, kept |-> kept]

Slotted(pool, fails, kept) == Life(pool, <<"slot", "object">>, fails, <<"object", "slot">>, kept)
Bare(pool) == Life(pool, <<"slot">>, {}, <<"slot">>, {})
Heap(fails, kept) == Life("none", <<"block", "object">>, {"block"} \cup fails, <<"object", "block">>, kept)
KernelOnly == Life("none", <<"object">>, {"object"}, <<"object">>, {})

freertos_mutex_life == Slotted("locked", {"object"}, {})
freertos_semaphore_life == Slotted("locked", {"object"}, {})
freertos_queue_life == Slotted("locked", {"object"}, {})
freertos_event_flags_life == Slotted("locked", {"object"}, {})
freertos_stream_buffer_life == Slotted("locked", {"object"}, {})
freertos_message_buffer_life == Slotted("locked", {"object"}, {})

(* Zephyr objects are initialised in their slot and not deleted.           *)
zephyr_mutex_life == Bare("locked")
zephyr_semaphore_life == Bare("locked")
zephyr_queue_life == Slotted("locked", {}, {})
zephyr_event_flags_life == Bare("locked")
zephyr_condvar_life == Bare("locked")

(* A failed clean-up of the attributes undoes the mutex as well.           *)
create_pthread_mutex == Heap({"object"}, {"object"})
posix_mutex_life == create_pthread_mutex
posix_semaphore_life == Heap({"object"}, {})
posix_queue_life == Heap({}, {})
posix_wait_set_life == Life("none", <<"block">>, {"block"}, <<"block">>, {})
linux_mutex_life == create_pthread_mutex
linux_semaphore_life == Heap({"object"}, {})
linux_queue_life == Heap({}, {})
linux_wait_set_life ==
  Life("none", <<"object", "block">>, {"object", "block"}, <<"object", "block">>, {})

(* NuttX and VxWorks find the slot of a semaphore by the kernel's pointer. *)
nuttx_mutex_life == Heap({"object"}, {})
nuttx_semaphore_life ==
  Life("scan", <<"slot", "block", "object", "register">>, {"block", "object"},
       <<"object", "block", "register", "slot">>, {"object"})
nuttx_queue_life ==
  Life("none", <<"block", "cache", "mutex", "not_full", "not_empty", "mq">>,
       {"block", "cache", "mutex", "not_full", "not_empty", "mq"},
       <<"mq", "not_empty", "not_full", "mutex", "cache", "block">>, {})
nuttx_condvar_life == Heap({}, {})
vxworks_mutex_life == KernelOnly
vxworks_semaphore_life ==
  Life("scan", <<"slot", "block", "register">>, {"block"},
       <<"block", "register", "slot">>, {"block"})
vxworks_queue_life == Slotted("scan", {"object"}, {})
vxworks_condvar_life == KernelOnly

chibios_mutex_life == Bare("scan")
chibios_semaphore_life == Slotted("scan", {}, {})
chibios_queue_life == Slotted("scan", {"object"}, {})
chibios_event_flags_life == Bare("scan")
chibios_condvar_life == Bare("scan")

embos_mutex_life == Slotted("scan", {}, {})
embos_semaphore_life == Slotted("scan", {}, {})
embos_queue_life == Bare("scan")
embos_event_flags_life == Slotted("scan", {}, {})

cmsis_rtos2_mutex_life == Slotted("scan", {"object"}, {})
cmsis_rtos2_semaphore_life == Slotted("scan", {"object"}, {})
cmsis_rtos2_queue_life == Slotted("scan", {"object"}, {})
cmsis_rtos2_event_flags_life == Slotted("scan", {"object"}, {})
cmsis_rtos2_memory_pool_life == Slotted("scan", {"object"}, {})

micrium_mutex_life == Slotted("scan", {"object"}, {})
micrium_semaphore_life == Slotted("scan", {"object"}, {"object"})
micrium_queue_life == Bare("scan")
micrium_event_flags_life == Slotted("scan", {"object"}, {})

px5_mutex_life == Slotted("scan", {"object"}, {})
px5_semaphore_life == Slotted("scan", {"object"}, {"object"})
px5_queue_life == Slotted("scan", {"object"}, {})
px5_event_flags_life == Slotted("scan", {"object"}, {})
px5_wait_set_life == Slotted("scan", {"object"}, {})
threadx_mutex_life == Slotted("scan", {"object"}, {})
threadx_semaphore_life == Slotted("scan", {"object"}, {"object"})
threadx_queue_life == Slotted("scan", {"object"}, {})
threadx_event_flags_life == Slotted("scan", {"object"}, {})

(* CMSIS-RTOS has no call that deletes a message queue or a memory pool:   *)
(* the queue stays with its slot, the pool is lost.                        *)
cmsis_rtos_mutex_life == Slotted("scan", {"object"}, {})
cmsis_rtos_semaphore_life == Slotted("scan", {"object"}, {"object"})
cmsis_rtos_queue_life == Life("probe", <<"slot", "queue">>, {"queue"}, <<"slot">>, {})
cmsis_rtos_memory_pool_life == Life("scan", <<"slot", "object">>, {"object"}, <<"slot">>, {})

qnx_mutex_life == Heap({}, {})
qnx_semaphore_life == Heap({"object"}, {})
qnx_queue_life ==
  Life("none", <<"mq", "nonblocking", "block">>, {"mq", "nonblocking", "block"},
       <<"mq", "nonblocking", "block">>, {})

bare_metal_mutex_life == Bare("locked")
bare_metal_semaphore_life == Bare("locked")
bare_metal_queue_life == Bare("locked")

(* Timers.  A timer that was ever started is not destroyed where the kernel *)
(* gives no barrier against a callback in flight.                          *)
freertos_timer_life ==
  Life("locked", <<"slot", "storage", "object">>, {"storage", "object"},
       <<"object", "storage", "slot">>, {"object"})
zephyr_timer_life == Bare("locked")
posix_timer_life ==
  Life("none", <<"block", "mutex", "changed">>, {"block", "mutex", "changed"},
       <<"changed", "mutex", "block">>, {})
linux_timer_life ==
  Life("none", <<"block", "timerfd", "shutdown_fd">>, {"block", "timerfd", "shutdown_fd"},
       <<"timerfd", "shutdown_fd", "block">>, {"timerfd"})
qnx_timer_life ==
  Life("none", <<"block", "mutex", "changed", "watcher">>, {"block", "mutex", "changed", "watcher"},
       <<"watcher", "changed", "mutex", "block">>, {"watcher"})
nuttx_timer_life == Life("scan", <<"slot">>, {}, <<"slot">>, {"slot"})
chibios_timer_life == Life("scan", <<"slot">>, {}, <<"slot">>, {"slot"})
embos_timer_life == Slotted("scan", {}, {"object"})
cmsis_rtos2_timer_life == Slotted("scan", {"object"}, {"object"})
cmsis_rtos_timer_life == Slotted("scan", {"object"}, {"object"})
micrium_timer_life == Slotted("scan", {"object"}, {"object"})
px5_timer_life == Slotted("scan", {"object"}, {"object"})
threadx_timer_life == Slotted("scan", {"object"}, {"object"})
vxworks_timer_life == Slotted("scan", {"object"}, {"object"})
bare_metal_timer_life == Bare("locked")

(* The emulated objects, made of a slot and of the backend's own mutexes,  *)
(* semaphores, condition variables and threads; two semaphores stand for   *)
(* the one of each waiter.                                                 *)
Emulated(parts, drop) ==
  Life("scan", <<"slot">> \o parts, {parts[i] : i \in 1 .. Len(parts)}, drop \o <<"slot">>, {})
emulated_memory_pool_life == Emulated(<<"guard", "sem">>, <<"sem", "guard">>)
emulated_condvar_life == Emulated(<<"guard", "sem1", "sem2">>, <<"sem1", "sem2", "guard">>)
emulated_event_flags_life == Emulated(<<"guard", "sem1", "sem2">>, <<"sem1", "sem2", "guard">>)
emulated_rwlock_life == Emulated(<<"guard", "cv">>, <<"cv", "guard">>)
emulated_barrier_life == Emulated(<<"guard", "cv">>, <<"cv", "guard">>)
emulated_work_queue_life ==
  Emulated(<<"mtx", "not_empty", "flush_cv", "worker">>, <<"worker", "flush_cv", "not_empty", "mtx">>)
emulated_stream_buffer_life == Emulated(<<"data_sem", "space_sem">>, <<"data_sem", "space_sem">>)
emulated_message_buffer_life == Emulated(<<"data_sem", "space_sem">>, <<"data_sem", "space_sem">>)

(* The pthread objects POSIX, Linux and QNX share.                         *)
posix_condvar_life == Heap({"object"}, {})
posix_barrier_life == Heap({"object"}, {})
posix_rwlock_life == Heap({"object"}, {})

Lives ==
  {emulated_memory_pool_life, emulated_condvar_life, emulated_event_flags_life,
   emulated_rwlock_life, emulated_barrier_life, emulated_work_queue_life,
   emulated_stream_buffer_life, emulated_message_buffer_life,
   posix_condvar_life, posix_barrier_life, posix_rwlock_life,
   freertos_mutex_life, freertos_semaphore_life, freertos_queue_life,
   freertos_event_flags_life, freertos_stream_buffer_life,
   freertos_message_buffer_life, zephyr_mutex_life, zephyr_semaphore_life,
   zephyr_queue_life, zephyr_event_flags_life, zephyr_condvar_life,
   posix_mutex_life, posix_semaphore_life, posix_queue_life,
   posix_wait_set_life, linux_mutex_life, linux_semaphore_life,
   linux_queue_life, linux_wait_set_life, nuttx_mutex_life,
   nuttx_semaphore_life, nuttx_queue_life, nuttx_condvar_life,
   vxworks_mutex_life, vxworks_semaphore_life, vxworks_queue_life,
   vxworks_condvar_life, chibios_mutex_life, chibios_semaphore_life,
   chibios_queue_life, chibios_event_flags_life, chibios_condvar_life,
   embos_mutex_life, embos_semaphore_life, embos_queue_life,
   embos_event_flags_life, cmsis_rtos2_mutex_life,
   cmsis_rtos2_semaphore_life, cmsis_rtos2_queue_life,
   cmsis_rtos2_event_flags_life, cmsis_rtos2_memory_pool_life,
   micrium_mutex_life, micrium_semaphore_life, micrium_queue_life,
   micrium_event_flags_life, px5_mutex_life, px5_semaphore_life,
   px5_queue_life, px5_event_flags_life, px5_wait_set_life,
   threadx_mutex_life, threadx_semaphore_life, threadx_queue_life,
   threadx_event_flags_life, cmsis_rtos_mutex_life,
   cmsis_rtos_semaphore_life, cmsis_rtos_queue_life,
   cmsis_rtos_memory_pool_life, qnx_mutex_life, qnx_semaphore_life,
   qnx_queue_life, bare_metal_mutex_life, bare_metal_semaphore_life,
   bare_metal_queue_life, freertos_timer_life, zephyr_timer_life,
   posix_timer_life, linux_timer_life, qnx_timer_life, nuttx_timer_life,
   chibios_timer_life, embos_timer_life, cmsis_rtos2_timer_life,
   cmsis_rtos_timer_life, micrium_timer_life, px5_timer_life,
   threadx_timer_life, vxworks_timer_life, bare_metal_timer_life}

Slots == 1 .. NSlots
Acquired == {objLife.make[i] : i \in 1 .. Len(objLife.make)}

ObjInit ==
  /\ objLife \in Lives
  /\ objUsed = [s \in Slots |-> FALSE]
  /\ objShape = [s \in Slots |-> "none"]
  /\ objReg = [s \in Slots |-> NoAddress]
  /\ objTaken = {}
  /\ objPc = [h \in ObjHandles |-> "idle"]
  /\ objAt = [h \in ObjHandles |-> 1]
  /\ objHas = [h \in ObjHandles |-> {}]
  /\ objAddr = [h \in ObjHandles |-> NoAddress]
  /\ objWant = [h \in ObjHandles |-> "none"]
  /\ objHandle = [h \in ObjHandles |-> FALSE]

ObjAt(h, here) == objPc[h] = here
ObjGoto(h, there) == objPc' = [objPc EXCEPT ![h] = there]

(* The next of a sequence that is still to be acquired, or to be released. *)
FirstOf(seq, rest) == seq[CHOOSE i \in 1 .. Len(seq) : seq[i] \in rest /\ \A j \in 1 .. i - 1 : seq[j] \notin rest]
LastOf(seq, rest) == seq[CHOOSE i \in 1 .. Len(seq) : seq[i] \in rest /\ \A j \in i + 1 .. Len(seq) : seq[j] \notin rest]
ToMake(h) == FirstOf(objLife.make, Acquired \ objHas[h])
Making(h, what) == ObjAt(h, "make") /\ ToMake(h) = what

pool == <<objUsed, objShape, objReg, objTaken>>
-----------------------------------------------------------------------------
(* osal_*_create.                                                          *)
create(h) ==
  /\ ObjAt(h, "idle") /\ ~objHandle[h]
  /\ objAt' = [objAt EXCEPT ![h] = 1]
  /\ objHas' = [objHas EXCEPT ![h] = {}]
  /\ \E w \in IF objLife.pool = "probe" THEN Shapes ELSE {"none"} : objWant' = [objWant EXCEPT ![h] = w]
  /\ ObjGoto(h, "make")
  /\ UNCHANGED <<objLife, pool, objAddr, objHandle>>

(* What create does once it has obtained r: the last one sets the handle.  *)
Obtained(h, r) ==
  /\ objHas' = [objHas EXCEPT ![h] = @ \cup {r}]
  /\ IF objHas'[h] = Acquired
     THEN ObjGoto(h, "idle") /\ objHandle' = [objHandle EXCEPT ![h] = TRUE]
     ELSE ObjGoto(h, "make") /\ UNCHANGED objHandle
  /\ UNCHANGED <<objLife, objWant>>

(* out_of_resources: nothing is acquired yet.                              *)
NoSlot(h) ==
  /\ ObjGoto(h, "idle")
  /\ UNCHANGED <<objLife, pool, objAt, objHas, objAddr, objWant, objHandle>>

(* fr_pool_acquire, acquire_from_pool, the bit maps under bm_pool_guard.   *)
ClaimLocked(h) ==
  /\ objLife.pool = "locked" /\ Making(h, "slot")
  /\ IF \A s \in Slots : objUsed[s]
     THEN NoSlot(h)
     ELSE LET s == CHOOSE i \in Slots : ~objUsed[i] /\ \A j \in 1 .. i - 1 : objUsed[j]
          IN  /\ objUsed' = [objUsed EXCEPT ![s] = TRUE]
              /\ objAt' = [objAt EXCEPT ![h] = s]
              /\ Obtained(h, "slot")
              /\ UNCHANGED <<objShape, objReg, objTaken, objAddr>>

(* pool_acquire, slot_acquire: used.exchange(true), slot after slot.       *)
ClaimScan_TestThenSet(h) ==
  /\ objLife.pool = "scan" /\ Making(h, "slot")
  /\ \E s \in Slots : objAt' = [objAt EXCEPT ![h] = s] /\ objUsed' = [objUsed EXCEPT ![s] = TRUE]
  /\ Obtained(h, "slot")
  /\ UNCHANGED <<objShape, objReg, objTaken, objAddr>>

ClaimScan(h) ==
  /\ objLife.pool = "scan" /\ Making(h, "slot")
  /\ LET s == objAt[h]
     IN  IF ~objUsed[s]
         THEN /\ objUsed' = [objUsed EXCEPT ![s] = TRUE]
              /\ Obtained(h, "slot")
              /\ UNCHANGED <<objShape, objReg, objTaken, objAt, objAddr>>
         ELSE IF s = NSlots
         THEN NoSlot(h)
         ELSE /\ objAt' = [objAt EXCEPT ![h] = s + 1]
              /\ UNCHANGED <<objLife, pool, objPc, objHas, objAddr, objWant, objHandle>>

(* cmsis1_queue_acquire: active is exchanged, the slot looked at, and kept *)
(* if it has the queue that is asked for (first pass) or none (second).    *)
Probe(h) ==
  /\ objLife.pool = "probe" /\ (Making(h, "slot") \/ ObjAt(h, "second"))
  /\ LET s == objAt[h]
         second == ObjAt(h, "second")
     IN  IF ~objUsed[s]
         THEN /\ objUsed' = [objUsed EXCEPT ![s] = TRUE]
              /\ ObjGoto(h, IF second THEN "look_second" ELSE "look")
              /\ UNCHANGED objAt
         ELSE /\ UNCHANGED objUsed
              /\ IF s < NSlots
                 THEN objAt' = [objAt EXCEPT ![h] = s + 1] /\ UNCHANGED objPc
                 ELSE /\ objAt' = [objAt EXCEPT ![h] = 1]
                      /\ ObjGoto(h, IF second THEN "idle" ELSE "second")
  /\ UNCHANGED <<objLife, objShape, objReg, objTaken, objHas, objAddr, objWant, objHandle>>

Look(h) ==
  /\ objPc[h] \in {"look", "look_second"}
  /\ LET s == objAt[h]
         second == ObjAt(h, "look_second")
     IN  IF objShape[s] = IF second THEN "none" ELSE objWant[h]
         THEN /\ IF second
                 THEN ObjGoto(h, "make") /\ objHas' = [objHas EXCEPT ![h] = {"slot"}] /\ UNCHANGED objHandle
                 ELSE /\ ObjGoto(h, "idle")
                      /\ objHas' = [objHas EXCEPT ![h] = {"slot", "queue"}]
                      /\ objHandle' = [objHandle EXCEPT ![h] = TRUE]
              /\ objShape' = [objShape EXCEPT ![s] = objWant[h]]
              /\ UNCHANGED <<objUsed, objAt>>
         ELSE /\ objUsed' = [objUsed EXCEPT ![s] = FALSE]
              /\ objAt' = [objAt EXCEPT ![h] = IF s < NSlots THEN s + 1 ELSE 1]
              /\ ObjGoto(h, IF s < NSlots THEN IF second THEN "second" ELSE "make"
                            ELSE IF second THEN "idle" ELSE "second")
              /\ UNCHANGED <<objShape, objHas, objHandle>>
  /\ UNCHANGED <<objLife, objReg, objTaken, objAddr, objWant>>

(* new, or the kernel's own allocation.                                    *)
Allocate(h) ==
  /\ Making(h, "block")
  /\ \E a \in Addresses \ (objTaken \cup IF EarlyReuse THEN {} ELSE {objReg[s] : s \in Slots}) :
        objTaken' = objTaken \cup {a} /\ objAddr' = [objAddr EXCEPT ![h] = a]
  /\ Obtained(h, "block")
  /\ UNCHANGED <<objUsed, objShape, objReg, objAt>>

(* slot->id.store.                                                         *)
Register_Forgotten(h) ==
  /\ Making(h, "register")
  /\ Obtained(h, "register")
  /\ UNCHANGED <<objUsed, objShape, objReg, objTaken, objAt, objAddr>>

Register(h) ==
  /\ Making(h, "register")
  /\ objReg' = [objReg EXCEPT ![objAt[h]] = objAddr[h]]
  /\ Obtained(h, "register")
  /\ UNCHANGED <<objUsed, objShape, objTaken, objAt, objAddr>>

(* The calls that initialise a kernel object.                              *)
Initialise(h) ==
  /\ ObjAt(h, "make") /\ ToMake(h) \notin {"slot", "block", "register"}
  /\ Obtained(h, ToMake(h))
  /\ UNCHANGED <<pool, objAt, objAddr>>

(* The stream and message buffers ask for the second semaphore also when   *)
(* they did not get the first ...                                          *)
MakeFails(h) ==
  /\ ObjAt(h, "make") /\ ToMake(h) \in objLife.fails
  /\ ObjGoto(h, IF objHas[h] = {} THEN "idle" ELSE "undo")
  /\ \E also \in {{}, IF ToMake(h) = "data_sem" THEN {"space_sem"} ELSE {}} :
        objHas' = [objHas EXCEPT ![h] = @ \cup also]
  /\ UNCHANGED <<objLife, pool, objAt, objAddr, objWant, objHandle>>

-----------------------------------------------------------------------------
(* What releasing r does to the pool, the registry and the heap; a CMSIS-  *)
(* RTOS slot whose queue could not be made loses its shape.                *)
GiveBack(h, r) ==
  /\ objUsed' = IF r = "slot" THEN [objUsed EXCEPT ![objAt[h]] = FALSE] ELSE objUsed
  /\ objShape' = IF r = "slot" /\ ObjAt(h, "undo") THEN [objShape EXCEPT ![objAt[h]] = "none"] ELSE objShape
  /\ objReg' = IF r = "register" THEN [objReg EXCEPT ![objAt[h]] = NoAddress] ELSE objReg
  /\ IF r = "block"
     THEN objTaken' = objTaken \ {objAddr[h]} /\ objAddr' = [objAddr EXCEPT ![h] = NoAddress]
     ELSE UNCHANGED <<objTaken, objAddr>>
  /\ objHas' = [objHas EXCEPT ![h] = @ \ {r}]

(* The error paths of create.                                              *)
Undo_SlotLeaks(h) ==
  /\ ObjAt(h, "undo")
  /\ LET r == LastOf(objLife.make, objHas[h])
     IN  /\ GiveBack(h, r)
         /\ ObjGoto(h, IF objHas'[h] \ {"slot"} = {} THEN "idle" ELSE "undo")
  /\ UNCHANGED <<objLife, objAt, objWant, objHandle>>

(* ... which they then do not give back.                                   *)
Overlooked(h) == IF "data_sem" \in Acquired \ objHas[h] THEN {"space_sem"} ELSE {}

Undo(h) ==
  /\ ObjAt(h, "undo")
  /\ GiveBack(h, LastOf(objLife.make, objHas[h] \ Overlooked(h)))
  /\ ObjGoto(h, IF objHas'[h] \subseteq Overlooked(h) THEN "idle" ELSE "undo")
  /\ UNCHANGED <<objLife, objAt, objWant, objHandle>>

(* nx_sem_find, vx_sem_find: the first slot with this id.                  *)
sem_find(a) ==
  IF \E s \in Slots : objReg[s] = a
  THEN CHOOSE s \in Slots : objReg[s] = a /\ \A j \in 1 .. s - 1 : objReg[j] # a
  ELSE 0

(* osal_*_destroy.                                                         *)
destroy(h) ==
  /\ ObjAt(h, "idle") /\ objHandle[h]
  /\ IF "register" \in Acquired
     THEN /\ objAt' = [objAt EXCEPT ![h] = IF sem_find(objAddr[h]) = 0 THEN @ ELSE sem_find(objAddr[h])]
          /\ ObjGoto(h, IF sem_find(objAddr[h]) = 0 THEN "idle" ELSE "drop")
     ELSE ObjGoto(h, "drop") /\ UNCHANGED objAt
  /\ UNCHANGED <<objLife, pool, objHas, objAddr, objWant, objHandle>>

Dropped == {objLife.drop[i] : i \in 1 .. Len(objLife.drop)}
ToDrop(h) == FirstOf(objLife.drop, objHas[h])

Release_SlotFirst(h) ==
  /\ ObjAt(h, "drop")
  /\ GiveBack(h, FirstOf(objLife.make, objHas[h] \cap Dropped))
  /\ IF objHas'[h] \cap Dropped = {}
     THEN ObjGoto(h, "idle") /\ objHandle' = [objHandle EXCEPT ![h] = FALSE]
     ELSE UNCHANGED <<objPc, objHandle>>
  /\ UNCHANGED <<objLife, objAt, objWant>>

Release(h) ==
  /\ ObjAt(h, "drop")
  /\ GiveBack(h, ToDrop(h))
  /\ IF objHas'[h] \cap Dropped = {}
     THEN ObjGoto(h, "idle") /\ objHandle' = [objHandle EXCEPT ![h] = FALSE]
     ELSE UNCHANGED <<objPc, objHandle>>
  /\ UNCHANGED <<objLife, objAt, objWant>>

(* The kernel refuses, and the handle is kept for another attempt.         *)
ReleaseRefused(h) ==
  /\ ObjAt(h, "drop") /\ ToDrop(h) \in objLife.kept
  /\ ObjGoto(h, "idle")
  /\ UNCHANGED <<objLife, pool, objAt, objHas, objAddr, objWant, objHandle>>

ObjNext ==
  \E h \in ObjHandles :
     \/ create(h) \/ ClaimLocked(h) \/ ClaimScan(h) \/ Probe(h) \/ Look(h)
     \/ Allocate(h) \/ Register(h) \/ Initialise(h) \/ MakeFails(h) \/ Undo(h)
     \/ destroy(h) \/ Release(h) \/ ReleaseRefused(h)

ObjSpec == ObjInit /\ [][ObjNext]_objVars
-----------------------------------------------------------------------------
(* What a handle without an object may leave behind: the kernel object     *)
(* that nothing deletes, and the semaphore the error path overlooks.       *)
Remains == (Acquired \ Dropped) \cup ({"space_sem"} \cap Acquired)

HoldsSlot(h) == "slot" \in objHas[h] \/ objPc[h] \in {"look", "look_second"}

(* The shape of the state, and whole or nothing: between calls a handle    *)
(* that is set has everything create acquires, also after a destroy that   *)
(* the kernel refused, and one that is not set has nothing, also after a   *)
(* create that failed half-way.                                            *)
ObjWholeOrNothing ==
  /\ objLife \in Lives
  /\ objAt \in [ObjHandles -> Slots]
  /\ objShape \in [Slots -> Shapes \cup {"none"}]
  /\ objHandle \in [ObjHandles -> BOOLEAN]
  /\ \A h \in ObjHandles :
        /\ objHas[h] \subseteq Acquired
        /\ ObjAt(h, "idle") /\ objHandle[h] => objHas[h] = Acquired
        /\ ObjAt(h, "idle") /\ ~objHandle[h] => objHas[h] \subseteq Remains

(* No storage has two owners and none is lost: the used flags are exactly  *)
(* the slots that calls and handles hold, each by one; no object lives in  *)
(* a slot that another handle holds; and a CMSIS-RTOS handle's slot has    *)
(* the queue it asked for.                                                 *)
ObjExclusive ==
  /\ \A s \in Slots : objUsed[s] <=> \E h \in ObjHandles : HoldsSlot(h) /\ objAt[h] = s
  /\ \A h, g \in ObjHandles :
        h # g /\ HoldsSlot(h) /\ (HoldsSlot(g) \/ (objHas[g] # {} /\ "slot" \in Acquired /\ ~ObjAt(g, "idle")))
           => objAt[h] # objAt[g] \/ Making(g, "slot")
  /\ \A h \in ObjHandles : objHandle[h] /\ objLife.pool = "probe" => objShape[objAt[h]] = objWant[h]

(* A semaphore of NuttX or VxWorks finds its own slot by its pointer, so   *)
(* its count is its own.  Holds if an address is not handed out again      *)
(* before destroy, which frees it first, has cleared it in the registry.   *)
ObjFindsItself ==
  \A h \in ObjHandles :
     objHandle[h] /\ "register" \in Acquired /\ ObjAt(h, "idle") => sem_find(objAddr[h]) = objAt[h]
=============================================================================
