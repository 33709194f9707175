# TLA+ models of MicrOSAL

MicrOSAL is a C++20 layer over the primitives of some seventeen operating
systems. A backend (`src/src/<os>/`) maps `osal_*` calls onto the system's own
threads, mutexes, semaphores, queues and timers. What the system does not have
is emulated once, in `src/src/common/emulated_*.inl`, from the backend's mutex,
semaphore, clock and thread. The classes in `src/include/osal/` wrap the calls,
and some of them (delayable work, notification, wait sets, the bus) are small
concurrent algorithms of their own.

The models follow these three layers. The emulations are shared by most backends
and are lock-and-semaphore algorithms whose faults need several threads and an
unlucky order. The header-only classes add callbacks, generations and reference
counts. The backends do the same thing in up to fifteen ways, which are held
against one statement of what they promise.

All paths below are relative to the directory that contains `tla/` and `src/`.

## 1. Inventory

| Part | State | Operations | What is hard | Modules |
| --- | --- | --- | --- | --- |
| Memory pool (`emulated_memory_pool.inl`) | bitmap, `available`, counting semaphore | allocate, allocate_timed, deallocate | the semaphore is taken before and given after the guard; double free | MemoryPool, PoolBitmap |
| Condition variable (`emulated_condvar.inl`, `condvar.hpp`) | waiter slots, one binary semaphore each | wait, notify_one, notify_all, predicate waits | notification between unlock and take, time-outs, reuse of a slot, no free slot | Condvar and its users |
| Read-write lock (`emulated_rwlock.inl`) | reader count, writer flag, condvar | lock and unlock for reading and writing | who is woken, failing waits | RwLock |
| Barrier (`emulated_barrier.inl`) | arrivals, generation, condvar | wait | a round overtaking the previous one | Barrier |
| Work queue (`emulated_work_queue.inl`) | ring, counting semaphore, sequence numbers, condvar, worker thread | submit, cancel_all, flush, destroy | cancel_all against the worker, shutdown | WorkQueue |
| Event flags (`emulated_event_flags.inl`) | atomic bits, waiter slots | wait_any, wait_all, set, set_isr, clear | set_isr takes no lock | EventFlags |
| Stream and message buffers (`emulated_stream_buffer.inl`, `emulated_message_buffer.inl`) | SPSC ring, two binary semaphores | send, receive, their `_isr` forms, reset | lock-free ring, trigger level, two sleepers | ByteBuffer |
| Creation and destruction, emulated and native | static pools, kernel objects, heap | create, destroy | a creation that fails half-way, slots claimed by two | BackendObjects |
| Delayable work (`delayable_work.hpp`) | state and generation in one atomic, timer, work queue | schedule, reschedule, cancel, flush, timer callback, work | late expiries; failing timer and queue calls | DelayableWork |
| Notification and object wait set (`notification.hpp`, `object_wait_set.hpp`) | slots, mutex, condvar; entries | notify, reset, wait; add, remove, wait | probe and clear are two calls | WaitSet |
| Stop token and wait signal (`stop_token.hpp`, `wait_signal.hpp`) | list of callbacks; generation, semaphore | request_stop, register, close; notify, wait | unregistering a running callback; stale permits | StopToken, WaitSignal |
| Thread-local data (`thread_local_data.hpp`) | key mask, generations | acquire, release, set, get | key reuse | ThreadLocal |
| Signals (`bus/`) | subscriber slots, queues, reference-counted pool | subscribe, publish, receive, loans | receive blocks outside the lock | SignalBus |
| Topics and routes (`bus/topic_registry.hpp`, `bus/osal_signal_premium.hpp`) | entries, observers, route count | register, dispatch, observe, bind, route | observers call back into all of it | TopicRouting |
| Native semaphores, mutexes, queues, event flags | kernel object, shadow counts, rings, mailboxes | give, take, lock, send, receive, peek, set, wait | two counts, two mailboxes, two calls for what is documented as one | BackendSemaphore, BackendMutex, BackendQueue, BackendEventFlags |
| Native threads | pool slots, contexts | create, join, detach, suspend, resume, end | who frees what a thread runs on | BackendThread |
| Native timers | armed state, watcher thread, gate | start, stop, reset, set_period, destroy, expiry | expiry against each of the others | BackendTimer, FreeRtosTimer |
| Native work queues (pthread, Zephyr, NuttX) | ring or entries, worker | submit, flush, cancel_all, destroy | markers and entries under a running worker | NativeWorkQueue |
| Capabilities (`capabilities.hpp`) | flags | none | which operations exist | Capabilities |
| Clock and time-outs, spinlock, task notification, ring buffer, bus backends of others | none or the kernel's | conversions, single calls | section 8 | none |

`PROJECT.json` lists every part with its files, and the hazards of each part at
the line where they bite.

## 2. How code becomes steps

- What a thread does between locking and unlocking a guard mutex is one step.
  Every semaphore operation outside such a section is a step of its own, and so
  is every point where a thread can block.
- In `EventFlags` the interrupt takes no lock, so every access it shares with
  the tasks is a step. In `ByteBuffer` every byte copied, index stored and
  semaphore given is a step. In `DelayableWork` the timer callback and the worker
  take no lock, so the accesses of callers, callbacks and worker to the state
  word are steps; two accesses share a step only where nobody can tell. In the
  modules of the backends a kernel call is one step, and so is every atomic
  access and every section under a lock.
- A primitive that fifteen backends provide is one module. The state machine has
  a step for each thing some backend does, and a record for each backend says
  which of them its source takes, with which answers and in which order. `Init`
  chooses the backend. RTEMS and INTEGRITY include the POSIX source and share its
  record.
- Interleaving is sequentially consistent. The acquire and release orders in the
  code are not modelled; section 8 says where that matters.
- A time-out is a nondeterministic choice: a timed wait may give up at any
  moment. Only `DelayableWork`, whose timer callback compares times, has a clock.
- Null-handle and argument checks at the top of the functions, which return
  before any state is read, are left out.
- Variables that no program state corresponds to (who holds what, which items
  were executed, what a flush missed) are ghosts; no guard reads them, except
  that a caller does not lock again what it holds and that some of them are
  bounded.

A definition named after another one with a suffix such as `_NoDrain` is the
same operation with one mistake in it. It is used to check
that a property would notice the mistake; no specification refers to it.

## 3. Modules

| Module | Models | Notes |
| --- | --- | --- |
| `MemoryPool` | allocate, allocate_timed, deallocate | the bitmap is a set of blocks |
| `PoolBitmap` | `pool_bitmap_alloc`, `pool_bitmap_free`, word mask, first free bit | words of `WordBits` bits instead of 32; checked against a plain set |
| `Condvar` | the five steps of `osal_condvar_wait`, the two notifications | extended by `CondvarClient`, `CondvarPredicate`, `RwLock`, `Barrier`, `WorkQueue`, `WaitSet` |
| `CondvarClient` | callers that wait and notify in any order | shown to implement `AbstractCondvar` |
| `AbstractCondvar` | what a condition variable promises | wait releases the mutex and sleeps in one step |
| `CondvarPredicate` | producers and consumers using `wait(m, pred)` and `wait_for(m, d, pred)` of `condvar.hpp` | |
| `RwLock` | the four calls | guard mutex is the condvar's mutex |
| `Barrier` | `osal_barrier_wait` | generation counted modulo `GenMod` |
| `WaitSet` | notification slots over `Condvar`, and the object wait set that polls them | one thread, `Watcher`, owns the wait set |
| `WorkQueue` | submit, cancel_all, flush, worker, destroy | flush waits on `Condvar` |
| `EventFlags` | waits, set, set_isr, clear | slots as in the code, lowest first |
| `ByteBuffer` | both buffers over one ring | `kind` is chosen in `Init` |
| `DelayableWork` | schedule, reschedule, cancel, flush, timer callback, worker | timer and queue are contracts whose calls may fail |
| `StopToken`, `WaitSignal` | request_stop, registration and close; the wait that a stop ends | `WaitSignal` extends `StopToken` |
| `ThreadLocal` | keys, generations, set and get | portable, bare-metal and FreeRTOS storage |
| `SignalBus` | generic and zero-copy signals | messages are numbers, so that any two can be told apart |
| `TopicRouting` | topic registry, observers, routes | a task has a stack of calls, because observers call back |
| `Capabilities` | the flags of each backend | used by `BackendThread` and `BackendMutex` |
| `BackendSemaphore` | give and take | count in the kernel, in an atomic, or in both |
| `BackendMutex` | lock, try_lock, unlock through `osal::mutex`; owners that die | the record says what a lock by the owner does: nest, nest unreported, deadlock, report the deadlock, or succeed without a lock |
| `BackendQueue` | send, receive, peek and `_isr` forms | kernel queue, monitor, two mailboxes, or counted; shown to implement `AbstractQueue` |
| `AbstractQueue` | what `osal::queue` promises | a bounded FIFO |
| `BackendEventFlags` | native set, clear and waits | eight backends; a set releases every wait it satisfies, and the record says who clears and when |
| `BackendObjects` | create and destroy, 90 pairs of functions | one record each: what is acquired and released, in order |
| `BackendThread` | create, join, detach, suspend, resume, the trampolines | five ways to own a thread's memory |
| `BackendTimer`, `FreeRtosTimer` | the timer calls, the expiry, the callback that uses its own timer | time is "a full period has passed" |
| `NativeWorkQueue` | the pthread, Zephyr and NuttX work queues | |
| `*Proofs` | theorems | see section 6 |
| `MC*` | instances for TLC | |

An `MC` module with a variable `part` holds several systems side by side; a
behaviour is one of one of them, the variables of the others stay as they began,
and a property speaks of each part. This asks one question of several similar
systems in one run.

`Condvar` is composed with its users by EXTENDS: the user's step that calls
`osal_condvar_wait` conjoins `WaitCall`, and the thread then runs through
`WaitStep` while the user's variables stay unchanged. The mutex passed to wait
is the user's own guard, so all of them share the variable `mutex`.

`WorkQueue` takes `JoinKind`, because `osal_thread_join` differs between
backends. It waits on FreeRTOS, CMSIS-RTOS2, QNX, bare metal, Zephyr and
ChibiOS. It terminates the thread on ThreadX, PX5, Micrium, embOS and VxWorks.
It returns not_supported on CMSIS-RTOS.

The semaphores the emulations are built from are modelled by their contract: a
give at the maximum leaves the count alone and reports overflow, which every
caller here ignores. `BackendSemaphore` shows what of that contract each backend
keeps.

## 4. Runs

| Run | Instance | What it shows |
| --- | --- | --- |
| `memory_pool` | pool: 3 callers, 2 blocks, any block may be freed at any time; bitmap: 7 blocks in words of 3 bits; buffers: capacity 4, trigger 3, chunks of 1 and 3 bytes, header of 1 byte | tokens are conserved and the branch marked "Should not happen" is dead; no block has two owners unless a caller freed what it did not hold; the words behave as a set; bytes arrive in order, untorn and once, and nobody sleeps through them |
| `condvar` | 3 threads, 2 slots: arbitrary callers, or the read-write lock | no lost and no stale wakeup; refinement of `AbstractCondvar`; writers are alone and nobody waits on a free lock |
| `condvar_predicate` | 3 threads, 3 slots: producers and consumers of 3 items, a barrier over 3 rounds with generations modulo 2, a notification of 2 slots with a waiter for each, a wait set of 2 entries | nobody sleeps beside what it waits for, nothing is erased unreported; rounds stay apart; waiters are released |
| `condvar_full` | predicate waits with 1 slot | **violated**: see section 7 |
| `work_queue` | 2 clients, ring of 2, 3 items, join waits | tokens cover items whatever cancel_all races; each item executed once and in order, or cancelled; flush and destroy keep their promises and end |
| `work_queue_terminating_join` | join terminates | **violated**: see section 7 |
| `event_flags` | 2 tasks, 1 interrupt, 2 flags, 2 slots | nobody sleeps while its bits are set, unless a set is still under way; bits that a wait clears were given to no other wait; a satisfied wait returns |
| `delayable_work` | 2 callers, 1 callback context, delays 0 and 1, 2 arms, clock up to 2, any timer or queue call may fail | no expiry enqueues before the delay in force has passed; a cancelled item does not run; flush reports a failed submission; a pending item becomes idle again |
| `native_sync` | 15 backends; semaphore: 2 tasks, maximum 2, 2 attempts of the swap; mutex: 3 tasks, nesting 2; queue: 2 tasks and interrupts, 2 items, capacity 2; event flags: 2 tasks, 2 flags, 6 requests | counts keep to the maximum; the locks a task was told of are the locks it has; every queue is a FIFO; no wait clears a flag that nobody was told of; nobody waits for what is there (the last two with the exceptions of section 7) |
| `native_state` | objects: 90 life cycles, 3 handles, 2 slots, 3 addresses; threads: 3 threads, 2 handles, 2 slots; thread-local: 2 threads with 2 lives, 2 slots, 3 keys; signals: 2 readers, 2 slots, queues of 2, pool of 2, 3 messages; routing: 2 tasks, 2 topics, 2 entries, ids modulo 3, 1 observer | create and destroy leave all or nothing and nobody shares a slot; a thread's memory is there while it runs and gone afterwards; keys keep apart; readers get what was published to them, once and in order; topics and registries stay while they are routed through and cycles of routes end |
| `thread_local_reuse` | the portable storage of the above | **violated**: see section 7 |
| `native_services` | timers of 14 backends with one user and the callback; FreeRTOS timer with a daemon queue of 3; work queues of depth 2 with 2 tasks and 3 jobs; a waiter, a requester, a producer and 3 owners of callbacks | after close nothing runs and nothing is referred to; a stop holds; a start is answered once; no accepted job is lost; a flush means done; calls return |

### Why the bounds are enough

Three threads are the fewest that let one thread be in the middle of an
operation while two others complete theirs, and a slot or block be reused in
between. The condition variable has fewer slots than threads where the full
case matters and one per thread where it must not interfere. The work queue's
ring is smaller than the number of items, so its indices wrap; a third item
after a cancel_all is what exposes a tail or token left behind. The barrier's
generation wraps within the run. Two flags are needed for wait_all to be woken
in vain; one interrupt is enough because set_isr changes shared state in every
step it makes. The ring of four bytes is the smallest that holds a message with
its header and still has to wrap in the middle of one; `ByteValues` bounds the
distinct values written, so that a stale byte is told from a fresh one.
Two arms of a delayable item are what a stale expiry needs: one whose callback
is interrupted after its test of the time, and one that replaces it. The clock
then has to pass one delay and start the other, hence two ticks. The run has one
callback context, as with a timer task or a timer interrupt.

The backends need little, because what each of them shares is one object. Two
tasks and a maximum of two let a give meet a full count while a take is between
its two counters; for the mutex a third task sees what an owner that died left.
A queue of two wraps its ring and lets one index be copied while the other is
posted. Two slots, three handles and three addresses let a slot or an address
pass from one owner to another while a third create searches. Three threads on
two handles and two slots let a thread end after its handle serves another.
Three keys on two slots, and a second life of a thread, are what reuse needs;
generations are bounded by the keys and do not wrap. The bus has as many slots as readers, and queues of two beside three messages:
a queue holds two messages whose order can be wrong, a publish still meets a
full one, and a subscriber finds a slot that another has left.
With two topics a route from the one can come back from the other,
two entries of a registry are enough for the cycle, and a second task unregisters
and unbinds in between; the counter of ids ends after two. Lists of observers
have one member, so the order in which several are called is not explored. The
states of this run are explored up to a permutation of two tasks and of two
handles or topics: no step of these modules orders them. The
work queues have more jobs than places. What is proved in section 6 holds without
these bounds.

Deadlock checking is off where all callers may simply be done or blocked
legitimately: callers waiting in allocate_timed while others keep all blocks,
waits that nobody notifies, a destroyed work queue, finished rounds of the
barrier, a stream consumer below its trigger, a delayable item at rest, objects
that have been destroyed, threads that have ended, a queue nobody sends to.

### Fairness

A thread inside a call keeps running when it is not blocked (weak fairness of
the steps of a call): the schedulers of the backends run ready threads. A thread
that waits for a mutex which is released again and again gets it (strong
fairness of the steps that begin with a lock): the mutexes of the backends queue
their waiters. The exception is the bare-metal mutex, a flag tested in a loop,
which only gives this because its tasks yield to each other in turn. The
worker's callback returns. In `DelayableWork` time passes, a timer that is due
fires and its callback runs. Nobody is ever assumed to call anything.

For the native objects the kernel's part is fair: a task it has made ready runs,
a semaphore, queue or mutex that is available again and again is eventually given
to a task that waits for it (strong fairness of the taking step: the kernels
queue their waiters; the polling designs of bare metal, ChibiOS and CMSIS-RTOS
get it only in so far as the poll is not always late), the FreeRTOS daemon
executes its commands, and workers return from their callbacks. The pass of a
wait set is strongly fair because it begins with the mutex of the notification.

## 5. Properties

Each module has one type invariant, which is a conjunct of one of its other
properties. The properties a run checks are composed from those of the modules:

- conservation: `SemSaysSlotFree`, `TokenSurplus`, `SemBounded`,
  `ObjWholeOrNothing` (between calls a handle has everything that create acquires, or
  nothing), `ThreadMemoryIsExact`, `WkqKeepsItsWord`
- exclusion and ownership: `ExclusiveOwnership`, `ExclusionWithReason`,
  `MtxToldTheTruth`, `ObjectsAreTheirOwners`, `TlsOwnValue`, `BusIsSound`
  (reference counts are the holders; a routed topic and its registry are held)
- wakeups: `SlotsAndWakeupsAreExact`, `NoEventIsLost`,
  `NoSenderOrReceiverForgotten`, `FlagsReachWaiters`, `NoSetSwallowed`
- order: `EveryItemOnce`, `RendezvousIsExact`, `BytesDeliveredInOrder`,
  `BitmapIsASet`, `QueWellFormed`
- late events: `NeverEarly`, `CancelledStaysCancelled`, `FlushReportsFailure`,
  `TimOncePerStart`, `ServicesObey`
- shutdown: `DestroyDrains`, `ClosedIsQuiet`
- progress: `SatisfiedCallsReturn`, `WaitersAreServed`, `WaitersAreReleased`,
  `CallsReturn`, `SatisfiedReturns`, `PendingEnds`, `NobodyWaitsInVain`,
  `ServicesReturn`
- refinement: `CallersImplementCondvar`, `ImplementsQueue`. A refinement cannot
  see a call that maps to a stuttering step, so `CallersImplementCondvar` asks in
  addition that each call take the step of the operation it implements.

## 6. Proofs

`MemoryPoolProofs`, for every finite set of threads and every block count. The
inductive invariant `IInv` is the type invariant, `Accounting` and
`SemSaysSlotFree`. `SemSaysSlotFree` alone is not inductive: that a take means a
free block needs the number of tokens in flight. `Accounting` says that the
semaphore's count, the callers between take and bitmap, the callers between
bitmap and give, and the set bits add up to the block count. From it follows
that a caller with a token finds a clear bit, and that a give never meets the
maximum. `ExclusiveOwnershipHolds` is a second induction, relative to the first,
in which a block on its way back to the pool is still owned.

`WorkQueueProofs`, for every depth, every finite set of clients and any number of
condvar slots. `TokenInv` is the types of five variables, the relation between
the stop flag, the phase of destroy and the worker, and `TokenSurplus`, for every
kind of join. The surplus of tokens over items is 0 or 1 before a stop is
requested and 1 or 2 after it: cancel_all cannot take back the token the worker
has in its hand, and never takes more than it discards. It follows that the
worker is never blocked beside an item or a request to stop
(`NeverAsleepWithWorkHolds`). `EveryItemOnceHolds` assumes a join that does not
terminate the worker (section 7 shows that the other kind breaks it). Its
invariant `ItemInv` says where every accepted sequence number is: the ring holds
the last `count` of them at head, head + 1, ... modulo the depth (`RingInv`), at
most one is with the worker, and each earlier one was executed or cancelled once
and in order (`Placed`); and what a flush waits for covers every item accepted
before the flush was called that is still alive (`FlushInv`).
`DestroyDrainsHolds` assumes the join that waits.

`CondvarSlots` and `CondvarProofs`, for any number of threads and slots.
`SlotIInv` holds whoever the callers are: types, slots in use are those of the
threads in wait (`SlotsMatchWaiters`), and a token is there exactly for a
signalled waiter that has not taken it (`WakeupsAreExact`). It is proved once, in
`CondvarSlots`, and every user of the condition variable below rests on it.
`CvIInv` adds who owns the caller's mutex, which is what the refinement needs:
the step in which wait releases the mutex is the abstract step, because a thread
about to release it owns it. `CondvarIsExact` and `CondvarRefines` follow; the
mapping takes a waiter that nobody signalled, between locking the mutex again and
releasing its slot, to the abstract state "leaving". `RwIInv` adds to `SlotIInv`
that a thread inside a lock call holds nothing (`CallersHoldNothing`), and proves
`Exclusion` together with `WaitersHaveAReason`: neither is inductive without the
other, since a waiter's reason is that the counters are the holders.
`WakeupsAreExactForAll` puts the two kinds of caller together, as the run
`condvar` does. The refinement is proved of `CondvarClient` only; that the calls
of the read-write lock take the steps of the operations they implement
(`CallersImplementCondvar`) is left to the run.

`CondvarUserProofs` proves the users with a loop around wait.

- `RendezvousHolds`, the barrier, under `FullHouse`: as many threads as the
  barrier's count, and a slot for each. Without a slot a call returns
  out_of_resources and its arrival stays counted, so the hypothesis is the code's
  own. `BarrierInv` counts: every thread has passed each completed rendezvous or
  is about to (`RoundsCounted`), and all but one of each return ok (`OksCounted`).
  The generation wraps at any modulus above one: a thread of the previous
  rendezvous has not left while all others are needed for the next.
- `NoStrandedConsumerHolds`, the waits with a predicate: while anybody is asleep
  there is an active thread for every item (`PredInv`), one that has been
  signalled, has not yet called wait or has yet to notify.
- `NoEventIsLostHolds` joins it with the notification and the wait set, for
  arbitrary registrations. `NoteInv` says that whoever waits for a pending slot
  has been signalled. `ScanInv` says that a pass has at most one find per entry
  probed, and that between its read and its clear of a notification the last find
  names that slot; so with room for every entry the report has all that was
  cleared.

`EventFlagsProofs`, for any number of tasks, interrupts, flags and slots, in
which every shared access is a step. `EfInv` says who holds the guard, that the
active slots are those of the registered waits, one each, and that
`wake_pending` is up without a token only while somebody is about to give it
(`TokenInv`). `WakeInv` strengthens the property: a sleeping waiter whose bits
are set has a token, or there is a task or an interrupt whose scan will still
come past its slot, with bits that satisfy it, or that is about to give.
`FlagsReachWaitersHolds` follows.

The buffers are in `MemoryPoolProofs` too, for all capacities, header sizes,
lengths and wrap-arounds. `BufInv` says that the bytes from tail to head are the
frames sent and not received, in order (`RingHolds`, with the offset of each
frame as a witness), that a send which found room keeps it and has its frame in
place when it stores head (`ProducerHas`), and that a receive in progress takes
the oldest bytes or message (`ConsumerHas`). For the wakeups it says that a side
that sleeps beside what it waits for has the other on its way to the give.
`BytesDeliveredInOrderHolds` and `NoSenderOrReceiverForgottenHolds` follow.

`NativeProofs` has the objects of the backends, for all backends at once.

- `MtxToldTheTruthHolds` and `MtxExclusionHolds`: `MtxIInv` adds that a free
  mutex has depth zero, that a nested lock in progress stays below the bound, and
  that Micrium tells of the outermost lock only. Both theorems leave out what
  section 7 says of QNX.
- `NoSetSwallowedHolds`: `EvtIInv` adds that only the backends with a clear of
  its own are ever about to clear, and that what they are about to clear has been
  reported (`evtGot` and the unseen flags are apart).
- `SemBoundedHolds`: `SemIInv` adds where a task can be between the two counts;
  the proof is an account of how many are.
- `ThreadMemoryIsExactHolds`: `ThrInv` says for each of the five ways to own a
  thread's memory who still has a share in it at every place of the thread and
  of the calls on its handle.
- `TlsOwnValueHolds`: `TlsIInv` says that keys alive have different slots, that
  the generation a thread has stored is never ahead of the slot's
  (`SeenIsPast`), and that a value of the current generation was set through the
  key that has the slot now (`CurrentIsOwn`). The order of the two steps of
  release does not disturb this, only the promise that a value stays
  (section 7). The part about other keys leaves out FreeRTOS, the part about
  other threads bare metal.

`BackendQueueProofs` proves that the four designs implement `AbstractQueue`, for
any capacity, any number of tasks and items. `QueIInv` says that every index of
the store is in one place (free, ready or in one task's hands: `IndicesApart`),
that a ready index names an item and a posted one the sender's (`StoreFilled`),
that a call that sends or has received holds an item (`HandsFull`), and that each
design keeps to its own places in a call (`PlacesFit`).

The proofs rest on the named assumptions on the constants (finite sets of
threads, positive counts, values that stand for nothing), which TLC evaluates in
the runs, and on nothing else.

Only model-checked, because they are out of the prover's reach: every liveness
property (they rest on fairness and ENABLED); facts that need induction over
data, such as the words of the pool's bitmap; and operators declared RECURSIVE,
which the modules with theorems avoid. Only model-checked, though within reach:
`DelayableWork`, `StopToken`, `SignalBus`, `TopicRouting`, the well-formedness of
the backends' queues beyond their refinement, the calls of the read-write lock as
condition-variable operations, and the life cycles, timers and work queues of the
backends.

## 7. Where code and documentation disagree

1. `condvar_full`: when all waiter slots are in use, `osal_condvar_wait`
   (`src/src/common/emulated_condvar.inl:200`) returns out_of_resources without
   releasing the mutex. `condvar::wait(m, pred)` ignores the result and loops,
   so it spins with the mutex held and nobody can make its predicate true.
2. `work_queue_terminating_join`: on five backends `osal_thread_join` terminates
   the thread, so `osal_work_queue_destroy` drops the items it is documented to
   drain.
3. `thread_local_reuse`: `tls_registry::release` clears the slot's bit and then
   advances its generation (`src/include/osal/thread_local_data.hpp:121`). A key
   that takes the slot in between loses the value its owner has just set.

Some properties are stated with exceptions, because the code needs them:

- `PendingEnds` leaves out items whose thunk cancel_all discarded, which stay
  queued (`delayable_work.hpp:334`), and items for which the timer refused a
  stop: an expiry that was dropped while the state was stopping is gone, and the
  item stays armed without a timer (`delayable_work.hpp:143` and `:180`).
- `FlushReportsFailure` counts a failure only when the arm in force was accepted.
  When `timer_.start()` fails after the word was published
  (`delayable_work.hpp:325`), an expiry of an earlier arm that is still on its
  way can queue the item although schedule returned an error, and its own error
  path can store idle over a later state. Nor does the property count a failure
  after another flush took the flag: consume_dispatch_error takes flag and code
  in two exchanges, so that flush may return the code of a newer failure, and
  the flush after it then finds the flag up and returns the code ok.
- `AbstractCondvar` lets a notification be spent on a waiter that has timed out
  and is leaving, where `condvar.hpp:196` promises that one waiter is woken.
- `NoEventIsLost`: a wait set clears the objects of all ready entries but reports
  at most `max_ready` of them (`object_wait_set.hpp:305`), so the property is
  about callers that ask for every entry.
- `ObjWholeOrNothing` exempts the space semaphore of the stream and message
  buffers, which a failed create keeps (`emulated_stream_buffer.inl:232`,
  `emulated_message_buffer.inl:225`).
- `ObjectsAreTheirOwners` assumes (`EarlyReuse = FALSE`) that the address of a
  deleted semaphore is not handed out before destroy has cleared the table
  (`nuttx_backend.cpp:546`, `vxworks_backend.cpp:493`).
- `ThreadMemoryIsExact` does not ask for the memory of a bare-metal thread
  detached after its end, nor on ChibiOS without `CH_CFG_USE_WAITEXIT`.
- `NoSetSwallowed`: on Zephyr (`zephyr_backend.cpp:1366`) and embOS the clear is
  a call of its own, and on Micrium the kernel consumes the flags when the
  released task runs. A flag set again in between is cleared, and the property
  leaves that set out (`event_flags.hpp:141`: "If true, atomically clears the
  waited bits."). A set of one flag may release several waits that clear it, on
  every kernel that looks at all waiters before it clears; that is theirs to
  decide, and the property does not ask otherwise.
- `MtxToldTheTruth`: QNX drops the result of `pthread_mutex_lock`
  (`qnx_backend.cpp:477`), so the owner of a normal mutex who locks it again may
  be told ok although nothing was locked, and its first unlock then lets another
  task in. On Micrium a nested lock is counted by the kernel and answered with
  unknown, and its unlock with not_owner, so a task can have more locks than it
  was told of. Each half of the property leaves out the one of the two that
  breaks it.
- A recursive mutex does not nest on NuttX (`nuttx_backend.cpp:395` ignores the
  flag), on bare metal, and on ChibiOS unless it is configured to: the owner
  waits for itself, where `mutex.hpp:67` says "re-entrant lock by the same thread
  increments a counter". The model has that wait; no property is about it.
- `NobodyWaitsInVain` assumes (`PeekMayWait = FALSE`) that nobody peeks with a
  time-out while others receive: on NuttX the signal of a send can wake the
  peeker, which leaves the item, and the receiver sleeps on
  (`nuttx_backend.cpp:943`, reached from `osal_c_queue_peek`).
- `TimOncePerStart`: on Linux, CMSIS-RTOS2, PX5 and ThreadX a set_period that
  looks and then acts can start a one-shot timer that has just expired
  (`OneShotFiresOnce`). On POSIX, bare metal, PX5 and ThreadX a start racing the
  expiry, or made in the callback, can be forgotten (`StartedTimerExpires`).
- `WkqKeepsItsWord` and `ServicesObey` are about the pthread and the Zephyr queue.
  NuttX's destroy cancels what is queued, its cancel_all frees the entry of a job
  that the worker has taken, and entries of jobs that ran stay in use
  (`RefusedOnlyWhenFull`). `ServicesReturn` leaves out the flush of the pthread
  queue: cancel_all can drop the marker it waits for, and without a time-out it
  then hangs.
- `ServicesObey` asks that a stop hold of the backends whose callback looks at the
  active flag again, or runs with the task interrupted; on the others an expiry
  that the kernel has dispatched still comes.
- `TlsOwnValue`: on FreeRTOS the slots have no generations and a new key may find
  an old key's pointer; on bare metal a new task may find an old task's.

Observed while reading or modelling, without a run:

- The guards (`src/include/osal/rwlock.hpp:152`) drop the result of the lock
  call. When it fails, the scope runs without the lock and the destructor
  unlocks what somebody else may hold.
- `notify_one` may pick a waiter that has timed out and not yet released its
  slot (`emulated_condvar.inl:246`); waiters that test a predicate are unharmed.
  It picks the lowest slot, not the one that has waited longest.
- A barrier with more threads than condvar slots plus one fails with the arrival
  still counted (`emulated_barrier.inl:155`).
- A flush succeeds for items that cancel_all discarded, once a later item has
  been executed (`emulated_work_queue.inl:346`).
- A flag that an interrupt sets between the read of `*actual` and the clear is
  cleared without having been reported (`emulated_event_flags.inl:263`).
- The message buffer's send_isr has no check of the length against the header's
  type, which send has (`emulated_message_buffer.inl:348`).
- `stream_buffer::receive` returns fewer bytes than the trigger level when the
  caller's buffer is smaller.
- On FreeRTOS `osal_timer_set_period` of a stopped timer ends with a stop that
  can undo a concurrent start (`freertos_backend.cpp:1519`).
- A delayable work item whose timer fires before the monotonic clock has
  advanced by the delay drops the expiry and stays armed
  (`delayable_work.hpp:276`); the modelled timer is never early.
- `semaphore::try_give` answers false when a give meets a count that a take has
  not settled yet, on the backends with two counts, and when its attempts run
  out (`semaphore.hpp:205`); `queue::try_send` answers false on CMSIS-RTOS when
  the kernel queue is not full (`cmsis_rtos_backend.cpp:735`, against
  `queue.hpp:170`: "false if the queue was full.").
- On FreeRTOS set_isr of the event flags is pended to the timer daemon.
- A NuttX join that fails frees the handle, and `thread.hpp` still says that it
  is valid.
- Zephyr's cancel_all can leave an entry in use that was submitted again while
  its previous handler was returning.
- An observer that has been unsubscribed may still be called once, from the
  snapshot of a publish in progress (`osal_signal_premium.hpp:289`).

## 8. What is not modelled

- Weak memory. The order of the store of a waiter's registration before the load
  of the bits in event flags (`emulated_event_flags.inl:294`) needs more than
  release and acquire on a machine with several cores; the backends whose flags
  may be set from interrupts have one.
- Time, outside `DelayableWork`. Remaining time-outs and tick arithmetic are
  abstracted to "may expire", and so the conversions of `clock.hpp` and
  `backend_timeout_adapter.hpp`, which have no state, are left out, as is
  `wait_until` of the condition variable, a loop over `wait_for`.
- Calls that only pass on to the kernel or to the C library, whose state is not
  this code's: waiting on native condition variables, on pthread barriers and
  read-write locks, on `epoll` or a kernel's wait set, native memory pools,
  FreeRTOS stream and message buffers, task notification, spinlocks, pthread
  keys. The creation and destruction of these objects is in `BackendObjects`.
- `ring_buffer.hpp`, the index scheme of `ByteBuffer` without its semaphores.
- The guards of `rwlock.hpp`, and the handles of `osal_c.cpp` for notification
  and delayable work, which repeat the algorithms of the classes.
- Bus backends that delegate to zbus or to another bus, and the mock.
- The values in notification slots and the order in which several observers are
  called: nothing branches on them.
- The queries (`available`, `pending`, `get`): they read under the same lock, or
  one atomic, and change nothing.
- Misuse that the documentation excludes: several producers on a stream buffer,
  reset during a transfer, destroy or close during a call, an observer that
  publishes to its own topic directly, a timer callback that uses a timer being
  closed.
- Failures the code does not look at: a kernel that refuses to delete an object
  where the result is ignored, message queues of NuttX that report an error,
  locks and condition variables of `stop_token.hpp` that cannot be created.
- Wrapping of the generations in `SignalBus` and `ThreadLocal`: the models stop
  before it, and a stale id that outlives a full turn is not looked at.
- More than one low-priority worker thread on NuttX.

The timers have one task and the callback as users, and handles of threads and
objects belong to one caller at a time, as the documentation of the classes asks.
