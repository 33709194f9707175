---------------------------- MODULE EventFlags ----------------------------
(***************************************************************************)
(* The emulated event flags of emulated_event_flags.inl.  Tasks set, clear *)
(* and wait under the guard mutex; osal_event_flags_set_isr does not take  *)
(* it and interleaves with every step of the others.                       *)
(*                                                                         *)
(* A step is one access to what set_isr also accesses.  Filling in a slot  *)
(* and releasing it are a step each although they write several atomics:   *)
(* set_isr reads waiter_count, active_waiter_words and in_use in the       *)
(* order opposite to the writes, so it sees all of them or none.           *)
(* Accesses are interleaved (sequential consistency).                      *)
(***************************************************************************)
EXTENDS Naturals, FiniteSets, FiniteSetsExt

CONSTANTS Threads,     \* tasks that call wait_any, wait_all, set and clear
          Isrs,        \* interrupt contexts that call set_isr
          Bits,        \* the flags
          MaxWaiters,  \* OSAL_EVENT_FLAGS_MAX_WAITERS
          Requests,    \* the waits tasks ask for
          NoThread

Timeouts == {"no_wait", "timed", "forever"}

ASSUME EventFlagsAssumption ==
  /\ Threads \cap Isrs = {} /\ NoThread \notin Threads \cup Isrs
  /\ MaxWaiters \in Nat \ {0}
  /\ Requests \subseteq [bits : SUBSET Bits, all : BOOLEAN, clear : BOOLEAN, timeout : Timeouts]

Slots == 1 .. MaxWaiters
NoSlot == 0
NoRequest == [bits |-> {}, all |-> FALSE, clear |-> FALSE, timeout |-> "no_wait"]
Actors == Threads \cup Isrs

VARIABLES guard,          \* the task that holds the mutex
          bits,           \* the flags that are set
          sem,            \* each slot's binary semaphore
          in_use, wake_pending, wait_bits, wait_all,   \* of each slot
          active,         \* active_waiter_words, as the set of marked slots
          waiter_count,
          pc,             \* where each actor is
          req,            \* the parameters of a task's wait
          my_slot,
          actual,         \* what *actual will be
          updated,        \* updated_bits of a set or set_isr
          todo            \* its active_slots

slotVars == <<sem, in_use, wake_pending, wait_bits, wait_all, active, waiter_count>>
waitVars == <<req, my_slot, actual>>
scanVars == <<updated, todo>>
vars == <<guard, bits, slotVars, pc, waitVars, scanVars>>

Goto(a, label) == pc' = [pc EXCEPT ![a] = label]

WaitLabels == {"claim", "publish", "recheck", "take", "woken", "reopen", "report", "clear", "release"}
SetLabels == {"count", "words", "look", "match", "exchange", "give"}

TypeOK ==
  /\ guard \in Threads \cup {NoThread}
  /\ bits \subseteq Bits
  /\ sem \in [Slots -> 0 .. 1]
  /\ in_use \in [Slots -> BOOLEAN] /\ wake_pending \in [Slots -> BOOLEAN]
  /\ wait_bits \in [Slots -> SUBSET Bits] /\ wait_all \in [Slots -> BOOLEAN]
  /\ active \subseteq Slots
  /\ waiter_count \in 0 .. MaxWaiters
  /\ pc \in [Actors -> {"idle"} \cup WaitLabels \cup SetLabels]
  /\ req \in [Threads -> Requests \cup {NoRequest}]
  /\ my_slot \in [Threads -> Slots \cup {NoSlot}]
  /\ actual \in [Threads -> SUBSET Bits]
  /\ updated \in [Actors -> SUBSET Bits]
  /\ todo \in [Actors -> SUBSET Slots]

(* osal_event_flags_create.                                                *)
Init ==
  /\ guard = NoThread
  /\ bits = {}
  /\ sem = [s \in Slots |-> 0]
  /\ in_use = [s \in Slots |-> FALSE] /\ wake_pending = [s \in Slots |-> FALSE]
  /\ wait_bits = [s \in Slots |-> {}] /\ wait_all = [s \in Slots |-> FALSE]
  /\ active = {} /\ waiter_count = 0
  /\ pc = [a \in Actors |-> "idle"]
  /\ req = [t \in Threads |-> NoRequest]
  /\ my_slot = [t \in Threads |-> NoSlot]
  /\ actual = [t \in Threads |-> {}]
  /\ updated = [a \in Actors |-> {}]
  /\ todo = [a \in Actors |-> {}]

(* emu_ef_waiter_matches, and matched() of emu_ef_wait.                    *)
Matches(wanted, all, set) == IF all THEN wanted \subseteq set ELSE wanted \cap set # {}
Matched(t) == Matches(req[t].bits, req[t].all, bits)

emu_ef_claim_waiter_slot == Min(Slots \ active)

-----------------------------------------------------------------------------
(* emu_ef_wait: the quick check under the guard, the refusal of a call     *)
(* that must not wait, and the choice of the lowest free slot.             *)
Wait(t) ==
  /\ pc[t] = "idle" /\ guard = NoThread
  /\ \E q \in Requests :
       /\ \/ /\ Matches(q.bits, q.all, bits)
             /\ req' = [req EXCEPT ![t] = q]
             /\ guard' = t /\ Goto(t, "report")
             /\ UNCHANGED my_slot
          \/ /\ ~Matches(q.bits, q.all, bits)
             /\ q.timeout # "no_wait"
             /\ active # Slots
             /\ req' = [req EXCEPT ![t] = q]
             /\ guard' = t /\ Goto(t, "claim")
             /\ my_slot' = [my_slot EXCEPT ![t] = emu_ef_claim_waiter_slot]
          \/ /\ ~Matches(q.bits, q.all, bits)
             /\ q.timeout = "no_wait" \/ active = Slots
             /\ UNCHANGED <<guard, pc, req, my_slot>>
  /\ UNCHANGED <<bits, slotVars, actual, scanVars>>

(* A token left by an earlier wake-up is drained before the slot is filled.*)
Claim(t) ==
  /\ pc[t] = "claim"
  /\ sem' = [sem EXCEPT ![my_slot[t]] = 0]
  /\ wait_bits' = [wait_bits EXCEPT ![my_slot[t]] = req[t].bits]
  /\ wait_all' = [wait_all EXCEPT ![my_slot[t]] = req[t].all]
  /\ Goto(t, "publish")
  /\ UNCHANGED <<guard, bits, in_use, wake_pending, active, waiter_count, waitVars, scanVars>>

(* Variant: wake_pending keeps its old value.                              *)
Publish_KeepsPending(t) ==
  /\ pc[t] = "publish"
  /\ in_use' = [in_use EXCEPT ![my_slot[t]] = TRUE]
  /\ active' = active \cup {my_slot[t]}
  /\ waiter_count' = waiter_count + 1
  /\ Goto(t, "recheck")
  /\ UNCHANGED <<guard, bits, sem, wake_pending, wait_bits, wait_all, waitVars, scanVars>>

Publish(t) ==
  /\ pc[t] = "publish"
  /\ wake_pending' = [wake_pending EXCEPT ![my_slot[t]] = FALSE]
  /\ in_use' = [in_use EXCEPT ![my_slot[t]] = TRUE]
  /\ active' = active \cup {my_slot[t]}
  /\ waiter_count' = waiter_count + 1
  /\ Goto(t, "recheck")
  /\ UNCHANGED <<guard, bits, sem, wait_bits, wait_all, waitVars, scanVars>>

(* Variant: the second check is forgotten.                                 *)
Recheck_None(t) ==
  /\ pc[t] = "recheck"
  /\ guard' = NoThread /\ Goto(t, "take")
  /\ UNCHANGED <<bits, slotVars, waitVars, scanVars>>

(* The check after registration, for bits set by an interrupt meanwhile.   *)
Recheck(t) ==
  /\ pc[t] = "recheck"
  /\ IF Matched(t)
       THEN Goto(t, "report") /\ UNCHANGED guard
       ELSE Goto(t, "take") /\ guard' = NoThread
  /\ UNCHANGED <<bits, slotVars, waitVars, scanVars>>

(* The semaphore is taken, or a timed take gives up.                       *)
Take(t) ==
  /\ pc[t] = "take"
  /\ \/ sem[my_slot[t]] = 1 /\ sem' = [sem EXCEPT ![my_slot[t]] = 0]
     \/ req[t].timeout = "timed" /\ UNCHANGED sem
  /\ Goto(t, "woken")
  /\ UNCHANGED <<guard, bits, in_use, wake_pending, wait_bits, wait_all, active, waiter_count>>
  /\ UNCHANGED <<waitVars, scanVars>>

Woken(t) ==
  /\ pc[t] = "woken" /\ guard = NoThread
  /\ guard' = t
  /\ Goto(t, IF Matched(t) THEN "report" ELSE "reopen")
  /\ UNCHANGED <<bits, slotVars, waitVars, scanVars>>

(* Variant: the waiter goes back to sleep with wake_pending still set.     *)
Reopen_KeepsPending(t) ==
  /\ pc[t] = "reopen"
  /\ Goto(t, "recheck")
  /\ UNCHANGED <<guard, bits, slotVars, waitVars, scanVars>>

(* A token that did not help: the slot accepts the next one, and the bits  *)
(* are checked once more before the task sleeps again.                     *)
Reopen(t) ==
  /\ pc[t] = "reopen"
  /\ wake_pending' = [wake_pending EXCEPT ![my_slot[t]] = FALSE]
  /\ Goto(t, "recheck")
  /\ UNCHANGED <<guard, bits, sem, in_use, wait_bits, wait_all, active, waiter_count, waitVars, scanVars>>

(* Variant: the guard is released before the bits are cleared.             *)
Report_Unlocks(t) ==
  /\ pc[t] = "report"
  /\ actual' = [actual EXCEPT ![t] = bits]
  /\ guard' = NoThread
  /\ Goto(t, "clear")
  /\ UNCHANGED <<bits, slotVars, req, my_slot, scanVars>>

(* *actual, then the bits that were asked for are cleared, whatever they   *)
(* are by then.                                                            *)
Report(t) ==
  /\ pc[t] = "report"
  /\ actual' = [actual EXCEPT ![t] = bits]
  /\ Goto(t, "clear")
  /\ UNCHANGED <<guard, bits, slotVars, req, my_slot, scanVars>>

Clear(t) ==
  /\ pc[t] = "clear"
  /\ bits' = IF req[t].clear THEN bits \ req[t].bits ELSE bits
  /\ Goto(t, "release")
  /\ UNCHANGED <<guard, slotVars, waitVars, scanVars>>

(* release_waiter, on a call that has a slot.                              *)
ReleaseWaiter(t) ==
  /\ wake_pending' = [wake_pending EXCEPT ![my_slot[t]] = FALSE]
  /\ in_use' = [in_use EXCEPT ![my_slot[t]] = FALSE]
  /\ active' = active \ {my_slot[t]}
  /\ waiter_count' = waiter_count - 1
  /\ my_slot' = [my_slot EXCEPT ![t] = NoSlot]
  /\ UNCHANGED <<sem, wait_bits, wait_all>>

Return(t) ==
  /\ Goto(t, "idle")
  /\ req' = [req EXCEPT ![t] = NoRequest]
  /\ actual' = [actual EXCEPT ![t] = {}]

(* wait returns ok.                                                        *)
Release(t) ==
  /\ pc[t] = "release"
  /\ IF my_slot[t] = NoSlot THEN UNCHANGED <<slotVars, my_slot>> ELSE ReleaseWaiter(t)
  /\ guard' = NoThread
  /\ Return(t)
  /\ UNCHANGED <<bits, scanVars>>

(* The deadline has passed before the next take: wait returns timeout.     *)
Expire(t) ==
  /\ pc[t] = "take" /\ guard = NoThread
  /\ req[t].timeout = "timed"
  /\ ReleaseWaiter(t)
  /\ Return(t)
  /\ UNCHANGED <<guard, bits, scanVars>>

-----------------------------------------------------------------------------
(* The atomic OR with which a set begins: a task's under the guard, which  *)
(* it keeps until the waiters have been told, an interrupt's without.      *)
SetBits(a) ==
  /\ pc[a] = "idle"
  /\ \E b \in SUBSET Bits \ {{}} :
       /\ bits' = bits \cup b
       /\ updated' = [updated EXCEPT ![a] = bits \cup b]
  /\ Goto(a, "count")
  /\ UNCHANGED <<slotVars, waitVars, todo>>

osal_event_flags_set(t) == guard = NoThread /\ guard' = t /\ SetBits(t)
osal_event_flags_set_isr(i) == UNCHANGED guard /\ SetBits(i)

(* Locals that are dead are reset, so that states do not differ in them.   *)
EndSet(a) ==
  /\ Goto(a, "idle")
  /\ guard' = IF a \in Threads THEN NoThread ELSE guard
  /\ updated' = [updated EXCEPT ![a] = {}]

(* emu_ef_wake_matching: nothing to do while nobody waits.                 *)
ReadCount(a) ==
  /\ pc[a] = "count"
  /\ IF waiter_count = 0 THEN EndSet(a) ELSE Goto(a, "words") /\ UNCHANGED <<guard, updated>>
  /\ UNCHANGED <<bits, slotVars, waitVars, todo>>

(* emu_ef_wake_matching_common goes over the slots that are marked active  *)
(* when it reads the word, from the lowest.                                *)
Scan(a, slots) ==
  /\ todo' = [todo EXCEPT ![a] = slots]
  /\ IF slots = {} THEN EndSet(a) ELSE Goto(a, "look") /\ UNCHANGED <<guard, updated>>

Current(a) == Min(todo[a])

ReadWords(a) ==
  /\ pc[a] = "words"
  /\ Scan(a, active)
  /\ UNCHANGED <<bits, slotVars, waitVars>>

(* in_use, then the predicate, then the exchange of wake_pending: the      *)
(* first that says no ends the work on this slot.                          *)
OrNextSlot(a, yes, label) ==
  IF yes THEN Goto(a, label) /\ UNCHANGED <<guard, scanVars>> ELSE Scan(a, todo[a] \ {Current(a)})

Look(a) ==
  /\ pc[a] = "look"
  /\ OrNextSlot(a, in_use[Current(a)], "match")
  /\ UNCHANGED <<bits, slotVars, waitVars>>

Match(a) ==
  /\ pc[a] = "match"
  /\ LET s == Current(a)
     IN  OrNextSlot(a, Matches(wait_bits[s], wait_all[s], updated[a]), "exchange")
  /\ UNCHANGED <<bits, slotVars, waitVars>>

Exchange(a) ==
  /\ pc[a] = "exchange"
  /\ OrNextSlot(a, ~wake_pending[Current(a)], "give")
  /\ wake_pending' = [wake_pending EXCEPT ![Current(a)] = TRUE]
  /\ UNCHANGED <<bits, sem, in_use, wait_bits, wait_all, active, waiter_count, waitVars>>

(* A give to a binary semaphore that is full changes nothing.              *)
GiveSlot(a) ==
  /\ pc[a] = "give"
  /\ sem' = [sem EXCEPT ![Current(a)] = 1]
  /\ Scan(a, todo[a] \ {Current(a)})
  /\ UNCHANGED <<bits, in_use, wake_pending, wait_bits, wait_all, active, waiter_count, waitVars>>

(* osal_event_flags_clear.                                                 *)
osal_event_flags_clear(t) ==
  /\ pc[t] = "idle" /\ guard = NoThread
  /\ \E b \in SUBSET Bits \ {{}} : bits' = bits \ b
  /\ UNCHANGED <<guard, slotVars, pc, waitVars, scanVars>>

-----------------------------------------------------------------------------
WaitStep(t) ==
  \/ Claim(t) \/ Publish(t) \/ Recheck(t) \/ Take(t) \/ Woken(t) \/ Reopen(t)
  \/ Report(t) \/ Clear(t) \/ Release(t)

SetStep(a) ==
  \/ ReadCount(a) \/ ReadWords(a) \/ Look(a) \/ Match(a) \/ Exchange(a) \/ GiveSlot(a)

Next ==
  \/ \E t \in Threads :
       \/ Wait(t) \/ WaitStep(t) \/ Expire(t)
       \/ osal_event_flags_set(t) \/ osal_event_flags_clear(t)
  \/ \E i \in Isrs : osal_event_flags_set_isr(i)
  \/ \E a \in Actors : SetStep(a)

Spec == Init /\ [][Next]_vars

(* A call runs on unless it is blocked; a task blocked on the guard gets   *)
(* it eventually, since the mutex queues its waiters.                      *)
FairSpec ==
  /\ Spec
  /\ \A a \in Actors : WF_vars(SetStep(a))
  /\ \A t \in Threads : WF_vars(WaitStep(t)) /\ SF_vars(Woken(t))

-----------------------------------------------------------------------------
(* Threads that have a slot registered, and those asleep on its semaphore. *)
Registered(t) == my_slot[t] # NoSlot /\ pc[t] \notin {"claim", "publish"}
Asleep(t) == pc[t] = "take"
Setting(a) == pc[a] \in SetLabels

(* The three records of who waits, in_use, active_waiter_words and         *)
(* waiter_count, agree, and a slot has one owner at a time, so that the    *)
(* fast path of set never overlooks a waiter.                              *)
SlotsMatchWaiters ==
  /\ active = {my_slot[t] : t \in {u \in Threads : Registered(u)}}
  /\ \A s \in Slots : in_use[s] <=> s \in active
  /\ waiter_count = Cardinality({t \in Threads : Registered(t)})
  /\ \A t, u \in Threads : t # u /\ my_slot[t] # NoSlot => my_slot[t] # my_slot[u]

(* No sleeper is deaf: wake_pending, which makes later sets skip a slot,   *)
(* is only up while the token it stands for is there or about to be given. *)
PendingMeansToken ==
  \A t \in Threads :
    Asleep(t) /\ wake_pending[my_slot[t]] /\ sem[my_slot[t]] = 0 =>
      \E a \in Actors : pc[a] = "give" /\ Current(a) = my_slot[t]

(* The object is well formed between any two steps of tasks and interrupts. *)
WellFormed == TypeOK /\ SlotsMatchWaiters /\ PendingMeansToken

(* No set is lost between wait's check and its sleep: a task that sleeps   *)
(* although its bits are set has a token, or a set is still under way.     *)
NoLostWakeup ==
  \A t \in Threads :
    Asleep(t) /\ Matched(t) /\ sem[my_slot[t]] = 0 => \E a \in Actors : Setting(a)

(* The bits a wait with clear_on_exit returns satisfy its request and are  *)
(* still set when it clears them: no other wait has been given them too.   *)
DeliveredOnce ==
  \A t \in Threads :
    pc[t] = "clear" =>
      /\ Matches(req[t].bits, req[t].all, actual[t])
      /\ actual[t] \cap req[t].bits \subseteq bits

(* No set is lost on its way to a waiter: nobody sleeps while its bits are *)
(* set, a wait that clears is given bits that no other wait was given, and *)
(* in_use, active_waiter_words and waiter_count agree on who waits.        *)
FlagsReachWaiters == WellFormed /\ NoLostWakeup /\ DeliveredOnce

(* A task does not stay inside wait for ever while its bits stay set.      *)
SatisfiedReturns ==
  \A t \in Threads : ~<>[](pc[t] \in WaitLabels /\ Matched(t))
=============================================================================
