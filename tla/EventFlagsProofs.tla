-------------------------- MODULE EventFlagsProofs --------------------------
(***************************************************************************)
(* The emulated event flags reach their waiters, for any number of tasks,  *)
(* interrupts, flags, slots and kinds of request.                          *)
(***************************************************************************)
EXTENDS EventFlags, FiniteSetTheorems, WellFoundedInduction, TLAPS

(* The labels at which a task holds the guard.                             *)
Holding ==
  {"claim", "publish", "recheck", "reopen", "report", "clear", "release"} \cup SetLabels

(* The labels of a scan that has read the words.                           *)
Scanning == {"look", "match", "exchange", "give"}

(* The labels at which a wait has a slot, whatever it was given before.    *)
Slotted == {"claim", "publish", "recheck", "take", "woken", "reopen"}

(* The guard is held by the task that is between two calls on it.          *)
GuardInv == \A t \in Threads : guard = t <=> pc[t] \in Holding

(* Interrupts do not wait, only waits have slots, and only scans have      *)
(* slots left to visit.                                                    *)
PcInv ==
  /\ \A i \in Isrs : pc[i] \notin WaitLabels
  /\ \A t \in Threads :
        /\ pc[t] \in Slotted => my_slot[t] # NoSlot
        /\ pc[t] \notin WaitLabels => my_slot[t] = NoSlot
  /\ \A a \in Actors : pc[a] \in Scanning <=> todo[a] # {}

Waiters == {t \in Threads : Registered(t)}

(* The slots marked active are those of the registered waits, one each,    *)
(* and the count is their number; a slot being filled in is not marked yet *)
(* and a filled slot says what its owner asked for.                        *)
SlotInv ==
  /\ \A t \in Waiters : my_slot[t] \in active
  /\ \A s \in active : \E t \in Waiters : my_slot[t] = s
  /\ \A t \in Threads : pc[t] \in {"claim", "publish"} => my_slot[t] \notin active
  /\ \A t, u \in Threads : t # u /\ my_slot[t] # NoSlot => my_slot[t] # my_slot[u]
  /\ \A s \in Slots : in_use[s] <=> s \in active

CountInv == waiter_count = Cardinality(active)

AskedInv ==
  \A t \in Threads :
    my_slot[t] # NoSlot /\ pc[t] # "claim" =>
      /\ wait_bits[my_slot[t]] = req[t].bits
      /\ wait_all[my_slot[t]] = req[t].all

(* Actor a is about to give slot s its token.                              *)
Giving(a, s) == pc[a] = "give" /\ Current(a) = s

(* wake_pending is up without a token only while one is about to be given. *)
TokenInv ==
  \A t \in Threads :
    pc[t] \in {"recheck", "take"} /\ wake_pending[my_slot[t]] /\ sem[my_slot[t]] = 0 =>
      \E a \in Actors : Giving(a, my_slot[t])

(* The scan of actor a will come past the slot of t, with bits that t      *)
(* waits for, or is about to give it its token.                            *)
Coming(a, t) ==
  /\ Matches(req[t].bits, req[t].all, updated[a])
  /\ pc[a] \in {"count", "words"} \/ my_slot[t] \in todo[a]

WakeInv ==
  \A t \in Threads :
    Asleep(t) /\ Matched(t) /\ sem[my_slot[t]] = 0 =>
      \E a \in Actors : Coming(a, t) \/ Giving(a, my_slot[t])

(* A task that is about to report bits still has them when it clears them. *)
ReportInv ==
  \A t \in Threads :
    /\ pc[t] = "report" => Matched(t)
    /\ pc[t] = "clear" =>
         /\ Matches(req[t].bits, req[t].all, actual[t])
         /\ actual[t] \cap req[t].bits \subseteq bits

EfInv ==
  /\ TypeOK /\ GuardInv /\ PcInv /\ SlotInv /\ CountInv /\ AskedInv
  /\ TokenInv /\ WakeInv /\ ReportInv

-----------------------------------------------------------------------------
(*                        Lemmas about the operators                       *)

(* A set of numbers that is not empty has a lowest one.                    *)
LEMMA MinIsLowest ==
  ASSUME NEW S, S \subseteq Nat, S # {}
  PROVE  Min(S) \in S
  <1> DEFINE Below == {p \in Nat \X Nat : p[1] < p[2]}
  <1>1. IsWellFoundedOn(Below, Nat)
    BY NatLessThanWellFounded, Zenon DEF OpToRel
  <1> HIDE DEF Below
  <1>2. PICK n \in S : \A m \in S : <<m, n>> \notin Below
    BY <1>1, WFMin, Zenon
  <1>3. \A m \in S : m < n => <<m, n>> \in Below
    BY Zenon DEF Below
  <1>4. \A m \in S : ~(m < n)
    BY <1>2, <1>3, Zenon
  <1>5. \A m \in S : n =< m
    BY <1>4
  <1> QED
    BY <1>5, Zenon DEF Min

(* A scan is always at one of the slots it has left.                       *)
LEMMA CurrentIsLeft ==
  ASSUME TypeOK, PcInv, NEW a \in Actors, pc[a] \in Scanning
  PROVE  Current(a) \in todo[a] /\ Current(a) \in Slots
  <1>1. todo[a] # {} /\ todo[a] \subseteq Slots
    BY Zenon DEF TypeOK, PcInv
  <1>2. todo[a] \subseteq Nat
    BY <1>1, EventFlagsAssumption DEF Slots
  <1> QED
    BY <1>1, <1>2, MinIsLowest, Zenon DEF Current

(* emu_ef_claim_waiter_slot finds a slot that is free.                     *)
LEMMA ClaimedIsFree ==
  ASSUME TypeOK, active # Slots
  PROVE  emu_ef_claim_waiter_slot \in Slots \ active
  <1>1. Slots \ active # {}
    BY Zenon DEF TypeOK
  <1>2. Slots \ active \subseteq Nat
    BY EventFlagsAssumption DEF Slots
  <1> QED
    BY <1>1, <1>2, MinIsLowest, Zenon DEF emu_ef_claim_waiter_slot

(* More flags satisfy no fewer requests.                                   *)
LEMMA MatchesGrows ==
  ASSUME NEW wanted, NEW all, NEW s1, NEW s2, s1 \subseteq s2, Matches(wanted, all, s1)
  PROVE  Matches(wanted, all, s2)
  BY Zenon DEF Matches

(* What a task asks for are flags.                                         *)
LEMMA RequestTypes ==
  ASSUME TypeOK, NEW t \in Threads
  PROVE  req[t].bits \subseteq Bits /\ req[t].all \in BOOLEAN
  <1>1. ASSUME req[t] = NoRequest
        PROVE  req[t].bits \subseteq Bits /\ req[t].all \in BOOLEAN
    BY <1>1 DEF NoRequest
  <1>2. ASSUME req[t] \in Requests
        PROVE  req[t].bits \subseteq Bits /\ req[t].all \in BOOLEAN
    <2>1. req[t] \in [bits : SUBSET Bits, all : BOOLEAN, clear : BOOLEAN, timeout : Timeouts]
      BY <1>2, EventFlagsAssumption, Zenon
    <2> QED
      BY <2>1, Zenon
  <1> QED
    BY <1>1, <1>2, Zenon DEF TypeOK

(* No slot is NoSlot, and no interrupt is a task.                          *)
LEMMA Distinct ==
  /\ NoSlot \notin Slots
  /\ Threads \subseteq Actors /\ Isrs \subseteq Actors
  /\ NoThread \notin Threads /\ \A i \in Isrs : i \notin Threads
  BY EventFlagsAssumption DEF NoSlot, Slots, Actors

(* As many slots are marked as waits are registered.                       *)
LEMMA WaitersCounted ==
  ASSUME TypeOK, SlotInv
  PROVE  /\ IsFiniteSet(active) /\ Cardinality(active) \in 0 .. MaxWaiters
         /\ IsFiniteSet(Waiters) /\ Cardinality(Waiters) = Cardinality(active)
  <1>1. IsFiniteSet(Slots) /\ Cardinality(Slots) = MaxWaiters
    BY FS_Interval, EventFlagsAssumption DEF Slots
  <1>2. IsFiniteSet(active) /\ Cardinality(active) <= MaxWaiters
    BY <1>1, FS_Subset, Zenon DEF TypeOK
  <1>3. Cardinality(active) \in 0 .. MaxWaiters
    BY <1>2, FS_CardinalityType, EventFlagsAssumption
  <1> DEFINE slotOf == [t \in Waiters |-> my_slot[t]]
  <1>4. slotOf \in Injection(Waiters, active)
    BY Zenon DEF SlotInv, Waiters, Registered, Injection, IsInjective
  <1>5. slotOf \in Surjection(Waiters, active)
    BY <1>4, Zenon DEF SlotInv, Surjection, Injection
  <1> QED
    BY <1>2, <1>3, <1>4, <1>5, FS_Injection, Zenon

(* A step that registers and releases nobody keeps the slots.              *)
LEMMA SlotsKept ==
  ASSUME SlotInv, CountInv, AskedInv,
         UNCHANGED <<in_use, active, waiter_count, wait_bits, wait_all, req, my_slot>>,
         \A t \in Threads : /\ pc'[t] = "claim" <=> pc[t] = "claim"
                            /\ pc'[t] = "publish" <=> pc[t] = "publish"
  PROVE  SlotInv' /\ CountInv' /\ AskedInv'
  <1>1. Waiters' = Waiters
    BY Zenon DEF Waiters, Registered
  <1>2. SlotInv'
    BY <1>1, Zenon DEF SlotInv
  <1>3. CountInv'
    BY Zenon DEF CountInv
  <1>4. AskedInv'
    BY Zenon DEF AskedInv
  <1> QED
    BY <1>2, <1>3, <1>4, Zenon

(* A step that neither exchanges a wake_pending nor gives keeps TokenInv.  *)
LEMMA TokensKept ==
  ASSUME TokenInv, UNCHANGED <<sem, wake_pending>>,
         \A t \in Threads : pc'[t] \in {"recheck", "take"} =>
                              pc[t] \in {"recheck", "take"} /\ my_slot'[t] = my_slot[t],
         \A a \in Actors : pc[a] = "give" => pc'[a] = "give" /\ todo'[a] = todo[a]
  PROVE  TokenInv'
  BY DEF TokenInv, Giving, Current

(* A step that sets nothing and is not one of a scan keeps WakeInv.        *)
LEMMA WakesKept ==
  ASSUME WakeInv, UNCHANGED <<sem, updated, todo>>, bits' \subseteq bits,
         \A t \in Threads : pc'[t] = "take" =>
            pc[t] = "take" /\ my_slot'[t] = my_slot[t] /\ req'[t] = req[t],
         \A a \in Actors : pc[a] \in SetLabels => pc'[a] = pc[a]
  PROVE  WakeInv'
  <1> SUFFICES ASSUME NEW t \in Threads, Asleep(t)', Matched(t)', (sem[my_slot[t]] = 0)'
               PROVE  \E a \in Actors : (Coming(a, t) \/ Giving(a, my_slot[t]))'
    BY Zenon DEF WakeInv
  <1>1. pc[t] = "take" /\ my_slot'[t] = my_slot[t] /\ req'[t] = req[t]
    BY Zenon DEF Asleep
  <1>2. Matched(t)
    BY <1>1, MatchesGrows, Zenon DEF Matched
  <1>3. PICK a \in Actors : Coming(a, t) \/ Giving(a, my_slot[t])
    BY <1>1, <1>2, Zenon DEF WakeInv, Asleep
  <1>4. Coming(a, t) => Coming(a, t)'
    BY <1>1, Zenon DEF Coming, SetLabels
  <1>5. Giving(a, my_slot[t]) => Giving(a, my_slot[t])'
    BY <1>1, Zenon DEF Giving, Current, SetLabels
  <1> QED
    BY <1>3, <1>4, <1>5, Zenon

(* A step that clears nothing keeps what others are about to report.       *)
LEMMA ReportsKept ==
  ASSUME ReportInv, bits \subseteq bits',
         \A t \in Threads : pc'[t] \in {"report", "clear"} =>
            pc[t] = pc'[t] /\ req'[t] = req[t] /\ actual'[t] = actual[t]
  PROVE  ReportInv'
  <1> SUFFICES ASSUME NEW t \in Threads
               PROVE  /\ pc'[t] = "report" => Matched(t)'
                      /\ pc'[t] = "clear" =>
                           /\ Matches(req'[t].bits, req'[t].all, actual'[t])
                           /\ actual'[t] \cap req'[t].bits \subseteq bits'
    BY Zenon DEF ReportInv
  <1>1. ASSUME pc'[t] = "report" PROVE Matched(t)'
    BY <1>1, MatchesGrows, Zenon DEF ReportInv, Matched
  <1>2. ASSUME pc'[t] = "clear"
        PROVE  /\ Matches(req'[t].bits, req'[t].all, actual'[t])
               /\ actual'[t] \cap req'[t].bits \subseteq bits'
    BY <1>2, Zenon DEF ReportInv
  <1> QED
    BY <1>1, <1>2, Zenon

-----------------------------------------------------------------------------
(*                  The initial state and the steps of wait                *)

(* A new object has no flags, no waiters and nobody inside a call.         *)
LEMMA EfInitHolds == Init => EfInv
  <1> SUFFICES ASSUME Init PROVE EfInv
    BY Zenon
  <1>1. TypeOK
    BY EventFlagsAssumption DEF Init, TypeOK, Slots, NoSlot
  <1>2. GuardInv
    BY Distinct, Zenon DEF Init, GuardInv, Holding, SetLabels
  <1>3. PcInv
    BY Distinct, Zenon DEF Init, PcInv, WaitLabels, Slotted, Scanning
  <1>4. Waiters = {}
    BY Zenon DEF Init, Waiters, Registered
  <1>5. SlotInv
    BY <1>4, Distinct, Zenon DEF Init, SlotInv
  <1>6. CountInv
    BY FS_EmptySet, Zenon DEF Init, CountInv
  <1>7. AskedInv
    BY Zenon DEF Init, AskedInv
  <1>8. TokenInv
    BY Distinct, Zenon DEF Init, TokenInv
  <1>9. WakeInv
    BY Distinct, Zenon DEF Init, WakeInv, Asleep
  <1>10. ReportInv
    BY Distinct, Zenon DEF Init, ReportInv
  <1> QED
    BY <1>1, <1>2, <1>3, <1>5, <1>6, <1>7, <1>8, <1>9, <1>10, Zenon DEF EfInv

(* A step that changes nothing.                                            *)
LEMMA EfStutters ==
  ASSUME EfInv, UNCHANGED vars
  PROVE  EfInv'
  <1> USE DEF EfInv, vars, slotVars, waitVars, scanVars
  <1>1. TypeOK' /\ GuardInv' /\ PcInv'
    BY Zenon DEF TypeOK, GuardInv, PcInv
  <1>2. SlotInv' /\ CountInv' /\ AskedInv'
    BY SlotsKept, Zenon
  <1>3. TokenInv'
    BY TokensKept, Zenon
  <1>4. WakeInv'
    BY WakesKept, Zenon
  <1>5. ReportInv'
    BY ReportsKept, Zenon
  <1> QED
    BY <1>1, <1>2, <1>3, <1>4, <1>5, Zenon

(* The quick check of wait: at once satisfied, or with a slot of its own.  *)
LEMMA WaitKeeps ==
  ASSUME EfInv, NEW t \in Threads, Wait(t)
  PROVE  EfInv'
  <1> USE DEF EfInv
  <1>0. pc[t] = "idle" /\ guard = NoThread /\ my_slot[t] = NoSlot /\ t \in Actors
    BY Distinct, Zenon DEF Wait, PcInv, WaitLabels
  <1>1. PICK q \in Requests : Wait(t)!2!(q)
    BY Zenon DEF Wait
  <1>2. ASSUME Matches(q.bits, q.all, bits), req' = [req EXCEPT ![t] = q],
               guard' = t, Goto(t, "report"), UNCHANGED my_slot
        PROVE  EfInv'
    <2>0. UNCHANGED <<bits, slotVars, actual, scanVars>>
      BY Zenon DEF Wait
    <2> USE <1>0, <1>2, <2>0 DEF slotVars, scanVars
    <2>1. TypeOK'
      BY Zenon DEF TypeOK, Goto, WaitLabels
    <2>2. GuardInv'
      BY Distinct, Zenon DEF TypeOK, GuardInv, Goto, Holding, SetLabels
    <2>3. PcInv'
      BY Distinct, Zenon DEF TypeOK, PcInv, Goto, WaitLabels, Slotted, Scanning
    <2>4. SlotInv' /\ CountInv' /\ AskedInv'
      <3>1. Waiters' = Waiters
        BY DEF TypeOK, Waiters, Registered, Goto
      <3>2. SlotInv'
        BY <3>1 DEF TypeOK, SlotInv, Goto
      <3>3. CountInv'
        BY Zenon DEF CountInv
      <3>4. AskedInv'
        BY DEF TypeOK, AskedInv, Goto
      <3> QED
        BY <3>2, <3>3, <3>4, Zenon
    <2>5. TokenInv'
      BY TokensKept, Distinct, Zenon DEF TypeOK, Goto
    <2>6. WakeInv'
      BY WakesKept, Distinct, Zenon DEF TypeOK, Goto, SetLabels
    <2>7. ReportInv'
      <3>1. \A u \in Threads \ {t} : pc[u] \notin {"report", "clear"}
        BY Distinct, Zenon DEF GuardInv, Holding
      <3>2. Matched(t)'
        BY Zenon DEF TypeOK, Matched
      <3> QED
        BY <3>1, <3>2 DEF TypeOK, ReportInv, Goto
    <2> QED
      BY <2>1, <2>2, <2>3, <2>4, <2>5, <2>6, <2>7, Zenon
  <1>3. ASSUME active # Slots, req' = [req EXCEPT ![t] = q], guard' = t, Goto(t, "claim"),
               my_slot' = [my_slot EXCEPT ![t] = emu_ef_claim_waiter_slot]
        PROVE  EfInv'
    <2>0. UNCHANGED <<bits, slotVars, actual, scanVars>>
      BY Zenon DEF Wait
    <2>s. emu_ef_claim_waiter_slot \in Slots \ active
      BY <1>3, ClaimedIsFree, Zenon
    <2> USE <1>0, <1>3, <2>0 DEF slotVars, scanVars
    <2>1. TypeOK'
      BY <2>s, Zenon DEF TypeOK, Goto, WaitLabels
    <2>2. GuardInv'
      BY Distinct, Zenon DEF TypeOK, GuardInv, Goto, Holding, SetLabels
    <2>3. PcInv'
      BY <2>s, Distinct, Zenon DEF TypeOK, PcInv, Goto, WaitLabels, Slotted, Scanning
    <2>4. SlotInv' /\ CountInv' /\ AskedInv'
      <3>1. Waiters' = Waiters
        BY DEF TypeOK, Waiters, Registered, Goto
      <3>2. \A u \in Threads \ {t} : my_slot[u] # NoSlot => u \in Waiters
        BY Distinct, Zenon DEF GuardInv, Holding, Waiters, Registered
      <3>3. SlotInv'
        BY <2>s, <3>1, <3>2, Distinct DEF TypeOK, SlotInv, Goto
      <3>4. CountInv'
        BY Zenon DEF CountInv
      <3>5. AskedInv'
        BY DEF TypeOK, AskedInv, Goto
      <3> QED
        BY <3>3, <3>4, <3>5, Zenon
    <2>5. TokenInv'
      BY TokensKept, Distinct, Zenon DEF TypeOK, Goto
    <2>6. WakeInv'
      BY WakesKept, Distinct, Zenon DEF TypeOK, Goto, SetLabels
    <2>7. ReportInv'
      BY ReportsKept DEF TypeOK, Goto
    <2> QED
      BY <2>1, <2>2, <2>3, <2>4, <2>5, <2>6, <2>7, Zenon
  <1>4. ASSUME UNCHANGED <<guard, pc, req, my_slot>>
        PROVE  EfInv'
    <2>1. UNCHANGED vars
      BY <1>4, Zenon DEF Wait, vars, waitVars
    <2> QED
      BY <2>1, EfStutters, Zenon
  <1> QED
    BY <1>1, <1>2, <1>3, <1>4, Zenon

(* While one task holds the guard, no other is between two calls on it.    *)
LEMMA OneHolder ==
  ASSUME GuardInv, NEW t \in Threads, pc[t] \in Holding
  PROVE  guard = t /\ \A u \in Threads \ {t} : pc[u] \notin Holding
  BY Zenon DEF GuardInv

(* The slot is drained and filled in while nobody else looks for one.      *)
LEMMA ClaimKeeps ==
  ASSUME EfInv, NEW t \in Threads, Claim(t)
  PROVE  EfInv'
  <1> USE DEF EfInv
  <1>0. pc[t] = "claim" /\ t \in Actors /\ my_slot[t] \in Slots
    BY Distinct, Zenon DEF Claim, PcInv, TypeOK, Slotted
  <1> DEFINE s == my_slot[t]
  <1>1. /\ pc' = [pc EXCEPT ![t] = "publish"]
        /\ sem' = [sem EXCEPT ![s] = 0]
        /\ wait_bits' = [wait_bits EXCEPT ![s] = req[t].bits]
        /\ wait_all' = [wait_all EXCEPT ![s] = req[t].all]
        /\ UNCHANGED <<guard, bits, in_use, wake_pending, active, waiter_count>>
        /\ UNCHANGED <<req, my_slot, actual, updated, todo>>
    BY Zenon DEF Claim, Goto, waitVars, scanVars
  <1>2. \A u \in Threads \ {t} : my_slot[u] # s
    BY <1>0, Distinct, Zenon DEF SlotInv
  <1> USE <1>0, <1>1
  <1> HIDE DEF s
  <1>3. TypeOK'
    BY RequestTypes DEF TypeOK, WaitLabels, s
  <1>4. GuardInv'
    BY DEF TypeOK, GuardInv, Holding
  <1>5. PcInv'
    BY Distinct, Zenon DEF TypeOK, PcInv, WaitLabels, Slotted, Scanning
  <1>6. SlotInv'
    <2>1. Waiters' = Waiters
      BY DEF TypeOK, Waiters, Registered
    <2> QED
      BY <2>1 DEF TypeOK, SlotInv
  <1>7. CountInv'
    BY Zenon DEF CountInv
  <1>8. AskedInv'
    BY <1>2 DEF TypeOK, AskedInv, s
  <1>9. TokenInv'
    BY <1>2 DEF TypeOK, TokenInv, Giving, Current, s
  <1>10. WakeInv'
    <2>1. \A u \in Threads : pc'[u] = "take" => pc[u] = "take" /\ sem'[my_slot[u]] = sem[my_slot[u]]
      BY <1>2 DEF TypeOK, s
    <2>2. \A u \in Threads, a \in Actors : Coming(a, u) => Coming(a, u)'
      BY Zenon DEF TypeOK, Coming
    <2>3. \A u \in Threads, a \in Actors : Giving(a, my_slot[u]) => Giving(a, my_slot[u])'
      BY Zenon DEF TypeOK, Giving, Current
    <2> QED
      BY <2>1, <2>2, <2>3 DEF WakeInv, Asleep, Matched
  <1>11. ReportInv'
    BY ReportsKept DEF TypeOK
  <1> QED
    BY <1>3, <1>4, <1>5, <1>6, <1>7, <1>8, <1>9, <1>10, <1>11, Zenon

(* The wait is registered: its slot is marked for the first time.          *)
LEMMA PublishKeeps ==
  ASSUME EfInv, NEW t \in Threads, Publish(t)
  PROVE  EfInv'
  <1> USE DEF EfInv
  <1>0. pc[t] = "publish" /\ t \in Actors /\ my_slot[t] \in Slots /\ my_slot[t] \notin active
    BY Distinct, Zenon DEF Publish, PcInv, TypeOK, Slotted, SlotInv
  <1> DEFINE s == my_slot[t]
  <1>1. /\ pc' = [pc EXCEPT ![t] = "recheck"]
        /\ wake_pending' = [wake_pending EXCEPT ![s] = FALSE]
        /\ in_use' = [in_use EXCEPT ![s] = TRUE]
        /\ active' = active \cup {s}
        /\ waiter_count' = waiter_count + 1
        /\ UNCHANGED <<guard, bits, sem, wait_bits, wait_all>>
        /\ UNCHANGED <<req, my_slot, actual, updated, todo>>
    BY Zenon DEF Publish, Goto, waitVars, scanVars
  <1>2. \A u \in Threads \ {t} : my_slot[u] # s
    BY <1>0, Distinct, Zenon DEF SlotInv
  <1> USE <1>0, <1>1
  <1> HIDE DEF s
  <1>3. Waiters' = Waiters \cup {t}
    BY Distinct, Zenon DEF TypeOK, Waiters, Registered
  <1>4. SlotInv'
    <2>1. \A u \in Threads : pc'[u] \in {"claim", "publish"} => my_slot'[u] \notin active'
      BY <1>2 DEF TypeOK, SlotInv, s
    <2>2. \A r \in Slots : in_use'[r] <=> r \in active'
      BY Zenon DEF TypeOK, SlotInv
    <2>3. \A u \in Waiters' : my_slot'[u] \in active'
      BY <1>3, Zenon DEF SlotInv, s
    <2>4. \A r \in active' : \E u \in Waiters' : my_slot'[u] = r
      BY <1>3, Zenon DEF SlotInv, s
    <2> QED
      BY <2>1, <2>2, <2>3, <2>4, Zenon DEF SlotInv
  <1>5. CountInv'
    BY WaitersCounted, FS_AddElement, Zenon DEF CountInv, s
  <1>6. TypeOK'
    <2>1. active' \subseteq Slots
      BY Zenon DEF TypeOK, s
    <2>2. Cardinality(active') \in 0 .. MaxWaiters
      <3>1. IsFiniteSet(Slots) /\ Cardinality(Slots) = MaxWaiters
        BY FS_Interval, EventFlagsAssumption DEF Slots
      <3> QED
        BY <2>1, <3>1, FS_Subset, FS_CardinalityType, EventFlagsAssumption
    <2> QED
      BY <1>5, <2>1, <2>2, Zenon DEF TypeOK, WaitLabels, CountInv, s
  <1>7. GuardInv'
    BY DEF TypeOK, GuardInv, Holding
  <1>8. PcInv'
    BY Distinct, Zenon DEF TypeOK, PcInv, WaitLabels, Slotted, Scanning
  <1>9. AskedInv'
    BY SMTT(30) DEF TypeOK, AskedInv
  <1>10. TokenInv'
    BY <1>2 DEF TypeOK, TokenInv, Giving, Current, s
  <1>11. WakeInv'
    BY WakesKept DEF TypeOK, SetLabels
  <1>12. ReportInv'
    BY ReportsKept DEF TypeOK
  <1> QED
    BY <1>4, <1>5, <1>6, <1>7, <1>8, <1>9, <1>10, <1>11, <1>12, Zenon

(* The second check, under the guard: the wait is over or nothing is set   *)
(* that it waits for when it goes to sleep.                                *)
LEMMA RecheckKeeps ==
  ASSUME EfInv, NEW t \in Threads, Recheck(t)
  PROVE  EfInv'
  <1> USE DEF EfInv
  <1>0. pc[t] = "recheck" /\ t \in Actors
    BY Distinct, Zenon DEF Recheck
  <1>1. UNCHANGED <<bits, sem, in_use, wake_pending, wait_bits, wait_all, active, waiter_count,
                    req, my_slot, actual, updated, todo>>
    BY Zenon DEF Recheck, slotVars, waitVars, scanVars
  <1>2. \/ Matched(t) /\ pc' = [pc EXCEPT ![t] = "report"] /\ guard' = guard
        \/ ~Matched(t) /\ pc' = [pc EXCEPT ![t] = "take"] /\ guard' = NoThread
    BY Zenon DEF Recheck, Goto
  <1>3. /\ \A a \in Actors \ {t} : pc'[a] = pc[a]
        /\ pc'[t] = "take" \/ pc'[t] = "report"
        /\ pc'[t] = "take" => ~Matched(t) /\ guard' = NoThread
        /\ pc'[t] = "report" => Matched(t) /\ guard' = guard
    BY <1>0, <1>2, Zenon DEF TypeOK
  <1>4. \A u \in Threads : Matched(u)' <=> Matched(u)
    BY <1>1, Zenon DEF Matched
  <1>u. \A u \in Threads \ {t} : pc[u] \notin Holding
    BY <1>0, OneHolder, Zenon DEF Holding
  <1> USE <1>0, <1>1, <1>3
  <1>5. TypeOK' /\ GuardInv'
    <2>1. TypeOK'
      BY <1>2, Zenon DEF TypeOK, WaitLabels
    <2>2. GuardInv'
      BY <1>u, Distinct, Zenon DEF GuardInv, Holding, SetLabels
    <2> QED
      BY <2>1, <2>2, Zenon
  <1>6. PcInv'
    BY Distinct, Zenon DEF PcInv, WaitLabels, Slotted, Scanning
  <1>7. SlotInv' /\ CountInv' /\ AskedInv'
    BY SlotsKept, Distinct, Zenon
  <1>8. TokenInv'
    BY TokensKept, Distinct, Zenon
  <1>9. WakeInv'
    <2>1. \A u \in Threads : Asleep(u)' /\ Matched(u)' => Asleep(u) /\ Matched(u)
      BY <1>4, Distinct, Zenon DEF Asleep
    <2>2. \A u \in Threads, a \in Actors : Coming(a, u) => Coming(a, u)'
      BY Zenon DEF TypeOK, Coming
    <2>3. \A u \in Threads, a \in Actors : Giving(a, my_slot[u]) => Giving(a, my_slot[u])'
      BY Zenon DEF TypeOK, Giving, Current
    <2> QED
      BY <2>1, <2>2, <2>3, Zenon DEF WakeInv
  <1>10. ReportInv'
    BY <1>4, <1>u, Distinct, Zenon DEF ReportInv, Holding
  <1> QED
    BY <1>5, <1>6, <1>7, <1>8, <1>9, <1>10, Zenon

(* The semaphore of a wait's own slot is the only one it takes.            *)
LEMMA TakeKeeps ==
  ASSUME EfInv, NEW t \in Threads, Take(t)
  PROVE  EfInv'
  <1> USE DEF EfInv
  <1>0. pc[t] = "take" /\ t \in Actors /\ my_slot[t] \in Slots
    BY Distinct, Zenon DEF Take, PcInv, TypeOK, Slotted
  <1>1. UNCHANGED <<guard, bits, in_use, wake_pending, wait_bits, wait_all, active, waiter_count,
                    req, my_slot, actual, updated, todo>>
    BY Zenon DEF Take, waitVars, scanVars
  <1>2. pc' = [pc EXCEPT ![t] = "woken"] /\ (sem' = [sem EXCEPT ![my_slot[t]] = 0] \/ sem' = sem)
    BY Zenon DEF Take, Goto
  <1>3. /\ \A a \in Actors \ {t} : pc'[a] = pc[a]
        /\ pc'[t] = "woken"
        /\ \A u \in Threads \ {t} : my_slot[u] \in Slots => sem'[my_slot[u]] = sem[my_slot[u]]
    BY <1>0, <1>2, Distinct DEF TypeOK, SlotInv
  <1>4. \A u \in Threads : pc[u] \in Slotted => my_slot[u] \in Slots
    BY Zenon DEF TypeOK, PcInv
  <1> USE <1>0, <1>1, <1>3
  <1>5. TypeOK'
    BY <1>2 DEF TypeOK, WaitLabels
  <1>6. GuardInv'
    BY Distinct, Zenon DEF GuardInv, Holding, SetLabels
  <1>7. PcInv'
    BY Distinct, Zenon DEF PcInv, WaitLabels, Slotted, Scanning
  <1>8. SlotInv' /\ CountInv' /\ AskedInv'
    BY SlotsKept, Distinct, Zenon
  <1>a. \A a \in Actors, u \in Threads : Giving(a, my_slot[u]) => Giving(a, my_slot[u])'
    BY Distinct, Zenon DEF Giving, Current
  <1>9. TokenInv'
    BY <1>4, <1>a, Distinct, Zenon DEF TokenInv, Slotted
  <1>10. WakeInv'
    <2>1. \A u \in Threads, a \in Actors : Coming(a, u) => Coming(a, u)'
      BY Distinct, Zenon DEF Coming
    <2>2. \A u \in Threads : Matched(u)' <=> Matched(u)
      BY <1>1, Zenon DEF Matched
    <2> QED
      BY <1>4, <1>a, <2>1, <2>2, Distinct, Zenon DEF WakeInv, Asleep, Slotted
  <1>11. ReportInv'
    BY ReportsKept, Distinct, Zenon
  <1> QED
    BY <1>5, <1>6, <1>7, <1>8, <1>9, <1>10, <1>11, Zenon

(* The guard is taken again and the flags are looked at.                   *)
LEMMA WokenKeeps ==
  ASSUME EfInv, NEW t \in Threads, Woken(t)
  PROVE  EfInv'
  <1> USE DEF EfInv
  <1>0. pc[t] = "woken" /\ guard = NoThread /\ t \in Actors
    BY Distinct, Zenon DEF Woken
  <1>1. UNCHANGED <<bits, sem, in_use, wake_pending, wait_bits, wait_all, active, waiter_count,
                    req, my_slot, actual, updated, todo>>
    BY Zenon DEF Woken, slotVars, waitVars, scanVars
  <1>2. guard' = t /\ pc' = [pc EXCEPT ![t] = IF Matched(t) THEN "report" ELSE "reopen"]
    BY Zenon DEF Woken, Goto
  <1>3. /\ \A a \in Actors \ {t} : pc'[a] = pc[a]
        /\ pc'[t] = "report" \/ pc'[t] = "reopen"
        /\ pc'[t] = "report" => Matched(t)
    BY <1>0, <1>2, Zenon DEF TypeOK
  <1>4. \A u \in Threads : Matched(u)' <=> Matched(u)
    BY <1>1, Zenon DEF Matched
  <1>u. \A u \in Threads : pc[u] \notin Holding
    BY <1>0, Distinct, Zenon DEF GuardInv
  <1> USE <1>0, <1>1, <1>3
  <1>5. TypeOK'
    BY <1>2, Zenon DEF TypeOK, WaitLabels
  <1>6. GuardInv'
    BY <1>2, <1>u, Distinct, Zenon DEF GuardInv, Holding
  <1>7. PcInv'
    BY Distinct, Zenon DEF PcInv, WaitLabels, Slotted, Scanning
  <1>8. SlotInv' /\ CountInv' /\ AskedInv'
    BY SlotsKept, Distinct, Zenon
  <1>9. TokenInv'
    BY TokensKept, Distinct, Zenon
  <1>10. WakeInv'
    BY WakesKept, Distinct, Zenon DEF SetLabels
  <1>11. ReportInv'
    BY <1>4, <1>u, Distinct, Zenon DEF ReportInv, Holding
  <1> QED
    BY <1>5, <1>6, <1>7, <1>8, <1>9, <1>10, <1>11, Zenon

(* wake_pending goes down before the flags are looked at once more.        *)
LEMMA ReopenKeeps ==
  ASSUME EfInv, NEW t \in Threads, Reopen(t)
  PROVE  EfInv'
  <1> USE DEF EfInv
  <1>0. pc[t] = "reopen" /\ t \in Actors /\ my_slot[t] \in Slots
    BY Distinct, Zenon DEF Reopen, PcInv, TypeOK, Slotted
  <1>1. UNCHANGED <<guard, bits, sem, in_use, wait_bits, wait_all, active, waiter_count,
                    req, my_slot, actual, updated, todo>>
    BY Zenon DEF Reopen, waitVars, scanVars
  <1>2. pc' = [pc EXCEPT ![t] = "recheck"] /\ wake_pending' = [wake_pending EXCEPT ![my_slot[t]] = FALSE]
    BY Zenon DEF Reopen, Goto
  <1>3. /\ \A a \in Actors \ {t} : pc'[a] = pc[a]
        /\ pc'[t] = "recheck"
        /\ ~wake_pending'[my_slot[t]]
        /\ \A u \in Threads \ {t} : my_slot[u] \in Slots =>
              (wake_pending'[my_slot[u]] <=> wake_pending[my_slot[u]])
    BY <1>0, <1>2, Distinct DEF TypeOK, SlotInv
  <1>4. \A u \in Threads : pc[u] \in Slotted => my_slot[u] \in Slots
    BY Zenon DEF TypeOK, PcInv
  <1> USE <1>0, <1>1, <1>3
  <1>5. TypeOK'
    BY <1>2, Zenon DEF TypeOK, WaitLabels
  <1>6. GuardInv'
    BY Distinct, Zenon DEF GuardInv, Holding
  <1>7. PcInv'
    BY Distinct, Zenon DEF PcInv, WaitLabels, Slotted, Scanning
  <1>8. SlotInv' /\ CountInv' /\ AskedInv'
    BY SlotsKept, Distinct, Zenon
  <1>a. \A a \in Actors, u \in Threads : Giving(a, my_slot[u]) => Giving(a, my_slot[u])'
    BY Distinct, Zenon DEF Giving, Current
  <1>9. TokenInv'
    BY <1>4, <1>a, Distinct, Zenon DEF TokenInv, Slotted
  <1>10. WakeInv'
    BY WakesKept, Distinct, Zenon DEF SetLabels
  <1>11. ReportInv'
    BY ReportsKept, Distinct, Zenon
  <1> QED
    BY <1>5, <1>6, <1>7, <1>8, <1>9, <1>10, <1>11, Zenon

(* The flags reported are those that satisfied the wait.                   *)
LEMMA ReportKeeps ==
  ASSUME EfInv, NEW t \in Threads, Report(t)
  PROVE  EfInv'
  <1> USE DEF EfInv
  <1>0. pc[t] = "report" /\ t \in Actors /\ Matched(t)
    BY Distinct, Zenon DEF Report, ReportInv
  <1>1. UNCHANGED <<guard, bits, sem, in_use, wake_pending, wait_bits, wait_all, active,
                    waiter_count, req, my_slot, updated, todo>>
    BY Zenon DEF Report, slotVars, scanVars
  <1>2. pc' = [pc EXCEPT ![t] = "clear"] /\ actual' = [actual EXCEPT ![t] = bits]
    BY Zenon DEF Report, Goto
  <1>3. /\ \A a \in Actors \ {t} : pc'[a] = pc[a]
        /\ pc'[t] = "clear" /\ actual'[t] = bits
    BY <1>0, <1>2, Zenon DEF TypeOK
  <1>u. \A u \in Threads \ {t} : pc[u] \notin Holding
    BY <1>0, OneHolder, Zenon DEF Holding
  <1> USE <1>0, <1>1, <1>3
  <1>5. TypeOK'
    BY <1>2, Zenon DEF TypeOK, WaitLabels
  <1>6. GuardInv'
    BY Distinct, Zenon DEF GuardInv, Holding
  <1>7. PcInv'
    BY Distinct, Zenon DEF PcInv, WaitLabels, Slotted, Scanning
  <1>8. SlotInv' /\ CountInv' /\ AskedInv'
    BY SlotsKept, Distinct, Zenon
  <1>9. TokenInv'
    BY TokensKept, Distinct, Zenon
  <1>10. WakeInv'
    BY WakesKept, Distinct, Zenon DEF SetLabels
  <1>11. ReportInv'
    BY <1>u, Distinct, Zenon DEF ReportInv, Holding, Matched
  <1> QED
    BY <1>5, <1>6, <1>7, <1>8, <1>9, <1>10, <1>11, Zenon

(* Clearing takes flags from nobody who is about to report them.           *)
LEMMA ClearKeeps ==
  ASSUME EfInv, NEW t \in Threads, Clear(t)
  PROVE  EfInv'
  <1> USE DEF EfInv
  <1>0. pc[t] = "clear" /\ t \in Actors
    BY Distinct, Zenon DEF Clear
  <1>1. UNCHANGED <<guard, sem, in_use, wake_pending, wait_bits, wait_all, active,
                    waiter_count, req, my_slot, actual, updated, todo>>
    BY Zenon DEF Clear, slotVars, waitVars, scanVars
  <1>2. pc' = [pc EXCEPT ![t] = "release"] /\ bits' \subseteq bits
    BY Zenon DEF Clear, Goto
  <1>3. /\ \A a \in Actors \ {t} : pc'[a] = pc[a]
        /\ pc'[t] = "release"
    BY <1>0, <1>2, Zenon DEF TypeOK
  <1>u. \A u \in Threads \ {t} : pc[u] \notin Holding
    BY <1>0, OneHolder, Zenon DEF Holding
  <1> USE <1>0, <1>1, <1>3
  <1>5. TypeOK'
    BY <1>2, Zenon DEF TypeOK, WaitLabels
  <1>6. GuardInv'
    BY Distinct, Zenon DEF GuardInv, Holding
  <1>7. PcInv'
    BY Distinct, Zenon DEF PcInv, WaitLabels, Slotted, Scanning
  <1>8. SlotInv' /\ CountInv' /\ AskedInv'
    BY SlotsKept, Distinct, Zenon
  <1>9. TokenInv'
    BY TokensKept, Distinct, Zenon
  <1>10. WakeInv'
    BY <1>2, WakesKept, Distinct, Zenon DEF SetLabels
  <1>11. ReportInv'
    BY <1>u, Distinct, Zenon DEF ReportInv, Holding
  <1> QED
    BY <1>5, <1>6, <1>7, <1>8, <1>9, <1>10, <1>11, Zenon

(* release_waiter takes back what the registration put up, of this slot.   *)
LEMMA SlotReleased ==
  ASSUME EfInv, NEW t \in Threads, my_slot[t] # NoSlot, pc[t] \notin {"claim", "publish"},
         ReleaseWaiter(t), pc'[t] = "idle", \A u \in Threads \ {t} : pc'[u] = pc[u],
         \A u \in Threads \ {t} : req'[u] = req[u]
  PROVE  /\ SlotInv' /\ CountInv' /\ AskedInv'
         /\ waiter_count' \in 0 .. MaxWaiters
  <1> USE DEF EfInv
  <1> DEFINE s == my_slot[t]
  <1>0. s \in Slots /\ t \in Waiters /\ s \in active
    BY Zenon DEF TypeOK, Waiters, Registered, SlotInv
  <1>1. /\ in_use' = [in_use EXCEPT ![s] = FALSE]
        /\ active' = active \ {s}
        /\ waiter_count' = waiter_count - 1
        /\ my_slot' = [my_slot EXCEPT ![t] = NoSlot]
        /\ UNCHANGED <<wait_bits, wait_all>>
    BY Zenon DEF ReleaseWaiter
  <1>2. \A u \in Threads \ {t} : my_slot[u] # s /\ my_slot'[u] = my_slot[u]
    BY <1>0, <1>1, Distinct DEF SlotInv, TypeOK
  <1>3. my_slot'[t] = NoSlot
    BY <1>1, Zenon DEF TypeOK
  <1> HIDE DEF s
  <1>4. Waiters' = Waiters \ {t}
    BY <1>2, <1>3, Zenon DEF Waiters, Registered
  <1>5. SlotInv'
    <2>1. \A u \in Threads : pc'[u] \in {"claim", "publish"} => my_slot'[u] \notin active'
      BY <1>1, <1>2 DEF SlotInv
    <2>2. \A r \in Slots : in_use'[r] <=> r \in active'
      BY <1>0, <1>1, Zenon DEF TypeOK, SlotInv
    <2>3. \A u \in Waiters' : my_slot'[u] \in active'
      BY <1>1, <1>2, <1>4, SMTT(30) DEF SlotInv, Waiters
    <2>4. \A r \in active' : \E u \in Waiters' : my_slot'[u] = r
      <3> SUFFICES ASSUME NEW r \in active' PROVE \E u \in Waiters' : my_slot'[u] = r
        BY Zenon
      <3>1. PICK u \in Waiters : my_slot[u] = r
        BY <1>1, Zenon DEF SlotInv
      <3>2. u # t /\ u \in Threads
        BY <1>1, <3>1, Zenon DEF s, Waiters
      <3> QED
        BY <1>2, <1>4, <3>1, <3>2, Zenon
    <2>5. \A u, v \in Threads : u # v /\ my_slot'[u] # NoSlot => my_slot'[u] # my_slot'[v]
      BY <1>2, <1>3, SMTT(30) DEF SlotInv
    <2> QED
      BY <2>1, <2>2, <2>3, <2>4, <2>5, Zenon DEF SlotInv
  <1>6. CountInv' /\ waiter_count' \in 0 .. MaxWaiters
    <2>1. Cardinality(active') = Cardinality(active) - 1 /\ IsFiniteSet(active')
      BY <1>0, <1>1, WaitersCounted, FS_RemoveElement, Zenon
    <2>2. Cardinality(active') \in Nat /\ Cardinality(active) \in 0 .. MaxWaiters
      BY <2>1, FS_CardinalityType, WaitersCounted, Zenon
    <2> QED
      BY <1>1, <2>1, <2>2, EventFlagsAssumption DEF CountInv
  <1>7. AskedInv'
    BY <1>1, <1>2, <1>3, Zenon DEF AskedInv
  <1> QED
    BY <1>5, <1>6, <1>7, Zenon

(* The rest of the invariant when a wait returns.                          *)
LEMMA ReturnKeeps ==
  ASSUME EfInv, NEW t \in Threads, Return(t), pc[t] \in {"take", "release"},
         UNCHANGED <<bits, sem, updated, todo>>,
         my_slot'[t] = NoSlot, \A u \in Threads \ {t} : my_slot'[u] = my_slot[u],
         \A s \in Slots : wake_pending'[s] => wake_pending[s]
  PROVE  /\ PcInv' /\ TokenInv' /\ WakeInv' /\ ReportInv'
         /\ pc'[t] = "idle" /\ \A a \in Actors \ {t} : pc'[a] = pc[a]
         /\ \A u \in Threads \ {t} : req'[u] = req[u]
  <1> USE DEF EfInv
  <1>1. /\ pc'[t] = "idle" /\ \A a \in Actors \ {t} : pc'[a] = pc[a]
        /\ \A u \in Threads \ {t} : req'[u] = req[u] /\ actual'[u] = actual[u]
    BY Distinct, Zenon DEF Return, Goto, TypeOK
  <1> USE <1>1
  <1>2. PcInv'
    BY Distinct, Zenon DEF PcInv, WaitLabels, Slotted, Scanning
  <1>3. TokenInv'
    <2>1. \A u \in Threads : pc[u] \in Slotted => my_slot[u] \in Slots
      BY Zenon DEF TypeOK, PcInv
    <2>2. \A a \in Actors, u \in Threads \ {t} : Giving(a, my_slot[u]) => Giving(a, my_slot[u])'
      BY Distinct, Zenon DEF Giving, Current
    <2> QED
      BY <2>1, <2>2, Distinct, SMTT(30) DEF TokenInv, Slotted
  <1>4. WakeInv'
    BY WakesKept, Distinct, Zenon DEF SetLabels
  <1>5. ReportInv'
    BY ReportsKept, Distinct, Zenon
  <1> QED
    BY <1>2, <1>3, <1>4, <1>5, Zenon

(* wait returns ok, with or without a slot to give back.                   *)
LEMMA ReleaseKeeps ==
  ASSUME EfInv, NEW t \in Threads, Release(t)
  PROVE  EfInv'
  <1> USE DEF EfInv
  <1>0. /\ pc[t] = "release" /\ t \in Actors /\ guard' = NoThread /\ Return(t)
        /\ UNCHANGED <<bits, sem, wait_bits, wait_all, updated, todo>>
    BY Distinct, Zenon DEF Release, scanVars, slotVars, ReleaseWaiter
  <1>1. \/ my_slot[t] = NoSlot /\ UNCHANGED <<slotVars, my_slot>>
        \/ my_slot[t] # NoSlot /\ ReleaseWaiter(t)
    BY Zenon DEF Release
  <1>2. /\ my_slot'[t] = NoSlot /\ \A u \in Threads \ {t} : my_slot'[u] = my_slot[u]
        /\ \A s \in Slots : wake_pending'[s] => wake_pending[s]
    BY <1>1, Zenon DEF ReleaseWaiter, TypeOK, slotVars
  <1>3. /\ PcInv' /\ TokenInv' /\ WakeInv' /\ ReportInv'
        /\ pc'[t] = "idle" /\ \A a \in Actors \ {t} : pc'[a] = pc[a]
        /\ \A u \in Threads \ {t} : req'[u] = req[u]
    BY <1>0, <1>2, ReturnKeeps, Zenon
  <1>4. SlotInv' /\ CountInv' /\ AskedInv' /\ waiter_count' \in 0 .. MaxWaiters
    <2>1. CASE my_slot[t] = NoSlot /\ UNCHANGED <<slotVars, my_slot>>
      <3>1. Waiters' = Waiters
        BY <1>0, <1>3, <2>1, Distinct, Zenon DEF Waiters, Registered
      <3>2. SlotInv' /\ CountInv'
        BY <1>0, <1>3, <2>1, <3>1, Distinct, Zenon DEF SlotInv, CountInv, slotVars
      <3>3. AskedInv' /\ waiter_count' \in 0 .. MaxWaiters
        BY <1>0, <1>3, <2>1, Distinct, Zenon DEF AskedInv, slotVars, TypeOK
      <3> QED
        BY <3>2, <3>3, Zenon
    <2>2. CASE my_slot[t] # NoSlot /\ ReleaseWaiter(t)
      BY <1>0, <1>3, <2>2, SlotReleased, Distinct, Zenon
    <2> QED
      BY <1>1, <2>1, <2>2, Zenon
  <1>5. TypeOK'
    <2>1. /\ wake_pending' \in [Slots -> BOOLEAN] /\ in_use' \in [Slots -> BOOLEAN]
          /\ active' \subseteq Slots /\ my_slot' \in [Threads -> Slots \cup {NoSlot}]
      BY <1>1, Zenon DEF ReleaseWaiter, TypeOK, slotVars
    <2>2. /\ req' \in [Threads -> Requests \cup {NoRequest}] /\ actual' \in [Threads -> SUBSET Bits]
          /\ pc' \in [Actors -> {"idle"} \cup WaitLabels \cup SetLabels]
      BY <1>0, Zenon DEF Return, Goto, TypeOK
    <2> QED
      BY <1>0, <1>4, <2>1, <2>2, Zenon DEF TypeOK
  <1>6. GuardInv'
    BY <1>0, <1>3, OneHolder, Distinct, Zenon DEF GuardInv, Holding, SetLabels
  <1> QED
    BY <1>3, <1>4, <1>5, <1>6, Zenon

(* wait returns timeout.                                                   *)
LEMMA ExpireKeeps ==
  ASSUME EfInv, NEW t \in Threads, Expire(t)
  PROVE  EfInv'
  <1> USE DEF EfInv
  <1>0. /\ pc[t] = "take" /\ t \in Actors /\ guard' = guard /\ Return(t) /\ ReleaseWaiter(t)
        /\ UNCHANGED <<bits, sem, wait_bits, wait_all, updated, todo>>
        /\ my_slot[t] # NoSlot
    BY Distinct, Zenon DEF Expire, scanVars, ReleaseWaiter, PcInv, Slotted
  <1>2. /\ my_slot'[t] = NoSlot /\ \A u \in Threads \ {t} : my_slot'[u] = my_slot[u]
        /\ \A s \in Slots : wake_pending'[s] => wake_pending[s]
    BY <1>0, Zenon DEF ReleaseWaiter, TypeOK
  <1>3. /\ PcInv' /\ TokenInv' /\ WakeInv' /\ ReportInv'
        /\ pc'[t] = "idle" /\ \A a \in Actors \ {t} : pc'[a] = pc[a]
        /\ \A u \in Threads \ {t} : req'[u] = req[u]
    BY <1>0, <1>2, ReturnKeeps, Zenon
  <1>4. SlotInv' /\ CountInv' /\ AskedInv' /\ waiter_count' \in 0 .. MaxWaiters
    BY <1>0, <1>3, SlotReleased, Distinct, Zenon
  <1>5. TypeOK'
    <2>1. /\ wake_pending' \in [Slots -> BOOLEAN] /\ in_use' \in [Slots -> BOOLEAN]
          /\ active' \subseteq Slots /\ my_slot' \in [Threads -> Slots \cup {NoSlot}]
      BY <1>0, Zenon DEF ReleaseWaiter, TypeOK
    <2>2. /\ req' \in [Threads -> Requests \cup {NoRequest}] /\ actual' \in [Threads -> SUBSET Bits]
          /\ pc' \in [Actors -> {"idle"} \cup WaitLabels \cup SetLabels]
      BY <1>0, Zenon DEF Return, Goto, TypeOK
    <2> QED
      BY <1>0, <1>4, <2>1, <2>2, Zenon DEF TypeOK
  <1>6. GuardInv'
    BY <1>0, <1>3, Distinct, Zenon DEF GuardInv, Holding, SetLabels
  <1> QED
    BY <1>3, <1>4, <1>5, <1>6, Zenon

(* osal_event_flags_clear waits until nobody is about to report flags.     *)
LEMMA ClearFlagsKeeps ==
  ASSUME EfInv, NEW t \in Threads, osal_event_flags_clear(t)
  PROVE  EfInv'
  <1> USE DEF EfInv
  <1>1. /\ UNCHANGED <<guard, pc, sem, in_use, wake_pending, wait_bits, wait_all, active,
                       waiter_count, req, my_slot, actual, updated, todo>>
        /\ guard = NoThread /\ bits' \subseteq bits
    BY Zenon DEF osal_event_flags_clear, slotVars, waitVars, scanVars
  <1>2. \A u \in Threads : pc[u] \notin Holding
    BY <1>1, Distinct, Zenon DEF GuardInv
  <1>3. TypeOK' /\ GuardInv' /\ PcInv'
    BY <1>1, Zenon DEF TypeOK, GuardInv, PcInv
  <1>4. SlotInv' /\ CountInv' /\ AskedInv'
    BY <1>1, SlotsKept, Zenon
  <1>5. TokenInv'
    BY <1>1, TokensKept, Zenon
  <1>6. WakeInv'
    BY <1>1, WakesKept, Zenon
  <1>7. ReportInv'
    BY <1>1, <1>2, Zenon DEF ReportInv, Holding
  <1> QED
    BY <1>3, <1>4, <1>5, <1>6, <1>7, Zenon

-----------------------------------------------------------------------------
(*                           The steps of a set                            *)

(* What every step of a set or set_isr leaves alone: the registrations and *)
(* the reports, and the guard if the actor is an interrupt.                *)
LEMMA SetStepFrame ==
  ASSUME EfInv, NEW a \in Actors, pc[a] \notin WaitLabels,
         NEW l \in SetLabels \cup {"idle"}, pc' = [pc EXCEPT ![a] = l],
         UNCHANGED <<in_use, wait_bits, wait_all, active, waiter_count, req, my_slot, actual>>,
         bits \subseteq bits', bits' \subseteq Bits,
         sem' \in [Slots -> 0 .. 1], wake_pending' \in [Slots -> BOOLEAN],
         updated' \in [Actors -> SUBSET Bits], todo' \in [Actors -> SUBSET Slots],
         \A b \in Actors \ {a} : todo'[b] = todo[b],
         l \in Scanning <=> todo'[a] # {},
         guard' \in Threads \cup {NoThread},
         a \in Threads => (guard' = a <=> l \in SetLabels),
         \A t \in Threads \ {a} : guard' = t <=> guard = t
  PROVE  /\ TypeOK' /\ GuardInv' /\ PcInv' /\ SlotInv' /\ CountInv' /\ AskedInv' /\ ReportInv'
         /\ pc'[a] = l /\ \A b \in Actors \ {a} : pc'[b] = pc[b]
  <1> USE DEF EfInv
  <1>1. pc'[a] = l /\ \A b \in Actors \ {a} : pc'[b] = pc[b]
    BY Zenon DEF TypeOK
  <1>2. l \notin WaitLabels /\ l \notin {"claim", "publish", "recheck", "take", "woken", "reopen",
                                        "report", "clear", "release"}
    BY Zenon DEF SetLabels, WaitLabels
  <1>3. pc[a] \notin {"claim", "publish", "recheck", "take", "woken", "reopen", "report", "clear",
                      "release"}
    BY Zenon DEF WaitLabels
  <1>4. TypeOK'
    BY Zenon DEF TypeOK
  <1>5. GuardInv'
    BY <1>1, <1>2, Distinct, Zenon DEF GuardInv, Holding
  <1>6. PcInv'
    <2>1. \A i \in Isrs : pc'[i] \notin WaitLabels
      BY <1>1, <1>2, Distinct, Zenon DEF PcInv
    <2>2. \A t \in Threads : /\ pc'[t] \in Slotted => my_slot'[t] # NoSlot
                             /\ pc'[t] \notin WaitLabels => my_slot'[t] = NoSlot
      BY <1>1, <1>2, Distinct, Zenon DEF PcInv, Slotted
    <2>3. \A b \in Actors : pc'[b] \in Scanning <=> todo'[b] # {}
      BY <1>1, Zenon DEF PcInv
    <2> QED
      BY <2>1, <2>2, <2>3, Zenon DEF PcInv
  <1>7. SlotInv' /\ CountInv' /\ AskedInv'
    BY <1>1, <1>2, <1>3, SlotsKept, Distinct, Zenon
  <1>8. ReportInv'
    BY <1>1, <1>2, ReportsKept, Distinct, Zenon
  <1> QED
    BY <1>1, <1>4, <1>5, <1>6, <1>7, <1>8, Zenon

(* A step of a set wakes, puts to sleep and registers nobody.              *)
LEMMA SleepersStay ==
  ASSUME NEW a \in Actors, pc[a] \notin WaitLabels, NEW l \in SetLabels \cup {"idle"},
         pc'[a] = l, \A b \in Actors \ {a} : pc'[b] = pc[b]
  PROVE  \A t \in Threads : /\ pc'[t] = "take" <=> pc[t] = "take"
                            /\ pc'[t] = "recheck" <=> pc[t] = "recheck"
  BY Distinct, Zenon DEF WaitLabels, SetLabels

(* The flags are set before anything is read: the scan that follows has    *)
(* seen every flag that is set by then.                                    *)
LEMMA SetBitsKeeps ==
  ASSUME EfInv, NEW a \in Actors, SetBits(a),
         IF a \in Threads THEN guard = NoThread /\ guard' = a ELSE guard' = guard
  PROVE  EfInv'
  <1> USE DEF EfInv
  <1>1. PICK b \in SUBSET Bits : bits' = bits \cup b /\ updated' = [updated EXCEPT ![a] = bits \cup b]
    BY Zenon DEF SetBits
  <1>2. /\ pc[a] = "idle" /\ pc' = [pc EXCEPT ![a] = "count"]
        /\ UNCHANGED <<sem, in_use, wake_pending, wait_bits, wait_all, active, waiter_count,
                       req, my_slot, actual, todo>>
    BY Zenon DEF SetBits, Goto, slotVars, waitVars
  <1>3. /\ TypeOK' /\ GuardInv' /\ PcInv' /\ SlotInv' /\ CountInv' /\ AskedInv' /\ ReportInv'
        /\ pc'[a] = "count" /\ \A c \in Actors \ {a} : pc'[c] = pc[c]
    <2>1. pc[a] \notin WaitLabels /\ "count" \in SetLabels \cup {"idle"}
      BY <1>2, Zenon DEF WaitLabels, SetLabels
    <2>2. updated' \in [Actors -> SUBSET Bits] /\ bits \subseteq bits' /\ bits' \subseteq Bits
      BY <1>1, Zenon DEF TypeOK
    <2>3. sem' \in [Slots -> 0 .. 1] /\ wake_pending' \in [Slots -> BOOLEAN]
          /\ todo' \in [Actors -> SUBSET Slots]
      BY <1>2, Zenon DEF TypeOK
    <2>4. "count" \in Scanning <=> todo'[a] # {}
      BY <1>2, Zenon DEF PcInv, Scanning
    <2>5. /\ guard' \in Threads \cup {NoThread}
          /\ a \in Threads => (guard' = a <=> "count" \in SetLabels)
          /\ \A t \in Threads \ {a} : guard' = t <=> guard = t
      BY Distinct, Zenon DEF TypeOK, SetLabels
    <2> QED
      BY <1>2, <2>1, <2>2, <2>3, <2>4, <2>5, SetStepFrame, Zenon
  <1>4. \A t \in Threads : /\ pc'[t] = "take" <=> pc[t] = "take"
                           /\ pc'[t] = "recheck" <=> pc[t] = "recheck"
    BY <1>2, <1>3, Distinct, Zenon
  <1>5. TokenInv'
    BY <1>2, <1>3, <1>4, TokensKept, Zenon
  <1>6. WakeInv'
    <2> SUFFICES ASSUME NEW t \in Threads, pc[t] = "take", Matched(t)', sem[my_slot[t]] = 0
                 PROVE  \E c \in Actors : (Coming(c, t) \/ Giving(c, my_slot[t]))'
      BY <1>2, <1>4, Zenon DEF WakeInv, Asleep
    <2>1. CASE Matched(t)
      <3>1. PICK c \in Actors : Coming(c, t) \/ Giving(c, my_slot[t])
        BY <2>1, Zenon DEF WakeInv, Asleep
      <3>2. c # a
        BY <1>2, <3>1, Zenon DEF Coming, Giving, PcInv, Scanning
      <3>3. pc'[c] = pc[c] /\ todo'[c] = todo[c] /\ updated'[c] = updated[c]
        BY <1>1, <1>2, <1>3, <3>2, Zenon DEF TypeOK
      <3> QED
        BY <1>2, <3>1, <3>3, Zenon DEF Coming, Giving, Current
    <2>2. CASE ~Matched(t)
      <3>1. updated'[a] = bits'
        BY <1>1, Zenon DEF TypeOK
      <3>2. Coming(a, t)'
        BY <1>3, <3>1, Zenon DEF Coming, Matched
      <3> QED
        BY <3>2, Zenon
    <2> QED
      BY <2>1, <2>2, Zenon
  <1> QED
    BY <1>3, <1>5, <1>6, Zenon

(* A step to another label of the same set.                                *)
LEMMA GotoFrame ==
  ASSUME EfInv, NEW a \in Actors, pc[a] \in SetLabels, NEW l \in SetLabels,
         l \in Scanning <=> pc[a] \in Scanning, Goto(a, l),
         UNCHANGED <<guard, bits, sem, in_use, wait_bits, wait_all, active, waiter_count,
                     req, my_slot, actual, updated, todo>>,
         wake_pending' \in [Slots -> BOOLEAN]
  PROVE  /\ TypeOK' /\ GuardInv' /\ PcInv' /\ SlotInv' /\ CountInv' /\ AskedInv' /\ ReportInv'
         /\ pc'[a] = l /\ \A b \in Actors \ {a} : pc'[b] = pc[b]
         /\ \A t \in Threads : /\ pc'[t] = "take" <=> pc[t] = "take"
                               /\ pc'[t] = "recheck" <=> pc[t] = "recheck"
  <1> USE DEF EfInv
  <1>1. pc[a] \notin WaitLabels /\ l \in SetLabels \cup {"idle"}
    BY Zenon DEF WaitLabels, SetLabels
  <1>2. bits' \subseteq Bits /\ updated' \in [Actors -> SUBSET Bits] /\ sem' \in [Slots -> 0 .. 1]
        /\ todo' \in [Actors -> SUBSET Slots] /\ guard' \in Threads \cup {NoThread}
    BY Zenon DEF TypeOK
  <1>3. l \in Scanning <=> todo'[a] # {}
    BY Zenon DEF PcInv
  <1>4. a \in Threads => (guard' = a <=> l \in SetLabels)
    BY Zenon DEF GuardInv, Holding
  <1>5. /\ TypeOK' /\ GuardInv' /\ PcInv' /\ SlotInv' /\ CountInv' /\ AskedInv' /\ ReportInv'
        /\ pc'[a] = l /\ \A b \in Actors \ {a} : pc'[b] = pc[b]
    BY <1>1, <1>2, <1>3, <1>4, SetStepFrame, Zenon DEF Goto
  <1> QED
    BY <1>1, <1>5, SleepersStay, Zenon

(* A scan goes on to the slots that are left, or ends.                     *)
LEMMA ScanFrame ==
  ASSUME EfInv, NEW a \in Actors, pc[a] \in SetLabels, NEW slots \in SUBSET Slots,
         Scan(a, slots),
         UNCHANGED <<bits, in_use, wait_bits, wait_all, active, waiter_count,
                     req, my_slot, actual>>,
         sem' \in [Slots -> 0 .. 1], wake_pending' \in [Slots -> BOOLEAN]
  PROVE  /\ TypeOK' /\ GuardInv' /\ PcInv' /\ SlotInv' /\ CountInv' /\ AskedInv' /\ ReportInv'
         /\ \A b \in Actors \ {a} :
               pc'[b] = pc[b] /\ todo'[b] = todo[b] /\ updated'[b] = updated[b]
         /\ todo'[a] = slots /\ (slots # {} => updated'[a] = updated[a])
         /\ pc'[a] # "give"
         /\ \A t \in Threads : /\ pc'[t] = "take" <=> pc[t] = "take"
                               /\ pc'[t] = "recheck" <=> pc[t] = "recheck"
  <1> USE DEF EfInv
  <1> DEFINE l == IF slots = {} THEN "idle" ELSE "look"
  <1>1. pc[a] \notin WaitLabels /\ l \in SetLabels \cup {"idle"} /\ l # "give"
    BY Zenon DEF WaitLabels, SetLabels
  <1>2. /\ pc' = [pc EXCEPT ![a] = l] /\ todo' = [todo EXCEPT ![a] = slots]
        /\ guard' = IF slots = {} /\ a \in Threads THEN NoThread ELSE guard
        /\ updated' = [updated EXCEPT ![a] = IF slots = {} THEN {} ELSE @]
    BY Zenon DEF Scan, EndSet, Goto, TypeOK
  <1>3. /\ todo' \in [Actors -> SUBSET Slots] /\ todo'[a] = slots
        /\ updated' \in [Actors -> SUBSET Bits] /\ (slots # {} => updated'[a] = updated[a])
        /\ \A b \in Actors \ {a} : todo'[b] = todo[b] /\ updated'[b] = updated[b]
    BY <1>2, Zenon DEF TypeOK
  <1>4. l \in Scanning <=> todo'[a] # {}
    BY <1>3, Zenon DEF Scanning
  <1>5. /\ guard' \in Threads \cup {NoThread}
        /\ a \in Threads => (guard' = a <=> l \in SetLabels)
        /\ \A t \in Threads \ {a} : guard' = t <=> guard = t
    BY <1>2, Distinct, Zenon DEF TypeOK, GuardInv, Holding, SetLabels
  <1>6. bits' \subseteq Bits
    BY Zenon DEF TypeOK
  <1> HIDE DEF l
  <1>7. /\ TypeOK' /\ GuardInv' /\ PcInv' /\ SlotInv' /\ CountInv' /\ AskedInv' /\ ReportInv'
        /\ pc'[a] = l /\ \A b \in Actors \ {a} : pc'[b] = pc[b]
    BY <1>1, <1>2, <1>3, <1>4, <1>5, <1>6, SetStepFrame, Zenon
  <1> QED
    BY <1>1, <1>3, <1>7, SleepersStay, Zenon

(* Whoever another actor's scan is coming for, it still comes for; the     *)
(* scan that moves on still comes for those whose slots it has left.       *)
LEMMA ScansGoOn ==
  ASSUME NEW a \in Actors, NEW slots,
         UNCHANGED <<req, my_slot>>,
         \A b \in Actors \ {a} :
            pc'[b] = pc[b] /\ todo'[b] = todo[b] /\ updated'[b] = updated[b],
         todo'[a] = slots, slots # {} => updated'[a] = updated[a],
         NEW t \in Threads, NEW b \in Actors
  PROVE  /\ b # a /\ Coming(b, t) => Coming(b, t)'
         /\ b # a /\ Giving(b, my_slot[t]) => Giving(b, my_slot[t])'
         /\ Coming(a, t) /\ my_slot[t] \in slots => Coming(a, t)'
  <1>1. b # a /\ Coming(b, t) => Coming(b, t)'
    BY Zenon DEF Coming
  <1>2. b # a /\ Giving(b, my_slot[t]) => Giving(b, my_slot[t])'
    BY Zenon DEF Giving, Current
  <1>3. Coming(a, t) /\ my_slot[t] \in slots => Coming(a, t)'
    BY Zenon DEF Coming
  <1> QED
    BY <1>1, <1>2, <1>3, Zenon

(* A count of zero means that nobody sleeps.                               *)
LEMMA CountSeesSleepers ==
  ASSUME EfInv, NEW t \in Threads, pc[t] = "take"
  PROVE  my_slot[t] \in active /\ my_slot[t] \in Slots /\ waiter_count # 0
  <1> USE DEF EfInv
  <1>1. t \in Waiters
    BY Zenon DEF PcInv, Slotted, Waiters, Registered
  <1>2. my_slot[t] \in active /\ my_slot[t] \in Slots
    BY <1>1, Zenon DEF SlotInv, TypeOK
  <1>3. Cardinality(active) # 0
    BY <1>2, WaitersCounted, FS_EmptySet, Zenon
  <1> QED
    BY <1>2, <1>3, Zenon DEF CountInv

(* The fast path of a set.                                                 *)
LEMMA ReadCountKeeps ==
  ASSUME EfInv, NEW a \in Actors, ReadCount(a)
  PROVE  EfInv'
  <1> USE DEF EfInv
  <1>0. /\ pc[a] = "count" /\ pc[a] \in SetLabels
        /\ UNCHANGED <<bits, sem, in_use, wake_pending, wait_bits, wait_all, active, waiter_count,
                       req, my_slot, actual, todo>>
    BY Zenon DEF ReadCount, slotVars, waitVars, SetLabels
  <1>t. sem' \in [Slots -> 0 .. 1] /\ wake_pending' \in [Slots -> BOOLEAN]
    BY <1>0, Zenon DEF TypeOK
  <1>1. CASE waiter_count = 0
    <2>1. todo[a] = {}
      BY <1>0, Zenon DEF PcInv, Scanning
    <2>2. Scan(a, {})
      BY <1>0, <1>1, <2>1, Zenon DEF ReadCount, Scan, TypeOK
    <2>3. /\ TypeOK' /\ GuardInv' /\ PcInv' /\ SlotInv' /\ CountInv' /\ AskedInv' /\ ReportInv'
          /\ \A b \in Actors \ {a} :
                pc'[b] = pc[b] /\ todo'[b] = todo[b] /\ updated'[b] = updated[b]
          /\ \A t \in Threads : /\ pc'[t] = "take" <=> pc[t] = "take"
                                /\ pc'[t] = "recheck" <=> pc[t] = "recheck"
      BY <1>0, <1>t, <2>2, ScanFrame, Zenon
    <2>4. \A t \in Threads : pc[t] # "take"
      BY <1>1, CountSeesSleepers, Zenon
    <2>5. TokenInv'
      BY <1>0, <2>3, TokensKept, Zenon
    <2>6. WakeInv'
      BY <2>3, <2>4, Zenon DEF WakeInv, Asleep
    <2> QED
      BY <2>3, <2>5, <2>6, Zenon
  <1>2. CASE waiter_count # 0
    <2>1. Goto(a, "words") /\ UNCHANGED <<guard, updated>>
      BY <1>2, Zenon DEF ReadCount
    <2>2. "words" \in SetLabels /\ ("words" \in Scanning <=> pc[a] \in Scanning)
      BY <1>0, Zenon DEF SetLabels, Scanning
    <2>3. /\ TypeOK' /\ GuardInv' /\ PcInv' /\ SlotInv' /\ CountInv' /\ AskedInv' /\ ReportInv'
          /\ pc'[a] = "words" /\ \A b \in Actors \ {a} : pc'[b] = pc[b]
          /\ \A t \in Threads : /\ pc'[t] = "take" <=> pc[t] = "take"
                                /\ pc'[t] = "recheck" <=> pc[t] = "recheck"
      BY <1>0, <1>t, <2>1, <2>2, GotoFrame, Zenon
    <2>4. TokenInv'
      BY <1>0, <2>3, TokensKept, Zenon
    <2>5. WakeInv'
      <3>1. \A t \in Threads, b \in Actors : Coming(b, t) => Coming(b, t)'
        BY <1>0, <2>1, <2>3, Zenon DEF Coming
      <3>2. \A t \in Threads, b \in Actors : Giving(b, my_slot[t]) => Giving(b, my_slot[t])'
        BY <1>0, <2>3, Zenon DEF Giving, Current
      <3>3. \A t \in Threads : Matched(t)' <=> Matched(t)
        BY <1>0, Zenon DEF Matched
      <3> QED
        BY <1>0, <2>3, <3>1, <3>2, <3>3, Zenon DEF WakeInv, Asleep
    <2> QED
      BY <2>3, <2>4, <2>5, Zenon
  <1> QED
    BY <1>1, <1>2, Zenon

(* The words name every slot that a sleeper has.                           *)
LEMMA ReadWordsKeeps ==
  ASSUME EfInv, NEW a \in Actors, ReadWords(a)
  PROVE  EfInv'
  <1>0. /\ pc[a] = "words" /\ pc[a] \in SetLabels /\ Scan(a, active) /\ active \in SUBSET Slots
        /\ UNCHANGED <<bits, sem, in_use, wake_pending, wait_bits, wait_all, active, waiter_count,
                       req, my_slot, actual>>
    BY Zenon DEF ReadWords, slotVars, waitVars, SetLabels, TypeOK, EfInv
  <1>scan. pc[a] \in SetLabels /\ Scan(a, active) /\ active \in SUBSET Slots
    BY <1>0, Zenon
  <1>same. UNCHANGED <<bits, in_use, wait_bits, wait_all, active, waiter_count,
                       req, my_slot, actual>>
    BY <1>0, Zenon
  <1>1. sem' \in [Slots -> 0 .. 1] /\ wake_pending' \in [Slots -> BOOLEAN]
    BY <1>0, Zenon DEF TypeOK, EfInv
  <1>2. /\ TypeOK' /\ GuardInv' /\ PcInv' /\ SlotInv' /\ CountInv' /\ AskedInv' /\ ReportInv'
        /\ \A b \in Actors \ {a} :
              pc'[b] = pc[b] /\ todo'[b] = todo[b] /\ updated'[b] = updated[b]
        /\ \A t \in Threads : /\ pc'[t] = "take" <=> pc[t] = "take"
                              /\ pc'[t] = "recheck" <=> pc[t] = "recheck"
    BY <1>scan, <1>1, <1>same, ScanFrame, Zenon
  <1>todo. todo'[a] = active /\ (active # {} => updated'[a] = updated[a])
    BY <1>0, Zenon DEF Scan, TypeOK, EfInv
  <1> USE DEF EfInv
  <1>3. TokenInv'
    BY <1>0, <1>2, TokensKept, Zenon
  <1>4. WakeInv'
    <2> SUFFICES ASSUME NEW t \in Threads, pc[t] = "take", Matched(t)', sem[my_slot[t]] = 0
                 PROVE  \E b \in Actors : (Coming(b, t) \/ Giving(b, my_slot[t]))'
      BY <1>0, <1>2, Zenon DEF WakeInv, Asleep
    <2>1. Matched(t)
      BY <1>0, Zenon DEF Matched
    <2>2. PICK b \in Actors : Coming(b, t) \/ Giving(b, my_slot[t])
      BY <2>1, Zenon DEF WakeInv, Asleep
    <2>3. my_slot[t] \in active
      BY CountSeesSleepers, Zenon
    <2>4. b = a => Coming(a, t)
      BY <1>0, <2>2, Zenon DEF Giving
    <2> QED
      BY <1>0, <1>2, <1>todo, <2>2, <2>3, <2>4, ScansGoOn, Zenon
  <1> QED
    BY <1>2, <1>3, <1>4, Zenon

(* A wait that may sleep has a slot that says so.                          *)
LEMMA SleepersAreListed ==
  ASSUME EfInv, NEW t \in Threads, pc[t] \in {"recheck", "take"}
  PROVE  /\ my_slot[t] \in Slots /\ in_use[my_slot[t]]
         /\ wait_bits[my_slot[t]] = req[t].bits /\ wait_all[my_slot[t]] = req[t].all
  <1> USE DEF EfInv
  <1>1. t \in Waiters /\ my_slot[t] # NoSlot
    BY Zenon DEF PcInv, Slotted, Waiters, Registered
  <1>2. my_slot[t] \in Slots /\ my_slot[t] \in active
    BY <1>1, Zenon DEF SlotInv, TypeOK
  <1> QED
    BY <1>1, <1>2, Zenon DEF SlotInv, AskedInv

(* A scan that has done with a slot: its sleeper has a token, or another   *)
(* actor is giving it one or coming for it.                                *)
LEMMA NextSlotKeeps ==
  ASSUME EfInv, NEW a \in Actors, pc[a] \in Scanning, Scan(a, todo[a] \ {Current(a)}),
         UNCHANGED <<bits, in_use, wait_bits, wait_all, active, waiter_count,
                     req, my_slot, actual>>,
         sem' \in [Slots -> 0 .. 1], wake_pending' \in [Slots -> BOOLEAN],
         \A s \in Slots \ {Current(a)} :
            sem'[s] = sem[s] /\ wake_pending'[s] = wake_pending[s],
         pc[a] = "give" => sem'[Current(a)] = 1,
         \A t \in Threads :
            pc[t] \in {"recheck", "take"} /\ my_slot[t] = Current(a) /\ sem'[my_slot[t]] = 0 =>
              /\ wake_pending'[my_slot[t]] =>
                   \E b \in Actors \ {a} : Giving(b, my_slot[t])
              /\ pc[t] = "take" /\ Matched(t) =>
                   \E b \in Actors \ {a} : Coming(b, t) \/ Giving(b, my_slot[t])
  PROVE  EfInv'
  <1> DEFINE slots == todo[a] \ {Current(a)}
  <1>1. pc[a] \in SetLabels /\ slots \in SUBSET Slots
    BY Zenon DEF Scanning, SetLabels, TypeOK, EfInv
  <1> HIDE DEF slots
  <1>2. Scan(a, slots)
    BY Zenon DEF slots
  <1>3. /\ TypeOK' /\ GuardInv' /\ PcInv' /\ SlotInv' /\ CountInv' /\ AskedInv' /\ ReportInv'
        /\ \A b \in Actors \ {a} :
              pc'[b] = pc[b] /\ todo'[b] = todo[b] /\ updated'[b] = updated[b]
        /\ \A t \in Threads : /\ pc'[t] = "take" <=> pc[t] = "take"
                              /\ pc'[t] = "recheck" <=> pc[t] = "recheck"
    BY <1>1, <1>2, ScanFrame, Zenon
  <1>todo. todo'[a] = slots /\ (slots # {} => updated'[a] = updated[a])
    BY <1>1, <1>2, Zenon DEF Scan, TypeOK, EfInv
  <1> USE DEF EfInv
  <1>4. \A t \in Threads, b \in Actors :
           /\ b # a /\ Coming(b, t) => Coming(b, t)'
           /\ b # a /\ Giving(b, my_slot[t]) => Giving(b, my_slot[t])'
           /\ Coming(a, t) /\ my_slot[t] \in slots => Coming(a, t)'
    BY <1>3, <1>todo, ScansGoOn, Zenon
  <1>5. TokenInv'
    <2> SUFFICES ASSUME NEW t \in Threads, pc[t] \in {"recheck", "take"},
                        wake_pending'[my_slot[t]], sem'[my_slot[t]] = 0
                 PROVE  \E b \in Actors : Giving(b, my_slot[t])'
      BY <1>3, Zenon DEF TokenInv
    <2>1. CASE my_slot[t] = Current(a)
      BY <1>4, <2>1, Zenon
    <2>2. CASE my_slot[t] # Current(a)
      <3>1. my_slot[t] \in Slots \ {Current(a)}
        BY <2>2, SleepersAreListed, Zenon
      <3>2. PICK b \in Actors : Giving(b, my_slot[t])
        BY <3>1, Zenon DEF TokenInv
      <3>3. b # a
        BY <2>2, <3>2, Zenon DEF Giving
      <3> QED
        BY <1>4, <3>2, <3>3, Zenon
    <2> QED
      BY <2>1, <2>2, Zenon
  <1>6. WakeInv'
    <2> SUFFICES ASSUME NEW t \in Threads, pc[t] = "take", Matched(t)', sem'[my_slot[t]] = 0
                 PROVE  \E b \in Actors : (Coming(b, t) \/ Giving(b, my_slot[t]))'
      BY <1>3, Zenon DEF WakeInv, Asleep
    <2>0. Matched(t)
      BY Zenon DEF Matched
    <2>1. CASE my_slot[t] = Current(a)
      BY <1>4, <2>0, <2>1, Zenon
    <2>2. CASE my_slot[t] # Current(a)
      <3>1. my_slot[t] \in Slots \ {Current(a)}
        BY <2>2, SleepersAreListed, Zenon
      <3>2. PICK b \in Actors : Coming(b, t) \/ Giving(b, my_slot[t])
        BY <2>0, <3>1, Zenon DEF WakeInv, Asleep
      <3>3. CASE b # a
        BY <1>4, <3>2, <3>3, Zenon
      <3>4. CASE b = a
        <4>1. Coming(a, t)
          BY <2>2, <3>2, <3>4, Zenon DEF Giving
        <4>2. my_slot[t] \in slots
          BY <2>2, <4>1, Zenon DEF Coming, slots, Scanning
        <4> QED
          BY <1>4, <4>1, <4>2, Zenon
      <3> QED
        BY <3>3, <3>4, Zenon
    <2> QED
      BY <2>1, <2>2, Zenon
  <1> QED
    BY <1>3, <1>5, <1>6, Zenon

(* A scan that finds something to do at its slot.                          *)
LEMMA SameSlotKeeps ==
  ASSUME EfInv, NEW a \in Actors, pc[a] \in {"look", "match"},
         NEW l \in {"match", "exchange"}, Goto(a, l),
         UNCHANGED <<guard, bits, slotVars, waitVars, scanVars>>
  PROVE  EfInv'
  <1> USE DEF EfInv
  <1>1. /\ UNCHANGED <<guard, bits, sem, in_use, wake_pending, wait_bits, wait_all, active,
                       waiter_count, req, my_slot, actual, updated, todo>>
        /\ wake_pending' \in [Slots -> BOOLEAN]
    BY Zenon DEF slotVars, waitVars, scanVars, TypeOK
  <1>2. pc[a] \in SetLabels /\ l \in SetLabels /\ (l \in Scanning <=> pc[a] \in Scanning)
    BY Zenon DEF SetLabels, Scanning
  <1>3. /\ TypeOK' /\ GuardInv' /\ PcInv' /\ SlotInv' /\ CountInv' /\ AskedInv' /\ ReportInv'
        /\ pc'[a] = l /\ \A b \in Actors \ {a} : pc'[b] = pc[b]
        /\ \A t \in Threads : /\ pc'[t] = "take" <=> pc[t] = "take"
                              /\ pc'[t] = "recheck" <=> pc[t] = "recheck"
    BY <1>1, <1>2, GotoFrame, Zenon
  <1>4. TokenInv'
    BY <1>1, <1>3, TokensKept, Zenon
  <1>5. WakeInv'
    <2>1. \A t \in Threads, b \in Actors : Coming(b, t) => Coming(b, t)'
      BY <1>1, <1>3, Zenon DEF Coming
    <2>2. \A t \in Threads, b \in Actors : Giving(b, my_slot[t]) => Giving(b, my_slot[t])'
      BY <1>1, <1>3, Zenon DEF Giving, Current
    <2>3. \A t \in Threads : Matched(t)' <=> Matched(t)
      BY <1>1, Zenon DEF Matched
    <2> QED
      BY <1>1, <1>3, <2>1, <2>2, <2>3, Zenon DEF WakeInv, Asleep
  <1> QED
    BY <1>3, <1>4, <1>5, Zenon

(* A slot that is not in use has no sleeper.                               *)
LEMMA LookKeeps ==
  ASSUME EfInv, NEW a \in Actors, Look(a)
  PROVE  EfInv'
  <1> USE DEF EfInv
  <1>0. /\ pc[a] = "look" /\ UNCHANGED <<bits, slotVars, waitVars>>
        /\ OrNextSlot(a, in_use[Current(a)], "match")
    BY Zenon DEF Look
  <1>1. CASE in_use[Current(a)]
    BY <1>0, <1>1, SameSlotKeeps, Zenon DEF OrNextSlot
  <1>2. CASE ~in_use[Current(a)]
    <2>1. /\ Scan(a, todo[a] \ {Current(a)}) /\ pc[a] \in Scanning /\ pc[a] # "give"
          /\ UNCHANGED <<bits, sem, wake_pending, in_use, wait_bits, wait_all, active,
                         waiter_count, req, my_slot, actual>>
      BY <1>0, <1>2, Zenon DEF OrNextSlot, slotVars, waitVars, Scanning
    <2>2. sem' \in [Slots -> 0 .. 1] /\ wake_pending' \in [Slots -> BOOLEAN]
      BY <2>1, Zenon DEF TypeOK
    <2>3. \A t \in Threads : pc[t] \in {"recheck", "take"} => my_slot[t] # Current(a)
      BY <1>2, SleepersAreListed, Zenon
    <2> QED
      BY <2>1, <2>2, <2>3, NextSlotKeeps, Zenon
  <1> QED
    BY <1>1, <1>2, Zenon

(* The predicate of a slot is its owner's request, so a scan that comes    *)
(* for a sleeper does not pass it by.                                      *)
LEMMA MatchKeeps ==
  ASSUME EfInv, NEW a \in Actors, Match(a)
  PROVE  EfInv'
  <1> USE DEF EfInv
  <1> DEFINE hit == Matches(wait_bits[Current(a)], wait_all[Current(a)], updated[a])
  <1>0. /\ pc[a] = "match" /\ UNCHANGED <<bits, slotVars, waitVars>>
        /\ OrNextSlot(a, hit, "exchange")
    BY Zenon DEF Match
  <1>1. CASE hit
    <2>1. Goto(a, "exchange") /\ UNCHANGED <<guard, scanVars>>
      BY <1>0, <1>1, Zenon DEF OrNextSlot
    <2> QED
      BY <1>0, <2>1, SameSlotKeeps, Zenon
  <1>2. CASE ~hit
    <2>1. /\ Scan(a, todo[a] \ {Current(a)}) /\ pc[a] \in Scanning /\ pc[a] # "give"
          /\ UNCHANGED <<bits, sem, wake_pending, in_use, wait_bits, wait_all, active,
                         waiter_count, req, my_slot, actual>>
      BY <1>0, <1>2, Zenon DEF OrNextSlot, slotVars, waitVars, Scanning
    <2>2. sem' \in [Slots -> 0 .. 1] /\ wake_pending' \in [Slots -> BOOLEAN]
      BY <2>1, Zenon DEF TypeOK
    <2>3. ASSUME NEW t \in Threads, pc[t] \in {"recheck", "take"}, my_slot[t] = Current(a),
                 sem[my_slot[t]] = 0
          PROVE  /\ wake_pending[my_slot[t]] =>
                      \E b \in Actors \ {a} : Giving(b, my_slot[t])
                 /\ pc[t] = "take" /\ Matched(t) =>
                      \E b \in Actors \ {a} : Coming(b, t) \/ Giving(b, my_slot[t])
      <3>1. ~Coming(a, t)
        BY <1>2, <2>3, SleepersAreListed, Zenon DEF Coming
      <3>2. \A s : ~Giving(a, s)
        BY <1>0, Zenon DEF Giving
      <3>3. wake_pending[my_slot[t]] => \E b \in Actors : Giving(b, my_slot[t])
        BY <2>3, Zenon DEF TokenInv
      <3>4. pc[t] = "take" /\ Matched(t) =>
              \E b \in Actors : Coming(b, t) \/ Giving(b, my_slot[t])
        BY <2>3, Zenon DEF WakeInv, Asleep
      <3> QED
        BY <3>1, <3>2, <3>3, <3>4, Zenon
    <2>4. /\ sem' = sem /\ wake_pending' = wake_pending
      BY <2>1, Zenon
    <2> QED
      BY <2>1, <2>2, <2>3, <2>4, NextSlotKeeps, Zenon
  <1> QED
    BY <1>1, <1>2, Zenon

(* A slot that is pending already has its token, or somebody gives it one. *)
LEMMA ExchangeKeeps ==
  ASSUME EfInv, NEW a \in Actors, Exchange(a)
  PROVE  EfInv'
  <1> USE DEF EfInv
  <1>0. /\ pc[a] = "exchange" /\ OrNextSlot(a, ~wake_pending[Current(a)], "give")
        /\ wake_pending' = [wake_pending EXCEPT ![Current(a)] = TRUE]
        /\ UNCHANGED <<bits, sem, in_use, wait_bits, wait_all, active, waiter_count,
                       req, my_slot, actual>>
    BY Zenon DEF Exchange, waitVars
  <1>t. Current(a) \in Slots /\ wake_pending' \in [Slots -> BOOLEAN] /\ sem' \in [Slots -> 0 .. 1]
    BY <1>0, CurrentIsLeft, Zenon DEF TypeOK, Scanning
  <1>1. CASE wake_pending[Current(a)]
    <2>1. Scan(a, todo[a] \ {Current(a)}) /\ pc[a] \in Scanning /\ pc[a] # "give"
      BY <1>0, <1>1, Zenon DEF OrNextSlot, Scanning
    <2>2. \A s \in Slots \ {Current(a)} : sem'[s] = sem[s] /\ wake_pending'[s] = wake_pending[s]
      BY <1>0, Zenon DEF TypeOK
    <2>3. ASSUME NEW t \in Threads, pc[t] \in {"recheck", "take"}, my_slot[t] = Current(a),
                 sem[my_slot[t]] = 0
          PROVE  \E b \in Actors \ {a} : Giving(b, my_slot[t])
      <3>1. PICK b \in Actors : Giving(b, my_slot[t])
        BY <1>1, <2>3, Zenon DEF TokenInv
      <3> QED
        BY <1>0, <3>1, Zenon DEF Giving
    <2> QED
      BY <1>0, <1>t, <2>1, <2>2, <2>3, NextSlotKeeps, Zenon
  <1>2. CASE ~wake_pending[Current(a)]
    <2>1. Goto(a, "give") /\ UNCHANGED <<guard, updated, todo>>
      BY <1>0, <1>2, Zenon DEF OrNextSlot, scanVars
    <2>2. pc[a] \in SetLabels /\ "give" \in SetLabels /\ ("give" \in Scanning <=> pc[a] \in Scanning)
      BY <1>0, Zenon DEF SetLabels, Scanning
    <2>3. /\ TypeOK' /\ GuardInv' /\ PcInv' /\ SlotInv' /\ CountInv' /\ AskedInv' /\ ReportInv'
          /\ pc'[a] = "give" /\ \A b \in Actors \ {a} : pc'[b] = pc[b]
          /\ \A t \in Threads : /\ pc'[t] = "take" <=> pc[t] = "take"
                                /\ pc'[t] = "recheck" <=> pc[t] = "recheck"
      BY <1>0, <1>t, <2>1, <2>2, GotoFrame, Zenon
    <2>4. \A t \in Threads, b \in Actors : Coming(b, t) => Coming(b, t)'
      BY <1>0, <2>1, <2>3, Zenon DEF Coming
    <2>5. \A t \in Threads, b \in Actors : Giving(b, my_slot[t]) => Giving(b, my_slot[t])'
      BY <1>0, <2>1, <2>3, Zenon DEF Giving, Current
    <2>6. Giving(a, Current(a))'
      BY <2>1, <2>3, Zenon DEF Giving, Current
    <2>7. TokenInv'
      <3> SUFFICES ASSUME NEW t \in Threads, pc[t] \in {"recheck", "take"},
                          wake_pending'[my_slot[t]], sem[my_slot[t]] = 0
                   PROVE  \E b \in Actors : Giving(b, my_slot[t])'
        BY <1>0, <2>3, Zenon DEF TokenInv
      <3>1. CASE my_slot[t] = Current(a)
        BY <1>0, <2>1, <2>3, <3>1, Zenon DEF Giving, Current
      <3>2. CASE my_slot[t] # Current(a)
        <4>1. wake_pending[my_slot[t]]
          BY <1>0, <3>2, SleepersAreListed, Zenon DEF TypeOK
        <4> QED
          BY <2>5, <4>1, Zenon DEF TokenInv
      <3> QED
        BY <3>1, <3>2, Zenon
    <2>8. \A t \in Threads : Matched(t)' <=> Matched(t)
      BY <1>0, Zenon DEF Matched
    <2>9. WakeInv'
      BY <1>0, <2>3, <2>4, <2>5, <2>8, Zenon DEF WakeInv, Asleep
    <2> QED
      BY <2>3, <2>7, <2>9, Zenon
  <1> QED
    BY <1>1, <1>2, Zenon

(* The token is there when the scan moves on.                              *)
LEMMA GiveSlotKeeps ==
  ASSUME EfInv, NEW a \in Actors, GiveSlot(a)
  PROVE  EfInv'
  <1> USE DEF EfInv
  <1>0. /\ pc[a] = "give" /\ pc[a] \in Scanning /\ Scan(a, todo[a] \ {Current(a)})
        /\ sem' = [sem EXCEPT ![Current(a)] = 1]
        /\ UNCHANGED <<bits, in_use, wake_pending, wait_bits, wait_all, active, waiter_count,
                       req, my_slot, actual>>
    BY Zenon DEF GiveSlot, waitVars, Scanning
  <1>1. Current(a) \in Slots
    BY <1>0, CurrentIsLeft, Zenon
  <1>2. /\ sem' \in [Slots -> 0 .. 1] /\ wake_pending' \in [Slots -> BOOLEAN]
        /\ sem'[Current(a)] = 1
        /\ \A s \in Slots \ {Current(a)} : sem'[s] = sem[s] /\ wake_pending'[s] = wake_pending[s]
    BY <1>0, <1>1 DEF TypeOK
  <1>3. \A t \in Threads : my_slot[t] = Current(a) => sem'[my_slot[t]] # 0
    BY <1>2
  <1> QED
    BY <1>0, <1>2, <1>3, NextSlotKeeps, Zenon

-----------------------------------------------------------------------------
(*                              The theorem                                *)

(* Every step of a task or an interrupt keeps the invariant.               *)
LEMMA EfStepHolds == EfInv /\ [Next]_vars => EfInv'
  <1> SUFFICES ASSUME EfInv, [Next]_vars PROVE EfInv'
    BY Zenon
  <1>1. CASE UNCHANGED vars
    BY <1>1, EfStutters, Zenon
  <1>2. ASSUME NEW t \in Threads,
               \/ Wait(t) \/ WaitStep(t) \/ Expire(t)
               \/ osal_event_flags_set(t) \/ osal_event_flags_clear(t)
        PROVE  EfInv'
    <2>1. CASE Wait(t)
      BY <2>1, WaitKeeps, Zenon
    <2>2. CASE WaitStep(t)
      BY <2>2, ClaimKeeps, PublishKeeps, RecheckKeeps, TakeKeeps, WokenKeeps, ReopenKeeps,
         ReportKeeps, ClearKeeps, ReleaseKeeps, Zenon DEF WaitStep
    <2>3. CASE Expire(t)
      BY <2>3, ExpireKeeps, Zenon
    <2>4. CASE osal_event_flags_set(t)
      BY <2>4, SetBitsKeeps, Distinct, Zenon DEF osal_event_flags_set
    <2>5. CASE osal_event_flags_clear(t)
      BY <2>5, ClearFlagsKeeps, Zenon
    <2> QED
      BY <1>2, <2>1, <2>2, <2>3, <2>4, <2>5, Zenon
  <1>3. ASSUME NEW i \in Isrs, osal_event_flags_set_isr(i)
        PROVE  EfInv'
    BY <1>3, SetBitsKeeps, Distinct, Zenon DEF osal_event_flags_set_isr
  <1>4. ASSUME NEW a \in Actors, SetStep(a)
        PROVE  EfInv'
    BY <1>4, ReadCountKeeps, ReadWordsKeeps, LookKeeps, MatchKeeps, ExchangeKeeps, GiveSlotKeeps,
       Zenon DEF SetStep
  <1> QED
    BY <1>1, <1>2, <1>3, <1>4, Zenon DEF Next

(* What the invariant says of the object as its callers see it.            *)
LEMMA EfInvImplies == EfInv => FlagsReachWaiters
  <1> SUFFICES ASSUME EfInv PROVE FlagsReachWaiters
    BY Zenon
  <1> USE DEF EfInv
  <1>1. SlotsMatchWaiters
    <2>1. active = {my_slot[t] : t \in Waiters}
      BY DEF SlotInv
    <2>2. waiter_count = Cardinality(Waiters)
      BY WaitersCounted, Zenon DEF CountInv
    <2> QED
      BY <2>1, <2>2, Zenon DEF SlotsMatchWaiters, SlotInv, Waiters
  <1>2. PendingMeansToken
    BY Zenon DEF PendingMeansToken, TokenInv, Asleep, Giving
  <1>3. NoLostWakeup
    <2>1. ASSUME NEW a \in Actors, NEW t \in Threads, Coming(a, t) \/ Giving(a, my_slot[t])
          PROVE  Setting(a)
      BY <2>1, Zenon DEF Coming, Giving, Setting, PcInv, Scanning, SetLabels
    <2> QED
      BY <2>1, Zenon DEF NoLostWakeup, WakeInv
  <1>4. DeliveredOnce
    BY Zenon DEF DeliveredOnce, ReportInv
  <1> QED
    BY <1>1, <1>2, <1>3, <1>4, Zenon DEF FlagsReachWaiters, WellFormed

(* No set is lost on its way to a waiter, whatever the number of tasks,    *)
(* interrupts, flags and slots: in_use, active_waiter_words and            *)
(* waiter_count agree on who waits, nobody sleeps while its flags are set  *)
(* unless a set is still under way, and flags that are cleared on exit are *)
(* given to one wait.                                                      *)
THEOREM FlagsReachWaitersHolds == Spec => []FlagsReachWaiters
  <1>1. Init => EfInv
    BY EfInitHolds, Zenon
  <1>2. EfInv /\ [Next]_vars => EfInv'
    BY EfStepHolds, Zenon
  <1>3. EfInv => FlagsReachWaiters
    BY EfInvImplies, Zenon
  <1> QED
    BY <1>1, <1>2, <1>3, PTL DEF Spec
=============================================================================
