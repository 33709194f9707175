------------------------------ MODULE WaitSet ------------------------------
(***************************************************************************)
(* notification (include/osal/notification.hpp), slots with a pending flag *)
(* behind a mutex and the emulated condition variable, and the             *)
(* object_wait_set (include/osal/object_wait_set.hpp) that polls such      *)
(* slots, event flags and other objects.  The thread Watcher owns the wait *)
(* set, the others wait for slots, and anybody may notify and reset one.   *)
(* The values of the slots are left out: nothing branches on them.         *)
(*                                                                         *)
(* A section under the notification's mutex is one step, so the probe of a *)
(* clear-on-exit entry is two: it reads the object and then clears it.     *)
(***************************************************************************)
EXTENDS Condvar, Sequences

CONSTANTS NoteSlots,      \* indices of the notification
          FlagBits,       \* bits of the event flags
          Registrations,  \* what add may register: [kind, arg, clear]
          MaxEntries,     \* OSAL_OBJECT_WAIT_SET_MAX_ENTRIES
          MaxReady,       \* the capacity of the caller's ready_ids
          Watcher,
          NoEntry

ASSUME WaitSetAssumption ==
  /\ MaxEntries \in Nat \ {0} /\ MaxReady \in Nat \ {0}
  /\ Watcher \in Threads /\ NoteSlots # {}
  /\ NoEntry \notin Registrations
  /\ \A e \in Registrations : e.kind \in {"notification", "event_any", "event_all", "other"}

VARIABLES pending,   \* the slots whose pending flag is set
          noteUser,  \* what each thread does with the notification
          noteIndex, \* the slot it waits for
          flags,     \* the event flags, as the set of bits
          entries,   \* entries_
          scan,      \* where the watcher is in wait: <<>> outside, or the entry it probes
          found,     \* the entries that were ready in this pass, with what each matched
          owed       \* ghost: notified slots and set bits nobody was told of

scanVars == <<entries, scan, found>>
wsVars == <<pending, noteUser, noteIndex, flags, scanVars, owed>>

Slot(s) == <<"slot", s>>
Bit(b) == <<"bit", b>>

WsTypeOK ==
  /\ pending \subseteq NoteSlots /\ flags \subseteq FlagBits
  /\ noteUser \in [Threads -> {"idle", "wait", "wait_for"}]
  /\ noteIndex \in [Threads -> NoteSlots]
  /\ entries \in [1 .. MaxEntries -> Registrations \cup {NoEntry}]
  /\ owed \subseteq {Slot(s) : s \in NoteSlots} \cup {Bit(b) : b \in FlagBits}

WsInit ==
  /\ CvInit
  /\ pending = {} /\ flags = {} /\ owed = {}
  /\ noteUser = [t \in Threads |-> "idle"]
  /\ noteIndex = [t \in Threads |-> CHOOSE s \in NoteSlots : TRUE]
  /\ entries = [i \in 1 .. MaxEntries |-> NoEntry]
  /\ scan = <<>> /\ found = <<>>

-----------------------------------------------------------------------------
(* Variant: only one of the threads that wait is woken.                    *)
NoteNotify_One(s, action) ==
  /\ mutex = NoThread
  /\ IF action = "no_overwrite" /\ s \in pending
       THEN UNCHANGED <<cvRest, pending, owed>>
       ELSE /\ pending' = pending \cup {s}
            /\ owed' = owed \cup {Slot(s)}
            /\ osal_condvar_notify_one
  /\ UNCHANGED <<mutex, noteUser, noteIndex, flags, scanVars>>

(* notify: no_overwrite is refused while the slot is pending; the other    *)
(* actions change its value and make it pending.                           *)
NoteNotify(s, action) ==
  /\ mutex = NoThread
  /\ IF action = "no_overwrite" /\ s \in pending
       THEN UNCHANGED <<cvRest, pending, owed>>
       ELSE /\ pending' = pending \cup {s}
            /\ owed' = owed \cup {Slot(s)}
            /\ osal_condvar_notify_all
  /\ UNCHANGED <<mutex, noteUser, noteIndex, flags, scanVars>>

NoteReset(s) ==
  /\ mutex = NoThread
  /\ pending' = pending \ {s}
  /\ owed' = owed \ {Slot(s)}
  /\ UNCHANGED <<cvVars, noteUser, noteIndex, flags, scanVars>>

(* wait ends, with the slot's notification or without, and unlocks.        *)
NoteLeave(t, s, took) ==
  /\ pending' = pending \ took
  /\ owed' = owed \ {Slot(u) : u \in took}
  /\ mutex' = NoThread
  /\ noteUser' = [noteUser EXCEPT ![t] = "idle"]
  /\ noteIndex' = [noteIndex EXCEPT ![t] = CHOOSE u \in NoteSlots : TRUE]
  /\ my_slot' = [my_slot EXCEPT ![t] = 0]
  /\ timed' = [timed EXCEPT ![t] = FALSE]
  /\ r' = [r EXCEPT ![t] = "ok"]
  /\ UNCHANGED <<in_use, signalled, sem, n_waiters, wpc>>

NoteSleep(t, s, kind) ==
  /\ WaitCall(t, kind = "wait_for")
  /\ mutex' = t
  /\ noteUser' = [noteUser EXCEPT ![t] = kind]
  /\ noteIndex' = [noteIndex EXCEPT ![t] = s]
  /\ UNCHANGED <<pending, owed>>

(* wait, entered with the mutex unlocked ...                               *)
NoteWait(t, s, kind) ==
  /\ t # Watcher /\ noteUser[t] = "idle" /\ mutex = NoThread
  /\ IF s \in pending THEN NoteLeave(t, s, {s}) ELSE NoteSleep(t, s, kind)
  /\ UNCHANGED <<flags, scanVars>>

(* ... and after each osal_condvar_wait, by the loops of condvar.hpp.      *)
NoteRecheck(t) ==
  /\ noteUser[t] # "idle" /\ wpc[t] = "out" /\ mutex = t
  /\ LET s == noteIndex[t] IN
       \/ s \in pending /\ NoteLeave(t, s, {s})
       \/ s \notin pending /\ noteUser[t] = "wait_for" /\ NoteLeave(t, s, {})
       \/ s \notin pending /\ (noteUser[t] = "wait" \/ r[t] = "ok") /\ NoteSleep(t, s, noteUser[t])
  /\ UNCHANGED <<flags, scanVars>>

NoteWaitStep(t) == WaitStep(t) /\ UNCHANGED wsVars
-----------------------------------------------------------------------------
(* Event flags set and cleared by others.                                  *)
SetFlag(b) ==
  /\ flags' = flags \cup {b} /\ owed' = owed \cup {Bit(b)}
  /\ UNCHANGED <<cvVars, pending, noteUser, noteIndex, scanVars>>

ClearFlag(b) ==
  /\ flags' = flags \ {b} /\ owed' = owed \ {Bit(b)}
  /\ UNCHANGED <<cvVars, pending, noteUser, noteIndex, scanVars>>

-----------------------------------------------------------------------------
Unused == {i \in 1 .. MaxEntries : entries[i] = NoEntry}

(* add: the first inactive entry; without one it returns overflow.         *)
add_entry(e) ==
  /\ scan = <<>>
  /\ \E i \in Unused : IsLowest(i, Unused) /\ entries' = [entries EXCEPT ![i] = e]
  /\ UNCHANGED <<cvVars, pending, noteUser, noteIndex, flags, scan, found, owed>>

remove(i) ==
  /\ scan = <<>> /\ i \notin Unused
  /\ entries' = [entries EXCEPT ![i] = NoEntry]
  /\ UNCHANGED <<cvVars, pending, noteUser, noteIndex, flags, scan, found, owed>>

(* What an entry finds when its probe reads the object; {} is not ready.   *)
(* Of an object that is only looked at (a queue, mailbox, buffer, work     *)
(* queue or delayable item) nothing is known.                              *)
Matches(e) ==
  IF e = NoEntry THEN {{}} ELSE
  CASE e.kind = "notification" -> {{Slot(s) : s \in {e.arg} \cap pending}}
    [] e.kind = "event_any"    -> {{Bit(b) : b \in e.arg \cap flags}}
    [] e.kind = "event_all"    -> {IF e.arg \subseteq flags THEN {Bit(b) : b \in e.arg} ELSE {}}
    [] e.kind = "other"        -> {{}, {<<"other">>}}

(* wait: a pass over the entries.                                          *)
WsWait ==
  /\ scan = <<>>
  /\ scan' = <<1>> /\ found' = <<>>
  /\ UNCHANGED <<cvVars, pending, noteUser, noteIndex, flags, entries, owed>>

(* Variant: the pass ends at the first entry that is not active.           *)
Probe_StopsAtGap ==
  /\ Len(scan) = 1 /\ scan[1] <= MaxEntries
  /\ LET e == entries[scan[1]] IN
       \E hit \in Matches(e) :
         /\ e # NoEntry /\ e.kind = "notification" => mutex = NoThread
         /\ IF hit = {}
              THEN /\ scan' = <<IF e = NoEntry THEN MaxEntries + 1 ELSE scan[1] + 1>>
                   /\ UNCHANGED found
              ELSE /\ found' = Append(found, [entry |-> scan[1], things |-> hit])
                   /\ scan' = IF e.clear THEN Append(scan, "clear") ELSE <<scan[1] + 1>>
  /\ UNCHANGED <<cvVars, pending, noteUser, noteIndex, flags, entries, owed>>

(* The probe of an entry: the read ...                                     *)
Probe ==
  /\ Len(scan) = 1 /\ scan[1] <= MaxEntries
  /\ LET e == entries[scan[1]] IN
       \E hit \in Matches(e) :
         /\ e # NoEntry /\ e.kind = "notification" => mutex = NoThread
         /\ IF hit = {}
              THEN scan' = <<scan[1] + 1>> /\ UNCHANGED found
              ELSE /\ found' = Append(found, [entry |-> scan[1], things |-> hit])
                   /\ scan' = IF e.clear THEN Append(scan, "clear") ELSE <<scan[1] + 1>>
  /\ UNCHANGED <<cvVars, pending, noteUser, noteIndex, flags, entries, owed>>

(* Variant: the probe clears all flags of the entry, matched or not.       *)
ProbeClears_AllBits ==
  /\ Len(scan) = 2
  /\ LET e == entries[scan[1]]
     IN  IF e.kind = "notification"
           THEN mutex = NoThread /\ pending' = pending \ {e.arg} /\ UNCHANGED flags
           ELSE flags' = flags \ e.arg /\ UNCHANGED pending
  /\ scan' = <<scan[1] + 1>>
  /\ UNCHANGED <<cvVars, noteUser, noteIndex, entries, found, owed>>

(* ... and the clear of what was read, or the reset of the slot.           *)
ProbeClears ==
  /\ Len(scan) = 2
  /\ LET e == entries[scan[1]]
     IN  IF e.kind = "notification"
           THEN mutex = NoThread /\ pending' = pending \ {e.arg} /\ UNCHANGED flags
           ELSE /\ flags' = {b \in flags : Bit(b) \notin found[Len(found)].things}
                /\ UNCHANGED pending
  /\ scan' = <<scan[1] + 1>>
  /\ UNCHANGED <<cvVars, noteUser, noteIndex, entries, found, owed>>

Things(f) == UNION {f[i].things : i \in DOMAIN f}

(* Only the first max_ready entries are reported.                          *)
Reported == SubSeq(found, 1, IF Len(found) < MaxReady THEN Len(found) ELSE MaxReady)

(* The end of a pass: return what was found, or give up or sleep and poll  *)
(* again, as the timeout has it.                                           *)
PassEnds ==
  /\ Len(scan) = 1 /\ scan[1] = MaxEntries + 1
  /\ \/ /\ found # <<>>
        /\ scan' = <<>> /\ found' = <<>>
        /\ owed' = owed \ Things(Reported)
     \/ /\ found = <<>>
        /\ scan' \in {<<>>, <<1>>} /\ UNCHANGED <<found, owed>>
  /\ UNCHANGED <<cvVars, pending, noteUser, noteIndex, flags, entries>>

WatchStep == Probe \/ ProbeClears \/ PassEnds

WsNext ==
  \/ \E s \in NoteSlots :
       \/ \E action \in {"overwrite", "no_overwrite"} : NoteNotify(s, action)
       \/ NoteReset(s)
       \/ \E t \in Threads, kind \in {"wait", "wait_for"} : NoteWait(t, s, kind)
  \/ \E t \in Threads : NoteRecheck(t) \/ NoteWaitStep(t)
  \/ \E b \in FlagBits : SetFlag(b) \/ ClearFlag(b)
  \/ \E e \in Registrations : add_entry(e)
  \/ \E i \in 1 .. MaxEntries : remove(i)
  \/ WsWait \/ WatchStep

WsSpec == WsInit /\ [][WsNext]_<<cvVars, wsVars>>

(* Threads inside a call run on when they are not blocked, and the watcher *)
(* gets the mutex that others keep taking.                                 *)
WsFairSpec ==
  /\ WsSpec
  /\ \A t \in Threads : WF_<<cvVars, wsVars>>(NoteRecheck(t) \/ NoteWaitStep(t))
  /\ SF_<<cvVars, wsVars>>(WatchStep)
-----------------------------------------------------------------------------
(* A notification and a flag stay where a wait can find them until         *)
(* somebody is told, although the probe of a clear-on-exit entry erases    *)
(* what came after its read: what the wait set has erased it is about to   *)
(* report, as long as the caller's array has room for it.                  *)
NothingIsErasedUntold ==
  MaxReady >= MaxEntries =>
    owed \subseteq {Slot(s) : s \in pending} \cup {Bit(b) : b \in flags} \cup Things(found)

(* When all threads have come to rest, none of them waits for a slot that  *)
(* is pending: one notify_all serves the waits for all slots.              *)
NoWaitBesidePending ==
  (\A t \in Threads : noteUser[t] = "idle" \/ (wpc[t] = "take" /\ my_slot[t] \notin sem))
    => \A t \in Threads : noteUser[t] # "idle" => noteIndex[t] \notin pending

(* A wait of the wait set returns if one of its entries stays ready.       *)
WatcherIsTold ==
  \A i \in 1 .. MaxEntries :
    (scan # <<>> /\ {} \notin Matches(entries[i]))
      ~> (scan = <<>> \/ {} \in Matches(entries[i]))
=============================================================================
