---------------------------- MODULE AbstractQueue ----------------------------
(***************************************************************************)
(* What osal::queue promises: a bounded FIFO.  An item a call has offered  *)
(* is appended once or withdrawn; an item taken from the front is handed   *)
(* to one caller.                                                          *)
(***************************************************************************)
EXTENDS Naturals, Sequences

CONSTANTS Tasks, Values, Bound, NoValue

VARIABLES items,   \* the queue
          offer,   \* what each call in progress wants to append
          held,    \* what each call has taken and not yet handed over
          out      \* what the last step handed to its caller

absVars == <<items, offer, held, out>>

AbsInit ==
  /\ items = <<>>
  /\ offer = [t \in Tasks |-> NoValue]
  /\ held = [t \in Tasks |-> NoValue]
  /\ out = NoValue

Offer(t) ==
  /\ offer[t] = NoValue /\ held[t] = NoValue
  /\ \E v \in Values : offer' = [offer EXCEPT ![t] = v]
  /\ out' = NoValue
  /\ UNCHANGED <<items, held>>

Withdraw(t) ==
  /\ offer[t] # NoValue
  /\ offer' = [offer EXCEPT ![t] = NoValue]
  /\ out' = NoValue
  /\ UNCHANGED <<items, held>>

Put(t) ==
  /\ offer[t] # NoValue /\ Len(items) < Bound
  /\ items' = Append(items, offer[t])
  /\ offer' = [offer EXCEPT ![t] = NoValue]
  /\ out' = NoValue
  /\ UNCHANGED held

(* A call that offers and appends at once.                                 *)
PutNow ==
  /\ Len(items) < Bound
  /\ \E v \in Values : items' = Append(items, v)
  /\ out' = NoValue
  /\ UNCHANGED <<offer, held>>

Get ==
  /\ items # <<>>
  /\ items' = Tail(items) /\ out' = Head(items)
  /\ UNCHANGED <<offer, held>>

Take(t) ==
  /\ items # <<>> /\ offer[t] = NoValue /\ held[t] = NoValue
  /\ items' = Tail(items)
  /\ held' = [held EXCEPT ![t] = Head(items)]
  /\ out' = NoValue
  /\ UNCHANGED offer

Deliver(t) ==
  /\ held[t] # NoValue
  /\ out' = held[t]
  /\ held' = [held EXCEPT ![t] = NoValue]
  /\ UNCHANGED <<items, offer>>

Peek ==
  /\ items # <<>>
  /\ out' = Head(items)
  /\ UNCHANGED <<items, offer, held>>

Quiet == out' = NoValue /\ UNCHANGED <<items, offer, held>>

AbsNext ==
  \/ \E t \in Tasks : Offer(t) \/ Withdraw(t) \/ Put(t) \/ Take(t) \/ Deliver(t)
  \/ PutNow \/ Get \/ Peek \/ Quiet

AbsSpec == AbsInit /\ [][AbsNext]_absVars
=============================================================================
