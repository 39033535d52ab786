------------------------------- MODULE PubSub -------------------------------
(***************************************************************************)
(* What an event bus promises: publish delivers the event to the handlers  *)
(* that were subscribed to its topic when it began, in the order in which  *)
(* they subscribed, each once, except those that have been unsubscribed in *)
(* the meantime; so too when handlers subscribe, unsubscribe and publish   *)
(* themselves.  EventBus is shown to implement this module.                *)
(***************************************************************************)
EXTENDS Filtering

CONSTANTS Topics, MaxIds,
          None  \* no subscription

VARIABLES live,   \* live[t]: the ids subscribed to topic t, oldest first
          calls,  \* the publishes under way, innermost last: which ids are
                  \* still to be called, and whose handler is running
          nextId

vars == <<live, calls, nextId>>

Init == /\ live = [t \in Topics |-> <<>>]
        /\ calls = <<>>
        /\ nextId = 0

Without(ids, id) == Keep(ids, {k \in DOMAIN ids : ids[k] # id})

\* The innermost publish runs, not a handler or the main program.
Looping == calls # <<>> /\ calls[Len(calls)].running = None

Subscribe(t) ==
  /\ ~Looping
  /\ nextId < MaxIds
  /\ live' = [live EXCEPT ![t] = Append(@, nextId)]
  /\ nextId' = nextId + 1
  /\ UNCHANGED calls

Unsubscribe(id) ==
  /\ ~Looping
  /\ live' = [t \in Topics |-> Without(live[t], id)]
  /\ calls' = [k \in DOMAIN calls |->
                 [calls[k] EXCEPT !.pending = Without(@, id)]]
  /\ UNCHANGED nextId

Publish(t) ==
  /\ ~Looping
  /\ calls' = Append(calls, [pending |-> live[t], running |-> None])
  /\ UNCHANGED <<live, nextId>>

\* The innermost publish calls the next handler, is back from it, returns.
Replace(call) == /\ calls' = [calls EXCEPT ![Len(calls)] = call]
                 /\ UNCHANGED <<live, nextId>>

Deliver ==
  /\ Looping
  /\ LET call == calls[Len(calls)]
     IN /\ call.pending # <<>>
        /\ Replace([pending |-> Tail(call.pending), running |-> Head(call.pending)])

Return ==
  /\ calls # <<>>
  /\ ~Looping
  /\ Replace([calls[Len(calls)] EXCEPT !.running = None])

End ==
  /\ Looping
  /\ calls[Len(calls)].pending = <<>>
  /\ calls' = SubSeq(calls, 1, Len(calls) - 1)
  /\ UNCHANGED <<live, nextId>>

Next == \/ \E t \in Topics : Subscribe(t) \/ Publish(t)
        \/ \E id \in 0..(MaxIds - 1) : Unsubscribe(id)
        \/ Deliver \/ Return \/ End

Spec == Init /\ [][Next]_vars
=============================================================================
