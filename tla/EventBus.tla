------------------------------ MODULE EventBus ------------------------------
(***************************************************************************)
(* EventBus of src/DataStructures/Published_Subscriber/                    *)
(* SubscriberDifferentTopicsDeferRemove.cpp: a single-threaded event bus   *)
(* whose handlers may call it back.  publish walks a topic's vector by     *)
(* index while handlers append to it, deactivate entries of it and publish *)
(* themselves; entries are erased only when no publish is under way.       *)
(*                                                                         *)
(* The code that runs is the main program or the handler that the          *)
(* innermost publish has called; it may call any operation of the bus, any *)
(* number of times (SelfUnsubscriber resets its own Subscription).         *)
(* Handlers return: one that throws would leave publishDepth raised.       *)
(***************************************************************************)
EXTENDS Filtering

CONSTANTS Topics,    \* the event types
          MaxIds,    \* bound: how often the program subscribes
          MaxDepth,  \* bound: how deep publishes nest
          None       \* no subscription

ASSUME BoundsAssumption == MaxIds \in Nat /\ MaxDepth \in Nat

ASSUME NoneAssumption == None \notin Nat

VARIABLES table,         \* subscriptionsTable: topic -> entries
          nextId,
          publishDepth,
          frames,        \* the locals of the publishes under way
          handles        \* the Subscription objects that have not been reset

vars == <<table, nextId, publishDepth, frames, handles>>

-----------------------------------------------------------------------------

Entry(id) == [id |-> id, active |-> TRUE]
Deactivated(entries, id) ==
  [k \in DOMAIN entries |-> IF entries[k].id = id
                              THEN [entries[k] EXCEPT !.active = FALSE]
                              ELSE entries[k]]

\* The active entries, in their order.
Active(entries) == Keep(entries, {k \in DOMAIN entries : entries[k].active})

(***************************************************************************)
(* A table without the inactive entries of the topics ts, and without      *)
(* those of them that are then empty: both overloads of cleanup.           *)
(***************************************************************************)
Cleaned(tbl, ts) ==
  [t \in {u \in DOMAIN tbl : u \in ts => Active(tbl[u]) # <<>>} |->
     IF t \in ts THEN Active(tbl[t]) ELSE tbl[t]]

Top == frames[Len(frames)]
ReplaceTop(frame) == frames' = [frames EXCEPT ![Len(frames)] = frame]

\* The loop of the innermost publish runs, not a handler or the main program.
Looping == frames # <<>> /\ Top.running = None

Init == /\ table = <<>>
        /\ nextId = 0
        /\ publishDepth = 0
        /\ frames = <<>>
        /\ handles = {}

-----------------------------------------------------------------------------

Subscribe(t) ==
  /\ ~Looping
  /\ nextId < MaxIds
  /\ nextId' = nextId + 1
  /\ table' = [u \in DOMAIN table \cup {t} |->
                 IF u # t THEN table[u]
                 ELSE IF t \in DOMAIN table THEN Append(table[t], Entry(nextId))
                 ELSE <<Entry(nextId)>>]
  /\ handles' = handles \cup {<<t, nextId>>}
  /\ UNCHANGED <<publishDepth, frames>>

\* unsubscribe's effect on the table (mutant: it cleans up at once).
UnsubscribedAtOnce(t, id) ==
  Cleaned([table EXCEPT ![t] = Deactivated(@, id)], {t})

Unsubscribed(t, id) ==
  LET deactivated == [table EXCEPT ![t] = Deactivated(@, id)]
  IN IF t \notin DOMAIN table THEN table
     ELSE IF publishDepth = 0 THEN Cleaned(deactivated, {t}) ELSE deactivated

\* A Subscription is reset or destroyed; from then on it has no bus.
Reset(h) ==
  /\ ~Looping
  /\ h \in handles
  /\ handles' = handles \ {h}
  /\ table' = Unsubscribed(h[1], h[2])
  /\ UNCHANGED <<nextId, publishDepth, frames>>

-----------------------------------------------------------------------------
(* publish *)

Publish(t) ==
  /\ ~Looping
  /\ Len(frames) < MaxDepth
  /\ t \in DOMAIN table    \* else it returns at once
  /\ publishDepth' = publishDepth + 1
  /\ frames' = Append(frames, [topic |-> t, index |-> 1, running |-> None,
                               initialSize |-> Len(table[t])])
  /\ UNCHANGED <<table, nextId, handles>>

\* The condition of the loop (mutant: the vector's size is read each time).
InsideNow(frame) == frame.index <= Len(table[frame.topic])

Inside(frame) == frame.index <= frame.initialSize

Invoke ==
  /\ Looping
  /\ Inside(Top)
  /\ LET entry == table[Top.topic][Top.index]
     IN entry.active /\ ReplaceTop([Top EXCEPT !.running = entry.id])
  /\ UNCHANGED <<table, nextId, publishDepth, handles>>

SkipInactive ==
  /\ Looping
  /\ Inside(Top)
  /\ ~table[Top.topic][Top.index].active
  /\ ReplaceTop([Top EXCEPT !.index = @ + 1])
  /\ UNCHANGED <<table, nextId, publishDepth, handles>>

HandlerReturns ==
  /\ frames # <<>>
  /\ ~Looping
  /\ ReplaceTop([Top EXCEPT !.running = None, !.index = @ + 1])
  /\ UNCHANGED <<table, nextId, publishDepth, handles>>

\* Mutant: the outermost publish cleans up its own topic only.
EndCleaningOwn ==
  /\ Looping
  /\ ~Inside(Top)
  /\ frames' = SubSeq(frames, 1, Len(frames) - 1)
  /\ publishDepth' = publishDepth - 1
  /\ table' = IF publishDepth' = 0 THEN Cleaned(table, {Top.topic}) ELSE table
  /\ UNCHANGED <<nextId, handles>>

EndPublish ==
  /\ Looping
  /\ ~Inside(Top)
  /\ frames' = SubSeq(frames, 1, Len(frames) - 1)
  /\ publishDepth' = publishDepth - 1
  /\ table' = IF publishDepth' = 0 THEN Cleaned(table, DOMAIN table) ELSE table
  /\ UNCHANGED <<nextId, handles>>

-----------------------------------------------------------------------------

Next == \/ \E t \in Topics : Subscribe(t) \/ Publish(t)
        \/ \E h \in handles : Reset(h)
        \/ Invoke \/ SkipInactive \/ HandlerReturns \/ EndPublish

Spec == Init /\ [][Next]_vars

-----------------------------------------------------------------------------

Ids == 0..(MaxIds - 1)

(***************************************************************************)
(* publish keeps a reference to its topic's vector and indexes it up to    *)
(* the size it had at the start, and the running handler's Subscriber is   *)
(* the entry at the index.  Whatever handlers do, the vector stays in the  *)
(* table and does not shrink or shift under any publish; publishDepth is   *)
(* right about how many there are.                                         *)
(***************************************************************************)
ReferencesValid ==
  /\ publishDepth = Len(frames)
  /\ \A k \in DOMAIN frames :
       LET f == frames[k]
       IN /\ f.topic \in DOMAIN table
          /\ f.initialSize <= Len(table[f.topic])
          /\ f.running # None => table[f.topic][f.index].id = f.running

(***************************************************************************)
(* A Subscription's entry is in the table and active as long as it has not *)
(* been reset, and of those that have been, nothing is left once the last  *)
(* publish has returned: the deferred removal forgets nobody and nothing.  *)
(***************************************************************************)
NothingLeftBehind ==
  /\ handles = {h \in Topics \X Ids :
                  h[1] \in DOMAIN table /\ \E k \in DOMAIN table[h[1]] :
                                             table[h[1]][k] = Entry(h[2])}
  /\ frames = <<>> =>
       \A t \in DOMAIN table :
         table[t] # <<>> /\ \A k \in DOMAIN table[t] : table[t][k].active

(***************************************************************************)
(* The bus implements PubSub.  Still to be called by a publish are the     *)
(* active entries from its index on (after it, while a handler runs) up to *)
(* the size that it has noted.                                             *)
(***************************************************************************)
IdsOf(entries) == LET active == Active(entries)
                  IN [k \in DOMAIN active |-> active[k].id]

Pending(f) ==
  IdsOf(SubSeq(table[f.topic],
               IF f.running = None THEN f.index ELSE f.index + 1, f.initialSize))

Bus == INSTANCE PubSub WITH
         live <- [t \in Topics |->
                    IF t \in DOMAIN table THEN IdsOf(table[t]) ELSE <<>>],
         calls <- [k \in DOMAIN frames |-> [pending |-> Pending(frames[k]),
                                            running |-> frames[k].running]]

ImplementsPubSub == Bus!Spec
=============================================================================
