---------------------------- MODULE BoundedQueue ----------------------------
(***************************************************************************)
(* basic::BoundedQueue: a queue with one mutex, two condition variables    *)
(* and a stop flag.  A critical section runs with the only mutex held and  *)
(* is one action; notify_one comes after the unlock and is an action of    *)
(* its own.  A wait that is notified, or wakes for no reason, competes for *)
(* the mutex again and re-tests its predicate.                             *)
(*                                                                         *)
(* "enter": about to lock the mutex and test the predicate.                *)
(***************************************************************************)
EXTENDS QueueClients

VARIABLE queue  \* the queued messages

vars == <<clients, queue>>

Constructed == Init /\ queue = <<>>

-----------------------------------------------------------------------------
(* push, and emplace, which differs only in how it builds the message.     *)

CallPush(p) == BeginPush(p, "enter") /\ UNCHANGED queue

MayPush == Len(queue) < Capacity \/ stopped

BlockPush(p) ==
  /\ pc[p] = "enter"
  /\ ~MayPush
  /\ Goto(p, "wait")
  /\ UNCHANGED <<queue, flag, loops>>

RefusePush(p) ==
  /\ pc[p] = "enter"
  /\ stopped
  /\ Goto(p, "idle")
  /\ UNCHANGED <<queue, flag, loops>>

PutLast(p) ==
  /\ queue' = Append(queue, <<p, produced[p] + 1>>)
  /\ produced' = [produced EXCEPT ![p] = @ + 1]
  /\ Goto(p, "notify")
  /\ UNCHANGED <<flag, tried, got, consumed>>

\* Mutant: the wait is left without testing its predicate again.
PushAfterOneWait(p) == pc[p] = "enter" /\ ~stopped /\ PutLast(p)

Push(p) == pc[p] = "enter" /\ MayPush /\ ~stopped /\ PutLast(p)

\* Mutant: the producers are notified.
NotifyWrongSide(p) ==
  NotifyOne(Producers, p, "enter") /\ UNCHANGED <<queue, consumed>>

NotifyNotEmpty(p) ==
  NotifyOne(Consumers, p, "enter") /\ UNCHANGED <<queue, consumed>>

-----------------------------------------------------------------------------
(* pop *)

CallPop(c) == BeginPop(c, "enter") /\ UNCHANGED queue

MayPop == queue # <<>> \/ stopped

BlockPop(c) ==
  /\ pc[c] = "enter"
  /\ ~MayPop
  /\ Goto(c, "wait")
  /\ UNCHANGED <<queue, flag, loops>>

RefusePop(c) ==
  /\ pc[c] = "enter"
  /\ stopped
  /\ queue = <<>>
  /\ Goto(c, "idle")
  /\ UNCHANGED <<queue, flag, loops>>

TakeFirst(c) ==
  /\ queue # <<>>
  /\ got' = [got EXCEPT ![c] = Append(@, Head(queue))]
  /\ queue' = Tail(queue)
  /\ Goto(c, "notify")
  /\ UNCHANGED <<flag, tried, produced, consumed>>

\* Mutant: a stopped queue is not drained.
PopUnlessStopped(c) == pc[c] = "enter" /\ ~stopped /\ TakeFirst(c)

Pop(c) == pc[c] = "enter" /\ TakeFirst(c)

\* The notification that ends pop, and the consumer's ++totalConsumed.
NotifyNotFull(c) ==
  /\ NotifyOne(Producers, c, "enter")
  /\ consumed' = consumed + 1
  /\ UNCHANGED queue

-----------------------------------------------------------------------------
(* stop, and wake-ups for no reason *)

SetStopped == BeginStop("notFull") /\ UNCHANGED queue

StopNotFull ==
  NotifyAll(Producers, "enter", "notFull", "notEmpty") /\ UNCHANGED queue

\* Mutant: notify_one for notify_all.
StopNotifyOneNotEmpty ==
  /\ stopPc = "notEmpty"
  /\ \/ Waiting(Consumers) = {} /\ UNCHANGED pc
     \/ \E w \in Waiting(Consumers) : Goto(w, "enter")
  /\ stopPc' = "done"
  /\ UNCHANGED <<queue, stopped, loops>>

StopNotEmpty ==
  NotifyAll(Consumers, "enter", "notEmpty", "done") /\ UNCHANGED queue

WakeSpuriously(t) == Wake(t, "enter") /\ UNCHANGED queue

-----------------------------------------------------------------------------

ProducerStep(p) == CallPush(p) \/ BlockPush(p) \/ RefusePush(p) \/ Push(p)
                   \/ NotifyNotEmpty(p)
ConsumerStep(c) == CallPop(c) \/ BlockPop(c) \/ RefusePop(c) \/ Pop(c)
                   \/ NotifyNotFull(c)
StopStep == StopNotFull \/ StopNotEmpty

Next == \/ \E p \in Producers : ProducerStep(p)
        \/ \E c \in Consumers : ConsumerStep(c)
        \/ SetStopped
        \/ StopStep
        \/ \E t \in Threads : WakeSpuriously(t)

Spec == Constructed /\ [][Next]_vars

-----------------------------------------------------------------------------

\* Every variable has its type.
TypeOK == /\ ClientsTypeOK({"enter"})
          /\ queue \in Seq(Message)

(***************************************************************************)
(* No wake-up is lost: while a consumer sleeps, every queued message has   *)
(* a consumer on its way to the mutex or a producer on its way to          *)
(* notify_one; while a producer sleeps, so has every free place.  The      *)
(* notification comes after the unlock, so another thread may get there    *)
(* first, and one notification may find nobody or a thread that will block *)
(* again: what must hold is the balance.  (A producer that stop() is yet   *)
(* to notify may sleep next to a free place.)                              *)
(***************************************************************************)
NoThreadForgotten ==
  /\ Waiting(Consumers) # {} =>
       Len(queue) <= Cardinality(InState(Consumers, "enter"))
                     + Cardinality(InState(Producers, "notify"))
  /\ Waiting(Producers) # {} /\ ~stopped =>
       Capacity - Len(queue) <= Cardinality(InState(Producers, "enter"))
                                + Cardinality(InState(Consumers, "notify"))

(***************************************************************************)
(* stop() unblocks everybody ("stop() did not unblock pop()"): once it has *)
(* returned no thread waits, or begins to wait, ever again.                *)
(***************************************************************************)
StopUnblocks == stopPc = "done" => Waiting(Threads) = {}
=============================================================================
