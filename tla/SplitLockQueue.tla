--------------------------- MODULE SplitLockQueue ---------------------------
(***************************************************************************)
(* split_lock_queue::SplitLockQueue: a ring whose tail (push) and head     *)
(* (pop) have a mutex each.  The two sides share only the atomic size and  *)
(* the atomic stop flag, and notify each other's condition variable        *)
(* WITHOUT the mutex its waiters test their predicate under.  So a wait is *)
(* three steps here: test the predicate, go to sleep (which gives the      *)
(* mutex back), wake up; a notification between the first two finds        *)
(* nobody.                                                                 *)
(*                                                                         *)
(* "lock": about to lock the side's mutex; "test": about to test the       *)
(* predicate, holding it (the flag and the size are two loads, but only    *)
(* the thread itself could undo what made the predicate true, so testing   *)
(* them at once loses no outcome); "sleep": it was false; "check": out of  *)
(* the wait, about to look at the flag (push) or the size (pop);           *)
(* "access": about to access the buffer; "count": about to change the size.*)
(***************************************************************************)
EXTENDS QueueClients

CONSTANTS Nobody,   \* the holder of a free mutex
          Nothing   \* a default-constructed or moved-from T

VARIABLES buffer, size, head, tail,  \* the members
          headMtx, tailMtx,          \* who holds the mutexes
          out       \* out[c]: the value consumer c has moved out

ring == <<buffer, size, head, tail>>
members == <<ring, headMtx, tailMtx, out>>
vars == <<clients, members>>

-----------------------------------------------------------------------------

NextIndex(i) == (i + 1) % Capacity    \* (i + 1) & mask

PowerOfTwo(n) == \E k \in 0..n : n = 2^k

\* The constructor throws unless "Capacity must be power of two".
Constructed == /\ PowerOfTwo(Capacity)
               /\ Init
               /\ buffer = [i \in 0..(Capacity - 1) |-> Nothing]
               /\ size = 0 /\ head = 0 /\ tail = 0
               /\ headMtx = Nobody /\ tailMtx = Nobody
               /\ out = [c \in Consumers |-> Nothing]

-----------------------------------------------------------------------------
(* push *)

CallPush(p) == BeginPush(p, "lock") /\ UNCHANGED members

LockTail(p) ==
  /\ pc[p] = "lock"
  /\ tailMtx = Nobody
  /\ tailMtx' = p
  /\ Goto(p, "test")
  /\ UNCHANGED <<ring, headMtx, out, flag, loops>>

\* Mutant: the test is off by one.
TestNotFullOffByOne(p) ==
  /\ pc[p] = "test"
  /\ Goto(p, IF stopped \/ size <= Capacity THEN "check" ELSE "sleep")
  /\ UNCHANGED <<members, flag, loops>>

TestNotFull(p) ==
  /\ pc[p] = "test"
  /\ Goto(p, IF stopped \/ size < Capacity THEN "check" ELSE "sleep")
  /\ UNCHANGED <<members, flag, loops>>

SleepNotFull(p) ==
  /\ pc[p] = "sleep"
  /\ tailMtx' = Nobody
  /\ Goto(p, "wait")
  /\ UNCHANGED <<ring, headMtx, out, flag, loops>>

RefusePush(p) ==
  /\ pc[p] = "check"
  /\ stopped
  /\ tailMtx' = Nobody
  /\ Goto(p, "idle")
  /\ UNCHANGED <<ring, headMtx, out, flag, loops>>

AcceptPush(p) ==
  /\ pc[p] = "check"
  /\ ~stopped
  /\ Goto(p, "access")
  /\ UNCHANGED <<members, flag, loops>>

Write(p) ==
  /\ pc[p] = "access"
  /\ buffer' = [buffer EXCEPT ![tail] = <<p, produced[p] + 1>>]
  /\ tail' = NextIndex(tail)
  /\ Goto(p, "count")
  /\ UNCHANGED <<size, head, headMtx, tailMtx, out, flag, loops>>

\* size.fetch_add, and the unlock, which no other step depends on before it.
CountPush(p) ==
  /\ pc[p] = "count"
  /\ size' = size + 1
  /\ produced' = [produced EXCEPT ![p] = @ + 1]
  /\ tailMtx' = Nobody
  /\ Goto(p, "notify")
  /\ UNCHANGED <<buffer, head, tail, headMtx, out, flag, tried, got, consumed>>

NotifyNotEmpty(p) ==
  NotifyOne(Consumers, p, "lock") /\ UNCHANGED <<members, consumed>>

-----------------------------------------------------------------------------
(* pop *)

CallPop(c) == BeginPop(c, "lock") /\ UNCHANGED members

LockHead(c) ==
  /\ pc[c] = "lock"
  /\ headMtx = Nobody
  /\ headMtx' = c
  /\ Goto(c, "test")
  /\ UNCHANGED <<ring, tailMtx, out, flag, loops>>

TestNotEmpty(c) ==
  /\ pc[c] = "test"
  /\ Goto(c, IF stopped \/ size > 0 THEN "check" ELSE "sleep")
  /\ UNCHANGED <<members, flag, loops>>

SleepNotEmpty(c) ==
  /\ pc[c] = "sleep"
  /\ headMtx' = Nobody
  /\ Goto(c, "wait")
  /\ UNCHANGED <<ring, tailMtx, out, flag, loops>>

RefusePop(c) ==
  /\ pc[c] = "check"
  /\ size = 0
  /\ headMtx' = Nobody
  /\ Goto(c, "idle")
  /\ UNCHANGED <<ring, tailMtx, out, flag, loops>>

\* Mutant: the size is not looked at again after the wait.
AcceptPopUnchecked(c) ==
  /\ pc[c] = "check"
  /\ Goto(c, "access")
  /\ UNCHANGED <<members, flag, loops>>

AcceptPop(c) ==
  /\ pc[c] = "check"
  /\ size # 0
  /\ Goto(c, "access")
  /\ UNCHANGED <<members, flag, loops>>

\* Mutant: head is advanced before the slot is read.
ReadNext(c) ==
  /\ pc[c] = "access"
  /\ out' = [out EXCEPT ![c] = buffer[NextIndex(head)]]
  /\ buffer' = [buffer EXCEPT ![NextIndex(head)] = Nothing]
  /\ head' = NextIndex(head)
  /\ Goto(c, "count")
  /\ UNCHANGED <<size, tail, headMtx, tailMtx, flag, loops>>

Read(c) ==
  /\ pc[c] = "access"
  /\ out' = [out EXCEPT ![c] = buffer[head]]
  /\ buffer' = [buffer EXCEPT ![head] = Nothing]
  /\ head' = NextIndex(head)
  /\ Goto(c, "count")
  /\ UNCHANGED <<size, tail, headMtx, tailMtx, flag, loops>>

CountPop(c) ==
  /\ pc[c] = "count"
  /\ size' = size - 1
  /\ got' = [got EXCEPT ![c] = Append(@, out[c])]
  /\ headMtx' = Nobody
  /\ Goto(c, "notify")
  /\ UNCHANGED <<buffer, head, tail, tailMtx, out, flag, tried, produced, consumed>>

\* The notification that ends pop, and the consumer's ++consumed.
NotifyNotFull(c) ==
  /\ NotifyOne(Producers, c, "lock")
  /\ consumed' = consumed + 1
  /\ UNCHANGED members

-----------------------------------------------------------------------------
(* stop, which locks nothing, and wake-ups for no reason *)

SetStopped == BeginStop("notEmpty") /\ UNCHANGED members

StopNotEmpty ==
  NotifyAll(Consumers, "lock", "notEmpty", "notFull") /\ UNCHANGED members

StopNotFull ==
  NotifyAll(Producers, "lock", "notFull", "done") /\ UNCHANGED members

WakeSpuriously(t) == Wake(t, "lock") /\ UNCHANGED members

-----------------------------------------------------------------------------

Push(p) == \/ CallPush(p) \/ LockTail(p) \/ TestNotFull(p) \/ SleepNotFull(p)
           \/ RefusePush(p) \/ AcceptPush(p) \/ Write(p) \/ CountPush(p)
           \/ NotifyNotEmpty(p)

Pop(c) == \/ CallPop(c) \/ LockHead(c) \/ TestNotEmpty(c) \/ SleepNotEmpty(c)
          \/ RefusePop(c) \/ AcceptPop(c) \/ Read(c) \/ CountPop(c)
          \/ NotifyNotFull(c)

StopStep == StopNotEmpty \/ StopNotFull

Next == \/ \E p \in Producers : Push(p)
        \/ \E c \in Consumers : Pop(c)
        \/ SetStopped
        \/ StopStep
        \/ \E t \in Threads : WakeSpuriously(t)

Spec == Constructed /\ [][Next]_vars

(***************************************************************************)
(* Every thread runs, and gets a mutex that is free again and again.       *)
(* Nobody has to call stop(), and no wake-up for no reason is relied upon. *)
(***************************************************************************)
FairSpec == /\ Spec
            /\ \A p \in Producers : WF_vars(Push(p)) /\ SF_vars(LockTail(p))
            /\ \A c \in Consumers : WF_vars(Pop(c)) /\ SF_vars(LockHead(c))
            /\ WF_vars(StopStep)

-----------------------------------------------------------------------------

\* Every variable has its type.
TypeOK ==
  /\ ClientsTypeOK({"lock", "test", "sleep", "check", "access", "count"})
  /\ buffer \in [0..(Capacity - 1) -> Message \cup {Nothing}]
  /\ size \in 0..Capacity
  /\ head \in 0..(Capacity - 1) /\ tail \in 0..(Capacity - 1)
  /\ headMtx \in Consumers \cup {Nobody}
  /\ tailMtx \in Producers \cup {Nobody}
  /\ out \in [Consumers -> Message \cup {Nothing}]

(***************************************************************************)
(* The two mutexes are enough to keep the sides apart in the buffer: when  *)
(* a producer is about to write a slot and a consumer to read one, they    *)
(* are different slots, although each side looks only at the size.         *)
(***************************************************************************)
SlotsApart ==
  \A p \in Producers, c \in Consumers :
    pc[p] = "access" /\ pc[c] = "access" => head # tail

(***************************************************************************)
(* What is queued, as BoundedFifo sees it: a push takes effect when it     *)
(* counts its message, a pop when it counts it out.  Between Read and      *)
(* CountPop the oldest message is in the consumer's hands.                 *)
(***************************************************************************)
Queued ==
  LET inHand == InState(Consumers, "count")
      first == IF inHand = {} THEN <<>> ELSE <<out[CHOOSE c \in inHand : TRUE]>>
  IN first \o [k \in 1..(size - Len(first)) |-> buffer[(head + k - 1) % Capacity]]
=============================================================================
