---------------------------- MODULE SpscClients ----------------------------
(***************************************************************************)
(* The ring buffers for one producer and one consumer of                   *)
(* src/Multithreding/RingBuffers/RingBuffers.cpp (those of                 *)
(* src/DataStructures/RingBufferFast/RingBufferFast.cpp are the same       *)
(* text).  All have two positions, each stored by one side only, and each  *)
(* side may keep a copy of the other's position and read the shared one    *)
(* only when the copy says that there is no room or no value.  What a      *)
(* position is, and when the buffer is full or empty, is said in           *)
(* SpscIndexRing and SpscCursorRing, which extend this module.             *)
(*                                                                         *)
(* The clients are those of multithreading::test_1 and test_2: the         *)
(* producer pushes its messages in order and retries a push that failed,   *)
(* the consumer pops until it has them all.  One action per access to what *)
(* the threads share; the release store of a position orders the access to *)
(* the buffer before it, and a stale load is a load followed by a delay.   *)
(***************************************************************************)
EXTENDS Integers, Sequences

CONSTANTS Producer,   \* the thread that pushes
          Consumer,   \* the thread that pops
          Observer,   \* a thread that calls size() once
          Messages,   \* how many messages the producer pushes
          Capacity,   \* the number of slots
          SizeRange,  \* how many values size()'s unsigned type has
          Nothing     \* what a slot holds before it is first written

\* static_assert(Capacity >= 2)
ASSUME CapacityAssumption == Capacity \in Nat \ {0, 1}

ASSUME MessagesAssumption == Messages \in Nat

ASSUME SizeRangeAssumption == SizeRange \in Nat /\ SizeRange > Capacity

ASSUME ThreadsAssumption ==
  /\ Producer # Consumer /\ Observer # Producer /\ Observer # Consumer
  /\ Nothing \notin {Producer} \X (1..Messages)

VARIABLES writePos,     \* head, writeCursor: stored by the producer
          readPos,      \* tail, readCursor: stored by the consumer
          cachedRead,   \* the producer's copy of readPos
          cachedWrite,  \* the consumer's copy of writePos
          buffer,       \* the slots
          pc,           \* pc[t]: the access thread t makes next
          item,         \* what the consumer has read
          sent,         \* how many pushes have returned true
          seen,         \* what the pops have returned, in order
          snapshot,     \* the position the observer has loaded
          size          \* what size() has returned to it

rings == <<writePos, readPos, cachedRead, cachedWrite, buffer>>
clients == <<item, sent, seen>>
observed == <<snapshot, size>>
vars == <<rings, pc, clients, observed>>

-----------------------------------------------------------------------------

Threads == {Producer, Consumer, Observer}
Slot == 0..(Capacity - 1)
Message == {Producer} \X (1..Messages)
MessageNo(n) == <<Producer, n>>
Goto(t, label) == pc' = [pc EXCEPT ![t] = label]

\* The slot of a position; an index is its own slot.
SlotOf(pos) == pos % Capacity

Init == /\ writePos = 0
        /\ readPos = 0
        /\ cachedRead = 0
        /\ cachedWrite = 0
        /\ buffer = [i \in Slot |-> Nothing]
        /\ pc = [t \in Threads |-> "idle"]
        /\ item = Nothing
        /\ sent = 0
        /\ seen = <<>>
        /\ snapshot = 0
        /\ size = 0

-----------------------------------------------------------------------------
(* push.  "refresh": the buffer seems full and the position of the         *)
(* consumer is loaded; "write": there is room; "publish": store the        *)
(* position.                                                               *)

\* The condition of the producer's loop.
HasMore == sent < Messages

StartPush(seemsFull) ==
  /\ pc[Producer] = "idle"
  /\ HasMore
  /\ Goto(Producer, IF seemsFull THEN "refresh" ELSE "write")
  /\ UNCHANGED <<rings, clients, observed>>

\* If the buffer is full push returns false, and the producer tries again.
RefreshRead(full) ==
  /\ pc[Producer] = "refresh"
  /\ cachedRead' = readPos
  /\ Goto(Producer, IF full THEN "idle" ELSE "write")
  /\ UNCHANGED <<writePos, readPos, cachedWrite, buffer, clients, observed>>

Write ==
  /\ pc[Producer] = "write"
  /\ buffer' = [buffer EXCEPT ![SlotOf(writePos)] = MessageNo(sent + 1)]
  /\ Goto(Producer, "publish")
  /\ UNCHANGED <<writePos, readPos, cachedRead, cachedWrite, clients, observed>>

Publish(next) ==
  /\ pc[Producer] = "publish"
  /\ writePos' = next
  /\ sent' = sent + 1
  /\ Goto(Producer, "idle")
  /\ UNCHANGED <<readPos, cachedRead, cachedWrite, buffer, item, seen, observed>>

-----------------------------------------------------------------------------
(* pop.  "refresh": the buffer seems empty and the position of the         *)
(* producer is loaded; "read": there is a value; "release": store the      *)
(* position.                                                               *)

StartPop(seemsEmpty) ==
  /\ pc[Consumer] = "idle"
  /\ Len(seen) < Messages
  /\ Goto(Consumer, IF seemsEmpty THEN "refresh" ELSE "read")
  /\ UNCHANGED <<rings, clients, observed>>

RefreshWrite(empty) ==
  /\ pc[Consumer] = "refresh"
  /\ cachedWrite' = writePos
  /\ Goto(Consumer, IF empty THEN "idle" ELSE "read")
  /\ UNCHANGED <<writePos, readPos, cachedRead, buffer, clients, observed>>

Read ==
  /\ pc[Consumer] = "read"
  /\ item' = buffer[SlotOf(readPos)]
  /\ Goto(Consumer, "release")
  /\ UNCHANGED <<rings, sent, seen, observed>>

Release(next) ==
  /\ pc[Consumer] = "release"
  /\ readPos' = next
  /\ seen' = Append(seen, item)
  /\ Goto(Consumer, "idle")
  /\ UNCHANGED <<writePos, cachedRead, cachedWrite, buffer, item, sent, observed>>

-----------------------------------------------------------------------------
(* size(): one load of each position, in this order, and the difference in *)
(* an unsigned type.                                                       *)

LoadWritePos ==
  /\ pc[Observer] = "idle"
  /\ snapshot' = writePos
  /\ Goto(Observer, "subtract")
  /\ UNCHANGED <<rings, clients, size>>

SubtractReadPos ==
  /\ pc[Observer] = "subtract"
  /\ size' = (snapshot - readPos) % SizeRange
  /\ Goto(Observer, "done")
  /\ UNCHANGED <<rings, clients, snapshot>>

Observe == LoadWritePos \/ SubtractReadPos

\* Producer and consumer are joined.
Joined == /\ pc[Producer] = "idle" /\ pc[Consumer] = "idle"
          /\ pc[Observer] = "done"
          /\ sent = Messages /\ Len(seen) = Messages
          /\ UNCHANGED vars

-----------------------------------------------------------------------------

\* Every variable has its type.
TypeOK ==
  /\ writePos \in Nat
  /\ readPos \in Nat
  /\ cachedRead \in Nat
  /\ cachedWrite \in Nat
  /\ buffer \in [Slot -> Message \cup {Nothing}]
  /\ pc \in [Threads -> {"idle", "refresh", "write", "publish", "read",
                         "release", "subtract", "done"}]
  /\ pc[Producer] \in {"idle", "refresh", "write", "publish"}
  /\ pc[Consumer] \in {"idle", "refresh", "read", "release"}
  /\ item \in Message \cup {Nothing}
  /\ sent \in 0..Messages
  /\ pc[Producer] # "idle" => sent < Messages
  /\ seen \in Seq(Message \cup {Nothing})
  /\ snapshot \in Nat
  /\ size \in 0..(SizeRange - 1)

\* The producer is about to write its slot, or has written it and not yet
\* handed it over; the consumer is about to read its slot, or has read it
\* and not yet handed it back.
Writing == pc[Producer] \in {"write", "publish"}
Reading == pc[Consumer] \in {"read", "release"}

(***************************************************************************)
(* Producer and consumer are never in the same slot, although each looks   *)
(* at an old copy of the other's position: the accesses to the slots do    *)
(* not race.                                                               *)
(***************************************************************************)
SlotsApart == Writing /\ Reading => SlotOf(writePos) # SlotOf(readPos)

(***************************************************************************)
(* The consumer receives the messages in the order of the pushes, none     *)
(* lost, none twice, none overwritten: the "previousValue + 1 != result"   *)
(* of test_1 never counts an error.                                        *)
(***************************************************************************)
ReceivedInOrder ==
  /\ Len(seen) <= sent
  /\ \A k \in 1..Len(seen) : seen[k] = MessageNo(k)
=============================================================================
