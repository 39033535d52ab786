----------------------------- MODULE MPMCQueue -----------------------------
(***************************************************************************)
(* MPMC_Queue of src/DataStructures/MPMCQueue/MPMCQueue.cpp: a bounded     *)
(* lock-free queue for many producers and many consumers.  The cells form  *)
(* a ring; a ticket (a value of enqueue_pos_ or dequeue_pos_) names a cell *)
(* and a lap, and the cell's sequence number says whose turn it is: t when *)
(* it waits for the producer holding ticket t, t + 1 when it holds that    *)
(* producer's value.                                                       *)
(*                                                                         *)
(* One action per access to shared memory, interleaved sequentially: the   *)
(* acquire/release pair on a cell's sequence number orders its storage,    *)
(* and a stale relaxed load of a position is a load followed by a delay.   *)
(* The threads are those of test_mpmc_stress: producer p pushes <<p, 1>>,  *)
(* <<p, 2>>, ... and retries a push that failed, a consumer pops until     *)
(* everything is consumed.  Tickets are not wrapped at 2^64.               *)
(***************************************************************************)
EXTENDS Naturals, Sequences, FiniteSets

CONSTANTS Producers,  \* the threads that push
          Consumers,  \* the threads that pop
          Messages,   \* how many messages each producer pushes
          Capacity,   \* the number of cells
          Nothing     \* what storage that holds no object reads as

\* static_assert((Capacity & (Capacity - 1)) == 0): for such a capacity
\* pos & mask_ is pos % Capacity.
ASSUME CapacityAssumption ==
  /\ Capacity \in Nat \ {0}
  /\ \E k \in 0..Capacity : Capacity = 2^k

ASSUME MessagesAssumption == Messages \in Nat

ASSUME ThreadsAssumption == Producers \cap Consumers = {}

ASSUME NothingAssumption == Nothing \notin Producers \X (1..Messages)

VARIABLES enqPos,   \* enqueue_pos_
          deqPos,   \* dequeue_pos_
          seq,      \* seq[i]: the sequence number of cell i
          storage,  \* storage[i]: the object in cell i
          pc,       \* pc[t]: the access thread t makes next
          pos,      \* pos[t]: its local variable pos
          out,      \* out[c]: the value consumer c moved out last
          sent,     \* sent[p]: how many pushes of p have returned true
          seen,     \* seen[c]: what the pops of c have returned, in order
          consumed  \* how many pops have returned true, all told

vars == <<enqPos, deqPos, seq, storage, pc, pos, out, sent, seen, consumed>>

-----------------------------------------------------------------------------

Threads == Producers \cup Consumers
Cell == 0..(Capacity - 1)
Message == Producers \X (1..Messages)
Total == Cardinality(Producers) * Messages
CellOf(ticket) == ticket % Capacity

\* The message producer p is pushing.
MessageOf(p) == <<p, sent[p] + 1>>

\* The cell waits for the push with this ticket.
IsFree(ticket) == seq[CellOf(ticket)] = ticket

\* The cell holds the value pushed with this ticket (mutant: or waits for it).
IsFullOrFree(ticket) == seq[CellOf(ticket)] >= ticket

IsFull(ticket) == seq[CellOf(ticket)] = ticket + 1

\* The ticket that uses the cell after this one (mutant: the lap is missing).
SameLap(ticket) == ticket

NextLap(ticket) == ticket + Capacity

\* The condition of the producer's loop.
HasMore(p) == sent[p] < Messages

Goto(t, label) == pc' = [pc EXCEPT ![t] = label]

Init == /\ enqPos = 0
        /\ deqPos = 0
        /\ seq = [i \in Cell |-> i]
        /\ storage = [i \in Cell |-> Nothing]
        /\ pc = [t \in Threads |-> "load"]
        /\ pos = [t \in Threads |-> 0]
        /\ out = [c \in Consumers |-> Nothing]
        /\ sent = [p \in Producers |-> 0]
        /\ seen = [c \in Consumers |-> <<>>]
        /\ consumed = 0

-----------------------------------------------------------------------------
(* try_push.  "load": read enqueue_pos_; "inspect": read the sequence      *)
(* number of the cell; "claim": the compare-exchange; "write": construct   *)
(* the object; "publish": store the cell's sequence number.                *)

LoadEnqueuePos(p) ==
  /\ pc[p] = "load"
  /\ HasMore(p)
  /\ pos' = [pos EXCEPT ![p] = enqPos]
  /\ Goto(p, "inspect")
  /\ UNCHANGED <<enqPos, deqPos, seq, storage, out, sent, seen, consumed>>

\* diff < 0: "full", and the producer tries again; diff > 0: the position
\* is stale and is read again.
InspectToPush(p) ==
  /\ pc[p] = "inspect"
  /\ Goto(p, IF IsFree(pos[p]) THEN "claim" ELSE "load")
  /\ UNCHANGED <<enqPos, deqPos, seq, storage, pos, out, sent, seen, consumed>>

\* Mutant of ClaimToPush: a load and a store for the compare-exchange.
ClaimToPushBlindly(p) ==
  /\ pc[p] = "claim"
  /\ enqPos' = pos[p] + 1
  /\ Goto(p, "write")
  /\ UNCHANGED <<deqPos, seq, storage, pos, out, sent, seen, consumed>>

ClaimToPush(p) ==
  /\ pc[p] = "claim"
  /\ enqPos = pos[p]
  /\ enqPos' = enqPos + 1
  /\ Goto(p, "write")
  /\ UNCHANGED <<deqPos, seq, storage, pos, out, sent, seen, consumed>>

\* compare_exchange_weak fails because enqueue_pos_ has moved on, or for no
\* reason at all; it leaves the current position in pos.
MissToPush(p) ==
  /\ pc[p] = "claim"
  /\ pos' = [pos EXCEPT ![p] = enqPos]
  /\ Goto(p, "inspect")
  /\ UNCHANGED <<enqPos, deqPos, seq, storage, out, sent, seen, consumed>>

Write(p) ==
  /\ pc[p] = "write"
  /\ storage' = [storage EXCEPT ![CellOf(pos[p])] = MessageOf(p)]
  /\ Goto(p, "publish")
  /\ UNCHANGED <<enqPos, deqPos, seq, pos, out, sent, seen, consumed>>

Publish(p) ==
  /\ pc[p] = "publish"
  /\ seq' = [seq EXCEPT ![CellOf(pos[p])] = pos[p] + 1]
  /\ sent' = [sent EXCEPT ![p] = @ + 1]
  /\ Goto(p, "load")
  /\ UNCHANGED <<enqPos, deqPos, storage, pos, out, seen, consumed>>

-----------------------------------------------------------------------------
(* try_pop.  The labels are those of try_push, with "take" for moving the  *)
(* object out and "release" for handing the cell to the next lap.          *)

LoadDequeuePos(c) ==
  /\ pc[c] = "load"
  /\ consumed < Total
  /\ pos' = [pos EXCEPT ![c] = deqPos]
  /\ Goto(c, "inspect")
  /\ UNCHANGED <<enqPos, deqPos, seq, storage, out, sent, seen, consumed>>

InspectToPop(c) ==
  /\ pc[c] = "inspect"
  /\ Goto(c, IF IsFull(pos[c]) THEN "claim" ELSE "load")
  /\ UNCHANGED <<enqPos, deqPos, seq, storage, pos, out, sent, seen, consumed>>

ClaimToPop(c) ==
  /\ pc[c] = "claim"
  /\ deqPos = pos[c]
  /\ deqPos' = deqPos + 1
  /\ Goto(c, "take")
  /\ UNCHANGED <<enqPos, seq, storage, pos, out, sent, seen, consumed>>

\* Mutant of MissToPop: the exchange is repeated at the new position
\* without another look at the cell.
MissToPopAndRepeat(c) ==
  /\ pc[c] = "claim"
  /\ pos' = [pos EXCEPT ![c] = deqPos]
  /\ UNCHANGED <<enqPos, deqPos, seq, storage, pc, out, sent, seen, consumed>>

MissToPop(c) ==
  /\ pc[c] = "claim"
  /\ pos' = [pos EXCEPT ![c] = deqPos]
  /\ Goto(c, "inspect")
  /\ UNCHANGED <<enqPos, deqPos, seq, storage, out, sent, seen, consumed>>

Take(c) ==
  /\ pc[c] = "take"
  /\ out' = [out EXCEPT ![c] = storage[CellOf(pos[c])]]
  /\ storage' = [storage EXCEPT ![CellOf(pos[c])] = Nothing]
  /\ Goto(c, "release")
  /\ UNCHANGED <<enqPos, deqPos, seq, pos, sent, seen, consumed>>

\* The store that ends try_pop, and the consumer's record of what it got.
Release(c) ==
  /\ pc[c] = "release"
  /\ seq' = [seq EXCEPT ![CellOf(pos[c])] = NextLap(pos[c])]
  /\ seen' = [seen EXCEPT ![c] = Append(@, out[c])]
  /\ consumed' = consumed + 1
  /\ Goto(c, "load")
  /\ UNCHANGED <<enqPos, deqPos, storage, pos, out, sent>>

-----------------------------------------------------------------------------

Push(p) == \/ LoadEnqueuePos(p) \/ InspectToPush(p)
           \/ ClaimToPush(p) \/ MissToPush(p)
           \/ Write(p) \/ Publish(p)

Pop(c) == \/ LoadDequeuePos(c) \/ InspectToPop(c)
          \/ ClaimToPop(c) \/ MissToPop(c)
          \/ Take(c) \/ Release(c)

\* Every thread has left its loop and is joined.
Joined == /\ \A t \in Threads : pc[t] = "load"
          /\ \A p \in Producers : sent[p] = Messages
          /\ consumed = Total
          /\ UNCHANGED vars

Next == \/ \E p \in Producers : Push(p)
        \/ \E c \in Consumers : Pop(c)
        \/ Joined

Spec == Init /\ [][Next]_vars

(***************************************************************************)
(* The scheduler runs every thread, and a compare-exchange that would      *)
(* succeed does not fail spuriously for ever.                              *)
(***************************************************************************)
FairSpec ==
  /\ Spec
  /\ \A p \in Producers : WF_vars(Push(p)) /\ SF_vars(ClaimToPush(p))
  /\ \A c \in Consumers : WF_vars(Pop(c)) /\ SF_vars(ClaimToPop(c))

-----------------------------------------------------------------------------

\* Every variable has its type.
TypeOK ==
  /\ enqPos \in Nat
  /\ deqPos \in Nat
  /\ seq \in [Cell -> Nat]
  /\ storage \in [Cell -> Message \cup {Nothing}]
  /\ pc \in [Threads -> {"load", "inspect", "claim", "write", "publish",
                         "take", "release"}]
  /\ \A p \in Producers : pc[p] \notin {"take", "release"}
  /\ \A c \in Consumers : pc[c] \notin {"write", "publish"}
  /\ pos \in [Threads -> Nat]
  /\ out \in [Consumers -> Message \cup {Nothing}]
  /\ sent \in [Producers -> 0..Messages]
  /\ \A p \in Producers : pc[p] # "load" => sent[p] < Messages
  /\ seen \in [Consumers -> Seq(Message \cup {Nothing})]
  /\ consumed \in Nat

\* Thread t has claimed a ticket and not yet given the cell back.
Writing(t) == t \in Producers /\ pc[t] \in {"write", "publish"}
Taking(t) == t \in Consumers /\ pc[t] \in {"take", "release"}
Owning(t) == Writing(t) \/ Taking(t)

(***************************************************************************)
(* Between its claim and its publication or release a thread has the cell  *)
(* to itself: no other thread constructs an object in it or moves one out  *)
(* of it.  The storage is not atomic, so this is what makes the queue free *)
(* of data races.                                                          *)
(***************************************************************************)
CellExclusive ==
  \A s, t \in Threads :
    s # t /\ Owning(s) /\ Owning(t) => CellOf(pos[s]) # CellOf(pos[t])

(***************************************************************************)
(* The queue never accepts more than Capacity values, and none is popped   *)
(* before it is pushed (test_queue_full_and_empty: "queue should be full", *)
(* "queue should be empty now").                                           *)
(***************************************************************************)
WithinCapacity == deqPos <= enqPos /\ enqPos <= deqPos + Capacity

(***************************************************************************)
(* What a pop moves out is an object some push has constructed and no      *)
(* other pop has moved out, and a push never constructs over a live        *)
(* object.                                                                 *)
(***************************************************************************)
LiveObjectsOnly ==
  /\ \A c \in Consumers : pc[c] = "take" => storage[CellOf(pos[c])] # Nothing
  /\ \A p \in Producers : pc[p] = "write" => storage[CellOf(pos[p])] = Nothing

(***************************************************************************)
(* The inductive invariant.  The tickets deqPos..deqPos+Capacity-1 name    *)
(* each cell once.  Those below enqPos are queued: their cell is full, or  *)
(* a producer that owns it is filling it.  The others are free: their cell *)
(* waits for a push, or a consumer that owns it is emptying it.            *)
(***************************************************************************)
QueuedTickets ==
  \A t \in deqPos..(enqPos - 1) :
    \/ IsFull(t) /\ storage[CellOf(t)] # Nothing
    \/ \E p \in Producers : Writing(p) /\ pos[p] = t

FreeTickets ==
  \A t \in enqPos..(deqPos + Capacity - 1) :
    \/ IsFree(t) /\ storage[CellOf(t)] = Nothing
    \/ \E c \in Consumers : Taking(c) /\ NextLap(pos[c]) = t

WriterTickets ==
  \A p \in Producers : Writing(p) =>
    /\ IsFree(pos[p])
    /\ deqPos <= pos[p] /\ pos[p] < enqPos
    /\ storage[CellOf(pos[p])] = Nothing <=> pc[p] = "write"
    /\ \A q \in Producers \ {p} : Writing(q) => pos[q] # pos[p]

TakerTickets ==
  \A c \in Consumers : Taking(c) =>
    /\ IsFull(pos[c])
    /\ pos[c] < deqPos /\ enqPos <= NextLap(pos[c])
    /\ storage[CellOf(pos[c])] = Nothing <=> pc[c] = "release"
    /\ \A d \in Consumers \ {c} : Taking(d) => pos[d] # pos[c]

\* A position read earlier may be stale, but if it is not, what was read of
\* its cell still holds.
Claims ==
  /\ \A p \in Producers : pc[p] \in {"inspect", "claim"} =>
       /\ pos[p] <= enqPos
       /\ pc[p] = "claim" /\ pos[p] = enqPos => IsFree(pos[p])
  /\ \A c \in Consumers : pc[c] \in {"inspect", "claim"} =>
       /\ pos[c] <= deqPos
       /\ pc[c] = "claim" /\ pos[c] = deqPos => IsFull(pos[c])

IInv == /\ WithinCapacity
        /\ QueuedTickets
        /\ FreeTickets
        /\ WriterTickets
        /\ TakerTickets
        /\ Claims

(***************************************************************************)
(* The queue implements BoundedFifo, with the push taking effect at the    *)
(* compare-exchange of enqueue_pos_ and the pop at that of dequeue_pos_.   *)
(* A claimed ticket stands for its value: the object in its cell, or the   *)
(* message its producer has yet to construct there.                        *)
(***************************************************************************)
ValueOf(ticket) ==
  IF IsFull(ticket)
  THEN storage[CellOf(ticket)]
  ELSE MessageOf(CHOOSE p \in Producers : Writing(p) /\ pos[p] = ticket)

Pending(c) == CASE pc[c] = "take" -> <<storage[CellOf(pos[c])]>>
                [] pc[c] = "release" -> <<out[c]>>
                [] OTHER -> <<>>

Fifo == INSTANCE BoundedFifo
          WITH queue <- [k \in 1..(enqPos - deqPos) |-> ValueOf(deqPos + k - 1)],
               put <- [p \in Producers |->
                         sent[p] + (IF Writing(p) THEN 1 ELSE 0)],
               got <- [c \in Consumers |-> seen[c] \o Pending(c)]

ImplementsFifo == Fifo!Spec

(***************************************************************************)
(* Every message of every producer is consumed ("consumed count mismatch", *)
(* "seen count mismatch" of test_mpmc_stress), although pushes and pops    *)
(* fail and are retried all the time.                                      *)
(***************************************************************************)
AllConsumed == <>(\A m \in Message : \E c \in Consumers :
                    \E k \in 1..Len(seen[c]) : seen[c][k] = m)
=============================================================================
