-------------------------- MODULE MPMCQueueProofs --------------------------
(***************************************************************************)
(* Proofs about MPMCQueue for any number of threads, messages and cells.   *)
(* The invariants need two cells or more: with one, a second push would    *)
(* overwrite the first value.                                              *)
(***************************************************************************)
EXTENDS MPMCQueue, RingArithmetic, TLAPS

\* The parameters are numbers.
LEMMA Parameters == /\ Capacity \in Nat /\ Capacity > 0
                    /\ Messages \in Nat
                    /\ Producers \cap Consumers = {}
                    /\ Nothing \notin Message
BY CapacityAssumption, MessagesAssumption, ThreadsAssumption,
   NothingAssumption DEF Message

\* The cells of tickets, as the proofs below use them.
LEMMA Cells ==
  /\ \A t \in Nat : CellOf(t) \in Cell
  /\ \A t \in Cell : CellOf(t) = t
  /\ \A t \in Nat : CellOf(NextLap(t)) = CellOf(t)
  /\ \A s, t \in Nat : s < t /\ CellOf(s) = CellOf(t) => NextLap(s) <= t
<1>1. Capacity \in Nat \ {0}
  BY CapacityAssumption
<1> QED BY <1>1, CellInRing, FirstLap, NextLapSameCell, SameCellLapApart
        DEF CellOf, Cell, NextLap

-----------------------------------------------------------------------------

\* Every variable keeps its type.
LEMMA InitTypeOK == Init => TypeOK
<1> SUFFICES ASSUME Init PROVE TypeOK
  OBVIOUS
<1>1. seq \in [Cell -> Nat]
  BY Parameters DEF Init, Cell
<1>2. sent \in [Producers -> 0..Messages]
  BY Parameters DEF Init
<1>3. seen \in [Consumers -> Seq(Message \cup {Nothing})]
  BY DEF Init
<1> QED BY <1>1, <1>2, <1>3 DEF Init, TypeOK, Threads

LEMMA NextTypeOK == TypeOK /\ [Next]_vars => TypeOK'
<1> SUFFICES ASSUME TypeOK, [Next]_vars PROVE TypeOK'
  OBVIOUS
<1> USE DEF TypeOK, Goto, Threads
<1>1. ASSUME NEW p \in Producers, LoadEnqueuePos(p) PROVE TypeOK'
  BY <1>1, Parameters DEF LoadEnqueuePos, HasMore
<1>2. ASSUME NEW p \in Producers, InspectToPush(p) PROVE TypeOK'
  BY <1>2, Parameters DEF InspectToPush
<1>3. ASSUME NEW p \in Producers, ClaimToPush(p) PROVE TypeOK'
  BY <1>3, Parameters DEF ClaimToPush
<1>4. ASSUME NEW p \in Producers, MissToPush(p) PROVE TypeOK'
  BY <1>4, Parameters DEF MissToPush
<1>5. ASSUME NEW p \in Producers, Write(p) PROVE TypeOK'
  <2>1. sent[p] \in 0..Messages /\ sent[p] < Messages
    BY <1>5 DEF Write
  <2>2. sent[p] + 1 \in 1..Messages
    BY <2>1, Parameters
  <2>3. MessageOf(p) \in Message
    BY <2>2 DEF MessageOf, Message
  <2> QED BY <1>5, <2>3, Parameters, Cells DEF Write
<1>6. ASSUME NEW p \in Producers, Publish(p) PROVE TypeOK'
  <2>1. sent[p] \in 0..Messages /\ sent[p] < Messages
    BY <1>6 DEF Publish
  <2>2. sent[p] + 1 \in 0..Messages
    BY <2>1, Parameters
  <2>3. pos[p] + 1 \in Nat
    OBVIOUS
  <2> QED BY <1>6, <2>2, <2>3 DEF Publish
<1>7. ASSUME NEW c \in Consumers, LoadDequeuePos(c) PROVE TypeOK'
  BY <1>7, Parameters DEF LoadDequeuePos
<1>8. ASSUME NEW c \in Consumers, InspectToPop(c) PROVE TypeOK'
  BY <1>8, Parameters DEF InspectToPop
<1>9. ASSUME NEW c \in Consumers, ClaimToPop(c) PROVE TypeOK'
  BY <1>9, Parameters DEF ClaimToPop
<1>10. ASSUME NEW c \in Consumers, MissToPop(c) PROVE TypeOK'
  BY <1>10, Parameters DEF MissToPop
<1>11. ASSUME NEW c \in Consumers, Take(c) PROVE TypeOK'
  BY <1>11, Parameters, Cells DEF Take
<1>12. ASSUME NEW c \in Consumers, Release(c) PROVE TypeOK'
  <2>1. NextLap(pos[c]) \in Nat
    BY Parameters DEF NextLap
  <2>2. Append(seen[c], out[c]) \in Seq(Message \cup {Nothing})
    OBVIOUS
  <2>3. seen' \in [Consumers -> Seq(Message \cup {Nothing})]
    BY <1>12, <2>2 DEF Release
  <2>4. seq' = [seq EXCEPT ![CellOf(pos[c])] = NextLap(pos[c])]
    BY <1>12 DEF Release
  <2>6. seq' \in [Cell -> Nat]
    BY <2>1, <2>4
  <2>7. consumed' = consumed + 1
    BY <1>12 DEF Release
  <2>8. consumed' \in Nat
    BY <2>7
  <2>9. /\ pc' = [pc EXCEPT ![c] = "load"]
        /\ UNCHANGED <<enqPos, deqPos, storage, pos, out, sent>>
    BY <1>12 DEF Release
  <2>5. c \notin Producers
    BY Parameters
  <2> QED BY <2>3, <2>5, <2>6, <2>8, <2>9
<1>13. CASE Joined
  BY <1>13 DEF Joined, vars
<1>14. CASE UNCHANGED vars
  BY <1>14 DEF vars
<1> QED BY <1>1, <1>2, <1>3, <1>4, <1>5, <1>6, <1>7, <1>8, <1>9, <1>10,
           <1>11, <1>12, <1>13, <1>14 DEF Next, Push, Pop

\* TypeOK is an invariant of the queue.
THEOREM TypeCorrect == Spec => []TypeOK
BY InitTypeOK, NextTypeOK, PTL DEF Spec

-----------------------------------------------------------------------------

LEMMA InitIInv == Init => IInv
<1> SUFFICES ASSUME Init PROVE IInv
  OBVIOUS
<1> USE DEF Init, Writing, Taking, Threads
<1>1. WithinCapacity
  BY Parameters DEF WithinCapacity
<1>2. QueuedTickets
  BY DEF QueuedTickets
<1>3. FreeTickets
  BY Parameters, Cells DEF FreeTickets, IsFree, Cell
<1>4. WriterTickets /\ TakerTickets /\ Claims
  BY DEF WriterTickets, TakerTickets, Claims
<1> QED BY <1>1, <1>2, <1>3, <1>4 DEF IInv

\* The steps that look at the positions and the cells change neither.
LEMMA LookIInv ==
  ASSUME TypeOK, IInv, NEW t \in Threads, pc[t] \in {"load", "inspect", "claim"},
         pc' = [pc EXCEPT ![t] = pc'[t]], pc'[t] \in {"load", "inspect", "claim"},
         pos' = [pos EXCEPT ![t] = pos'[t]], pos'[t] \in Nat,
         UNCHANGED <<enqPos, deqPos, seq, storage>>,
         Claims'
  PROVE  IInv'
<1> USE DEF TypeOK, Threads
<1>1. /\ \A s \in Threads : Writing(s)' <=> Writing(s)
      /\ \A s \in Threads : Taking(s)' <=> Taking(s)
      /\ \A s \in Threads : Writing(s) \/ Taking(s) => pos'[s] = pos[s] /\ pc'[s] = pc[s]
  BY DEF Writing, Taking
<1>2. WithinCapacity'
  BY DEF IInv, WithinCapacity
<1>3. QueuedTickets'
  BY <1>1 DEF IInv, QueuedTickets, IsFull, CellOf
<1>4. FreeTickets'
  BY <1>1 DEF IInv, FreeTickets, IsFree, NextLap, CellOf
<1>5. WriterTickets'
  BY <1>1 DEF IInv, WriterTickets, IsFree, CellOf
<1>6. TakerTickets'
  BY <1>1 DEF IInv, TakerTickets, IsFull, NextLap, CellOf
<1> QED BY <1>2, <1>3, <1>4, <1>5, <1>6 DEF IInv

LEMMA LookToPushIInv ==
  ASSUME TypeOK, IInv, NEW p \in Producers,
         LoadEnqueuePos(p) \/ InspectToPush(p) \/ MissToPush(p)
  PROVE  IInv'
<1> USE DEF TypeOK, Threads, Goto
<1>1. /\ pc[p] \in {"load", "inspect", "claim"}
      /\ pc' = [pc EXCEPT ![p] = pc'[p]] /\ pc'[p] \in {"load", "inspect", "claim"}
      /\ pos' = [pos EXCEPT ![p] = pos'[p]] /\ pos'[p] \in Nat
      /\ UNCHANGED <<enqPos, deqPos, seq, storage>>
  BY DEF LoadEnqueuePos, InspectToPush, MissToPush
<1>2. Claims
  BY DEF IInv
<1>3. Claims'
  <2>1. CASE LoadEnqueuePos(p) \/ MissToPush(p)
    <3>1. /\ pos' = [pos EXCEPT ![p] = enqPos]
          /\ pc' = [pc EXCEPT ![p] = "inspect"]
          /\ UNCHANGED <<enqPos, deqPos, seq>>
      BY <2>1 DEF LoadEnqueuePos, MissToPush
    <3> QED BY <1>2, <3>1, Parameters DEF Claims, IsFree, IsFull, CellOf
  <2>2. CASE InspectToPush(p)
    BY <1>2, <2>2, Parameters
       DEF Claims, InspectToPush, IsFree, IsFull, CellOf
  <2> QED BY <2>1, <2>2
<1> QED BY <1>1, <1>3, LookIInv

LEMMA LookToPopIInv ==
  ASSUME TypeOK, IInv, NEW c \in Consumers,
         LoadDequeuePos(c) \/ InspectToPop(c) \/ MissToPop(c)
  PROVE  IInv'
<1> USE DEF TypeOK, Threads, Goto
<1>1. /\ pc[c] \in {"load", "inspect", "claim"}
      /\ pc' = [pc EXCEPT ![c] = pc'[c]] /\ pc'[c] \in {"load", "inspect", "claim"}
      /\ pos' = [pos EXCEPT ![c] = pos'[c]] /\ pos'[c] \in Nat
      /\ UNCHANGED <<enqPos, deqPos, seq, storage>>
  BY DEF LoadDequeuePos, InspectToPop, MissToPop
<1>2. Claims
  BY DEF IInv
<1>3. Claims'
  <2>1. CASE LoadDequeuePos(c) \/ MissToPop(c)
    <3>1. /\ pos' = [pos EXCEPT ![c] = deqPos]
          /\ pc' = [pc EXCEPT ![c] = "inspect"]
          /\ UNCHANGED <<enqPos, deqPos, seq>>
      BY <2>1 DEF LoadDequeuePos, MissToPop
    <3> QED BY <1>2, <3>1, Parameters DEF Claims, IsFree, IsFull, CellOf
  <2>2. CASE InspectToPop(c)
    BY <1>2, <2>2, Parameters
       DEF Claims, InspectToPop, IsFree, IsFull, CellOf
  <2> QED BY <2>1, <2>2
<1> QED BY <1>1, <1>3, LookIInv

\* With two cells or more a cell cannot be free for one ticket and full for
\* another, and it is free, or full, for one ticket only.
LEMMA OneTurn ==
  ASSUME Capacity >= 2
  PROVE  /\ \A s, t \in Nat : IsFree(s) /\ IsFull(t) => CellOf(s) # CellOf(t)
         /\ \A s, t \in Nat : IsFree(s) /\ IsFree(t) /\ s # t
                                => CellOf(s) # CellOf(t)
         /\ \A s, t \in Nat : IsFull(s) /\ IsFull(t) /\ s # t
                                => CellOf(s) # CellOf(t)
<1>1. ASSUME NEW s \in Nat, NEW t \in Nat, IsFree(s), IsFull(t),
             CellOf(s) = CellOf(t)
      PROVE  FALSE
  <2>1. s = t + 1
    BY <1>1 DEF IsFree, IsFull
  <2>2. NextLap(t) <= s
    BY <1>1, <2>1, Cells
  <2> QED BY <2>1, <2>2, Parameters DEF NextLap
<1> QED BY <1>1 DEF IsFree, IsFull

LEMMA ClaimToPushIInv ==
  ASSUME Capacity >= 2, TypeOK, IInv, NEW p \in Producers, ClaimToPush(p)
  PROVE  IInv'
<1> USE DEF TypeOK, Threads, Goto, ClaimToPush
<1>1. /\ pos[p] = enqPos /\ IsFree(enqPos)
      /\ \A t \in Nat : IsFree(t)' <=> IsFree(t)
      /\ \A t \in Nat : IsFull(t)' <=> IsFull(t)
  BY DEF IInv, Claims, IsFree, IsFull, CellOf
<1>2. /\ \A s \in Threads \ {p} : /\ Writing(s)' <=> Writing(s)
                                  /\ Taking(s)' <=> Taking(s)
                                  /\ pc'[s] = pc[s]
      /\ Writing(p)' /\ ~Writing(p) /\ pc'[p] = "write"
  BY DEF Writing, Taking
<1>3. \A c \in Consumers : Taking(c) => NextLap(pos[c]) # enqPos
  <2> SUFFICES ASSUME NEW c \in Consumers, Taking(c), NextLap(pos[c]) = enqPos
               PROVE  FALSE
    OBVIOUS
  <2>1. IsFull(pos[c])
    BY DEF IInv, TakerTickets
  <2>2. CellOf(pos[c]) = CellOf(enqPos)
    BY Cells
  <2> QED BY <1>1, <2>1, <2>2, OneTurn
<1>4. WithinCapacity'
  <2>1. ASSUME enqPos = deqPos + Capacity PROVE FALSE
    <3>1. CellOf(deqPos) = CellOf(enqPos)
      BY <2>1, Cells DEF NextLap
    <3>2. deqPos \in deqPos..(enqPos - 1) /\ deqPos # enqPos
      BY <2>1, Parameters
    <3>3. IsFull(deqPos) \/ IsFree(deqPos)
      BY <3>2 DEF IInv, QueuedTickets, WriterTickets
    <3> QED BY <1>1, <3>1, <3>2, <3>3, OneTurn
  <2>2. deqPos <= enqPos /\ enqPos <= deqPos + Capacity
    BY DEF IInv, WithinCapacity
  <2>3. /\ enqPos' = enqPos + 1 /\ deqPos' = deqPos
        /\ enqPos \in Nat /\ deqPos \in Nat
    OBVIOUS
  <2> HIDE DEF TypeOK, ClaimToPush
  <2> QED BY <2>1, <2>2, <2>3, Parameters DEF WithinCapacity
<1>5. storage[CellOf(enqPos)] = Nothing
  <2>1. enqPos \in enqPos..(deqPos + Capacity - 1)
    BY <1>4, Parameters DEF WithinCapacity
  <2> QED BY <1>3, <2>1 DEF IInv, FreeTickets
<1>6. QueuedTickets'
  <2> SUFFICES ASSUME NEW t \in deqPos..enqPos
               PROVE  \/ IsFull(t)' /\ storage[CellOf(t)]' # Nothing
                      \/ \E q \in Producers : Writing(q)' /\ pos'[q] = t
    BY DEF QueuedTickets
  <2>1. CASE t = enqPos
    BY <2>1, <1>1, <1>2
  <2>2. CASE t \in deqPos..(enqPos - 1)
    BY <2>2, <1>1, <1>2 DEF IInv, QueuedTickets, CellOf
  <2> QED BY <2>1, <2>2
<1>7. FreeTickets'
  <2> SUFFICES ASSUME NEW t \in (enqPos + 1)..(deqPos + Capacity - 1)
               PROVE  \/ IsFree(t)' /\ storage[CellOf(t)]' = Nothing
                      \/ \E c \in Consumers : Taking(c)' /\ NextLap(pos[c])' = t
    BY DEF FreeTickets
  <2>1. t \in Nat /\ t \in enqPos..(deqPos + Capacity - 1)
    BY Parameters
  <2> QED BY <1>1, <1>2, <2>1, Parameters DEF IInv, FreeTickets, NextLap, CellOf
<1>8. WriterTickets'
  BY <1>1, <1>2, <1>5, Parameters DEF IInv, WithinCapacity, WriterTickets, CellOf
<1>9. TakerTickets'
  <2> SUFFICES ASSUME NEW c \in Consumers, Taking(c)
               PROVE  enqPos + 1 <= NextLap(pos[c])
    BY <1>1, <1>2, Parameters DEF IInv, TakerTickets, NextLap, CellOf
  <2>1. enqPos <= NextLap(pos[c]) /\ enqPos # NextLap(pos[c])
    BY <1>3 DEF IInv, TakerTickets
  <2>2. enqPos \in Nat /\ NextLap(pos[c]) \in Nat
    BY Parameters DEF NextLap
  <2> HIDE DEF TypeOK, ClaimToPush
  <2> QED BY <2>1, <2>2
<1>10. Claims'
  BY <1>1, Parameters DEF IInv, Claims
<1> QED BY <1>4, <1>6, <1>7, <1>8, <1>9, <1>10 DEF IInv

\* The types the next proofs use.
LEMMA Types ==
  ASSUME TypeOK
  PROVE  /\ enqPos \in Nat /\ deqPos \in Nat
         /\ seq \in [Cell -> Nat]
         /\ \A i \in Cell : storage[i] \in Message \cup {Nothing}
         /\ DOMAIN storage = Cell
         /\ DOMAIN pc = Producers \cup Consumers
         /\ pos \in [Producers \cup Consumers -> Nat]
         /\ \A c \in Consumers : c \notin Producers
BY Parameters DEF TypeOK, Threads

LEMMA WriteIInv ==
  ASSUME Capacity >= 2, TypeOK, IInv, NEW p \in Producers, Write(p)
  PROVE  IInv'
<1> DEFINE i == CellOf(pos[p])
<1>1. /\ Writing(p) /\ pc[p] = "write"
      /\ pc' = [pc EXCEPT ![p] = "publish"]
      /\ storage' = [storage EXCEPT ![i] = MessageOf(p)]
      /\ UNCHANGED <<enqPos, deqPos, seq, pos>>
  BY DEF Write, Goto, Writing
<1>2. MessageOf(p) # Nothing
  <2>1. sent[p] \in 0..Messages /\ sent[p] < Messages
    BY <1>1 DEF TypeOK
  <2>2. sent[p] + 1 \in 1..Messages
    BY <2>1, Parameters
  <2>3. MessageOf(p) \in Message
    BY <2>2 DEF MessageOf, Message
  <2> QED BY <2>3, Parameters
<1>3. pos[p] \in Nat /\ i \in Cell /\ IsFree(pos[p])
  BY <1>1, Types, Cells DEF IInv, WriterTickets
<1>4. /\ \A t \in Nat : IsFree(t)' <=> IsFree(t)
      /\ \A t \in Nat : IsFull(t)' <=> IsFull(t)
      /\ \A t \in Nat : CellOf(t) # i => storage[CellOf(t)]' = storage[CellOf(t)]
      /\ storage'[i] # Nothing
      /\ \A s \in Producers \cup Consumers : /\ Writing(s)' <=> Writing(s)
                                             /\ Taking(s)' <=> Taking(s)
                                             /\ s # p => pc'[s] = pc[s]
      /\ pc'[p] = "publish"
  BY <1>1, <1>2, <1>3, Types, Cells DEF IsFree, IsFull, CellOf, Writing, Taking
<1>5. /\ \A t \in Nat : IsFull(t) => CellOf(t) # i
      /\ \A t \in Nat : IsFree(t) /\ t # pos[p] => CellOf(t) # i
  BY <1>3, OneTurn
<1> HIDE DEF i
<1>6. WithinCapacity'
  BY <1>1 DEF IInv, WithinCapacity
<1>7. QueuedTickets'
  BY <1>1, <1>4, <1>5, Types DEF IInv, QueuedTickets
<1>8. FreeTickets'
  <2> SUFFICES ASSUME NEW t \in enqPos..(deqPos + Capacity - 1)
               PROVE  \/ IsFree(t)' /\ storage[CellOf(t)]' = Nothing
                      \/ \E c \in Consumers : Taking(c)' /\ NextLap(pos[c])' = t
    BY <1>1 DEF FreeTickets
  <2>1. t \in Nat /\ t # pos[p]
    BY <1>1, Types, Parameters DEF IInv, WriterTickets
  <2> QED BY <1>1, <1>4, <1>5, <2>1 DEF IInv, FreeTickets, NextLap
<1>9. WriterTickets'
  <2> SUFFICES ASSUME NEW q \in Producers, Writing(q)
               PROVE  storage[CellOf(pos[q])]' = Nothing <=> pc'[q] = "write"
    BY <1>1, <1>4, Types DEF IInv, WriterTickets
  <2>1. CASE q = p
    BY <1>4, <2>1, <1>1 DEF i
  <2>2. CASE q # p
    BY <1>1, <1>4, <1>5, <2>2, Types DEF IInv, WriterTickets
  <2> QED BY <2>1, <2>2
<1>10. TakerTickets'
  BY <1>1, <1>4, <1>5, Types DEF IInv, TakerTickets, NextLap
<1>11. Claims'
  BY <1>1, <1>4, Types DEF IInv, Claims
<1> QED BY <1>6, <1>7, <1>8, <1>9, <1>10, <1>11 DEF IInv

LEMMA PublishIInv ==
  ASSUME Capacity >= 2, TypeOK, IInv, NEW p \in Producers, Publish(p)
  PROVE  IInv'
<1> DEFINE i == CellOf(pos[p])
<1>1. /\ Writing(p) /\ pc[p] = "publish"
      /\ pc' = [pc EXCEPT ![p] = "load"]
      /\ seq' = [seq EXCEPT ![i] = pos[p] + 1]
      /\ UNCHANGED <<enqPos, deqPos, storage, pos>>
  BY DEF Publish, Goto, Writing
<1>2. /\ pos[p] \in Nat /\ i \in Cell /\ IsFree(pos[p])
      /\ deqPos <= pos[p] /\ pos[p] < enqPos
      /\ storage[i] # Nothing
  BY <1>1, Types, Cells DEF IInv, WriterTickets
<1>3. /\ \A t \in Nat : CellOf(t) # i => /\ IsFree(t)' <=> IsFree(t)
                                         /\ IsFull(t)' <=> IsFull(t)
      /\ IsFull(pos[p])'
      /\ \A s \in Producers \cup Consumers : Taking(s)' <=> Taking(s)
      /\ \A s \in (Producers \cup Consumers) \ {p} :
            /\ Writing(s)' <=> Writing(s)
            /\ pc'[s] = pc[s]
      /\ ~Writing(p)' /\ pc'[p] = "load"
  BY <1>1, <1>2, Types, Cells DEF IsFree, IsFull, CellOf, Writing, Taking
<1>4. /\ \A t \in Nat : IsFull(t) => CellOf(t) # i
      /\ \A t \in Nat : IsFree(t) /\ t # pos[p] => CellOf(t) # i
  BY <1>2, OneTurn
<1> HIDE DEF i
<1>5. WithinCapacity'
  BY <1>1 DEF IInv, WithinCapacity
<1>6. QueuedTickets'
  <2> SUFFICES ASSUME NEW t \in deqPos..(enqPos - 1)
               PROVE  \/ IsFull(t)' /\ storage[CellOf(t)]' # Nothing
                      \/ \E q \in Producers : Writing(q)' /\ pos'[q] = t
    BY <1>1 DEF QueuedTickets
  <2>1. t \in Nat
    BY Types
  <2>2. CASE t = pos[p]
    BY <1>1, <1>2, <1>3, <2>2 DEF i, CellOf
  <2>3. CASE t # pos[p]
    <3>1. CASE IsFull(t) /\ storage[CellOf(t)] # Nothing
      BY <1>1, <1>3, <1>4, <2>1, <3>1 DEF CellOf
    <3>2. CASE \E q \in Producers : Writing(q) /\ pos[q] = t
      BY <1>1, <1>3, <2>3, <3>2
    <3> QED BY <3>1, <3>2 DEF IInv, QueuedTickets
  <2> QED BY <2>2, <2>3
<1>7. FreeTickets'
  <2> SUFFICES ASSUME NEW t \in enqPos..(deqPos + Capacity - 1)
               PROVE  \/ IsFree(t)' /\ storage[CellOf(t)]' = Nothing
                      \/ \E c \in Consumers : Taking(c)' /\ NextLap(pos[c])' = t
    BY <1>1 DEF FreeTickets
  <2>1. t \in Nat /\ t # pos[p]
    BY <1>2, Types, Parameters
  <2> QED BY <1>1, <1>3, <1>4, <2>1 DEF IInv, FreeTickets, NextLap, CellOf
<1>8. WriterTickets'
  <2> SUFFICES ASSUME NEW q \in Producers, q # p, Writing(q)
               PROVE  IsFree(pos[q])'
    BY <1>1, <1>3, Types DEF IInv, WriterTickets, CellOf
  <2>1. pos[q] \in Nat /\ IsFree(pos[q]) /\ pos[q] # pos[p]
    BY <1>1, Types DEF IInv, WriterTickets
  <2> QED BY <1>1, <1>3, <1>4, <2>1 DEF IsFree, CellOf
<1>9. TakerTickets'
  <2> SUFFICES ASSUME NEW c \in Consumers, Taking(c)
               PROVE  IsFull(pos[c])'
    BY <1>1, <1>3, Types DEF IInv, TakerTickets, CellOf, NextLap
  <2>1. pos[c] \in Nat /\ IsFull(pos[c])
    BY <1>1, Types DEF IInv, TakerTickets
  <2> QED BY <1>1, <1>3, <1>4, <2>1 DEF IsFull, CellOf
<1>10. Claims'
  <2>1. ASSUME NEW q \in Producers, pc'[q] \in {"inspect", "claim"}
        PROVE  /\ pos'[q] <= enqPos'
               /\ pc'[q] = "claim" /\ pos'[q] = enqPos' => IsFree(pos[q])'
    <3>1. q # p /\ pc[q] = pc'[q] /\ pos'[q] = pos[q] /\ pos[q] \in Nat
      BY <1>1, <1>3, <2>1, Types
    <3>2. pos[q] = enqPos => pos[q] # pos[p]
      BY <1>2, Types
    <3> QED BY <1>1, <1>3, <1>4, <2>1, <3>1, <3>2 DEF IInv, Claims, IsFree, CellOf
  <2>2. ASSUME NEW c \in Consumers, pc'[c] \in {"inspect", "claim"}
        PROVE  /\ pos'[c] <= deqPos'
               /\ pc'[c] = "claim" /\ pos'[c] = deqPos' => IsFull(pos[c])'
    <3>1. pc[c] = pc'[c] /\ pos'[c] = pos[c] /\ pos[c] \in Nat
      BY <1>1, <1>3, <2>2, Types
    <3> QED BY <1>1, <1>3, <1>4, <2>2, <3>1 DEF IInv, Claims, IsFull, CellOf
  <2> QED BY <2>1, <2>2 DEF Claims
<1> QED BY <1>5, <1>6, <1>7, <1>8, <1>9, <1>10 DEF IInv

LEMMA ClaimToPopIInv ==
  ASSUME Capacity >= 2, TypeOK, IInv, NEW c \in Consumers, ClaimToPop(c)
  PROVE  IInv'
<1>1. /\ pc[c] = "claim" /\ pos[c] = deqPos /\ deqPos' = deqPos + 1
      /\ pc' = [pc EXCEPT ![c] = "take"]
      /\ UNCHANGED <<enqPos, seq, storage, pos>>
  BY DEF ClaimToPop, Goto
<1>2. /\ IsFull(deqPos)
      /\ \A t \in Nat : IsFree(t)' <=> IsFree(t)
      /\ \A t \in Nat : IsFull(t)' <=> IsFull(t)
  BY <1>1 DEF IInv, Claims, IsFree, IsFull, CellOf
<1>3. /\ \A s \in (Producers \cup Consumers) \ {c} :
            /\ Writing(s)' <=> Writing(s)
            /\ Taking(s)' <=> Taking(s)
            /\ pc'[s] = pc[s]
      /\ Taking(c)' /\ ~Taking(c) /\ pc'[c] = "take"
  BY <1>1, Types DEF Writing, Taking
<1>4. \A p \in Producers : Writing(p) => pos[p] # deqPos
  BY <1>2, Types, OneTurn DEF IInv, WriterTickets
<1>5. deqPos < enqPos
  <2>1. ASSUME deqPos = enqPos PROVE FALSE
    <3>1. deqPos \in enqPos..(deqPos + Capacity - 1)
      BY <2>1, Types, Parameters
    <3>2. ~IsFree(deqPos)
      BY <1>2, Types, OneTurn
    <3>3. PICK d \in Consumers : Taking(d) /\ NextLap(pos[d]) = deqPos
      BY <3>1, <3>2 DEF IInv, FreeTickets
    <3>4. IsFull(pos[d]) /\ pos[d] \in Nat /\ pos[d] < deqPos
      BY <3>3, Types DEF IInv, TakerTickets
    <3>5. CellOf(pos[d]) = CellOf(deqPos)
      BY <3>3, <3>4, Cells
    <3> QED BY <1>2, <3>4, <3>5, Types, OneTurn
  <2> QED BY <2>1, Types DEF IInv, WithinCapacity
<1>6. storage[CellOf(deqPos)] # Nothing
  <2>1. deqPos \in deqPos..(enqPos - 1)
    BY <1>5, Types
  <2> QED BY <1>4, <2>1 DEF IInv, QueuedTickets
<1>7. enqPos <= NextLap(deqPos)
  BY Parameters DEF IInv, WithinCapacity, NextLap
<1>8. WithinCapacity'
  BY <1>1, <1>5, Types, Parameters DEF IInv, WithinCapacity
<1>9. QueuedTickets'
  <2> SUFFICES ASSUME NEW t \in (deqPos + 1)..(enqPos - 1)
               PROVE  \/ IsFull(t)' /\ storage[CellOf(t)]' # Nothing
                      \/ \E p \in Producers : Writing(p)' /\ pos'[p] = t
    BY <1>1 DEF QueuedTickets
  <2>1. t \in Nat /\ t \in deqPos..(enqPos - 1)
    BY Types
  <2> QED BY <1>1, <1>2, <1>3, <2>1, Types DEF IInv, QueuedTickets, CellOf
<1>10. FreeTickets'
  <2> SUFFICES ASSUME NEW t \in enqPos..(deqPos + 1 + Capacity - 1)
               PROVE  \/ IsFree(t)' /\ storage[CellOf(t)]' = Nothing
                      \/ \E d \in Consumers : Taking(d)' /\ NextLap(pos[d])' = t
    BY <1>1 DEF FreeTickets
  <2>1. CASE t = deqPos + Capacity
    BY <1>1, <1>3, <2>1 DEF NextLap
  <2>2. CASE t \in enqPos..(deqPos + Capacity - 1)
    <3>1. t \in Nat
      BY Types
    <3> QED BY <1>1, <1>2, <1>3, <2>2, <3>1 DEF IInv, FreeTickets, NextLap, CellOf
  <2> QED BY <2>1, <2>2, Types, Parameters
<1>11. WriterTickets'
  BY <1>1, <1>2, <1>3, <1>4, Types DEF IInv, WriterTickets, CellOf
<1>12. TakerTickets'
  BY <1>1, <1>2, <1>3, <1>6, <1>7, Types DEF IInv, TakerTickets, NextLap, CellOf
<1>13. Claims'
  BY <1>1, <1>2, <1>3, Types DEF IInv, Claims
<1> QED BY <1>8, <1>9, <1>10, <1>11, <1>12, <1>13 DEF IInv

LEMMA TakeIInv ==
  ASSUME Capacity >= 2, TypeOK, IInv, NEW c \in Consumers, Take(c)
  PROVE  IInv'
<1> DEFINE i == CellOf(pos[c])
<1>1. /\ Taking(c) /\ pc[c] = "take"
      /\ pc' = [pc EXCEPT ![c] = "release"]
      /\ storage' = [storage EXCEPT ![i] = Nothing]
      /\ UNCHANGED <<enqPos, deqPos, seq, pos>>
  BY DEF Take, Goto, Taking
<1>2. pos[c] \in Nat /\ i \in Cell /\ IsFull(pos[c]) /\ pos[c] < deqPos
  BY <1>1, Types, Cells DEF IInv, TakerTickets
<1>3. /\ \A t \in Nat : IsFree(t)' <=> IsFree(t)
      /\ \A t \in Nat : IsFull(t)' <=> IsFull(t)
      /\ \A t \in Nat : CellOf(t) # i => storage[CellOf(t)]' = storage[CellOf(t)]
      /\ storage'[i] = Nothing
      /\ \A s \in Producers \cup Consumers : /\ Writing(s)' <=> Writing(s)
                                             /\ Taking(s)' <=> Taking(s)
                                             /\ s # c => pc'[s] = pc[s]
      /\ pc'[c] = "release"
  BY <1>1, <1>2, Types, Cells DEF IsFree, IsFull, CellOf, Writing, Taking
<1>4. /\ \A t \in Nat : IsFree(t) => CellOf(t) # i
      /\ \A t \in Nat : IsFull(t) /\ t # pos[c] => CellOf(t) # i
  BY <1>2, OneTurn
<1> HIDE DEF i
<1>5. WithinCapacity'
  BY <1>1 DEF IInv, WithinCapacity
<1>6. QueuedTickets'
  <2> SUFFICES ASSUME NEW t \in deqPos..(enqPos - 1)
               PROVE  \/ IsFull(t)' /\ storage[CellOf(t)]' # Nothing
                      \/ \E p \in Producers : Writing(p)' /\ pos'[p] = t
    BY <1>1 DEF QueuedTickets
  <2>1. t \in Nat /\ t # pos[c]
    BY <1>2, Types
  <2> QED BY <1>1, <1>3, <1>4, <2>1 DEF IInv, QueuedTickets
<1>7. FreeTickets'
  <2> SUFFICES ASSUME NEW t \in enqPos..(deqPos + Capacity - 1)
               PROVE  \/ IsFree(t)' /\ storage[CellOf(t)]' = Nothing
                      \/ \E d \in Consumers : Taking(d)' /\ NextLap(pos[d])' = t
    BY <1>1 DEF FreeTickets
  <2>1. t \in Nat
    BY Types
  <2> QED BY <1>1, <1>3, <1>4, <2>1 DEF IInv, FreeTickets, NextLap
<1>8. WriterTickets'
  BY <1>1, <1>3, <1>4, Types DEF IInv, WriterTickets
<1>9. TakerTickets'
  <2> SUFFICES ASSUME NEW d \in Consumers, Taking(d)
               PROVE  storage[CellOf(pos[d])]' = Nothing <=> pc'[d] = "release"
    BY <1>1, <1>3, Types DEF IInv, TakerTickets, NextLap
  <2>1. CASE d = c
    BY <1>1, <1>3, <2>1 DEF i
  <2>2. CASE d # c
    BY <1>1, <1>3, <1>4, <2>2, Types DEF IInv, TakerTickets
  <2> QED BY <2>1, <2>2
<1>10. Claims'
  BY <1>1, <1>3, Types DEF IInv, Claims
<1> QED BY <1>5, <1>6, <1>7, <1>8, <1>9, <1>10 DEF IInv

LEMMA ReleaseIInv ==
  ASSUME Capacity >= 2, TypeOK, IInv, NEW c \in Consumers, Release(c)
  PROVE  IInv'
<1> DEFINE i == CellOf(pos[c])
<1>1. /\ Taking(c) /\ pc[c] = "release"
      /\ pc' = [pc EXCEPT ![c] = "load"]
      /\ seq' = [seq EXCEPT ![i] = NextLap(pos[c])]
      /\ UNCHANGED <<enqPos, deqPos, storage, pos>>
  BY DEF Release, Goto, Taking
<1>2. /\ pos[c] \in Nat /\ i \in Cell /\ IsFull(pos[c])
      /\ pos[c] < deqPos /\ enqPos <= NextLap(pos[c])
      /\ storage[i] = Nothing
      /\ NextLap(pos[c]) \in Nat /\ CellOf(NextLap(pos[c])) = i
  BY <1>1, Types, Cells, Parameters DEF IInv, TakerTickets, NextLap
<1>3. /\ \A t \in Nat : CellOf(t) # i => /\ IsFree(t)' <=> IsFree(t)
                                         /\ IsFull(t)' <=> IsFull(t)
      /\ IsFree(NextLap(pos[c]))'
      /\ \A s \in Producers \cup Consumers : Writing(s)' <=> Writing(s)
      /\ \A s \in (Producers \cup Consumers) \ {c} :
            /\ Taking(s)' <=> Taking(s)
            /\ pc'[s] = pc[s]
      /\ ~Taking(c)' /\ pc'[c] = "load"
  BY <1>1, <1>2, Types, Cells
     DEF IsFree, IsFull, CellOf, NextLap, Writing, Taking
<1>4. /\ \A t \in Nat : IsFree(t) => CellOf(t) # i
      /\ \A t \in Nat : IsFull(t) /\ t # pos[c] => CellOf(t) # i
  BY <1>2, OneTurn
<1> HIDE DEF i
<1>5. WithinCapacity'
  BY <1>1 DEF IInv, WithinCapacity
<1>6. QueuedTickets'
  <2> SUFFICES ASSUME NEW t \in deqPos..(enqPos - 1)
               PROVE  \/ IsFull(t)' /\ storage[CellOf(t)]' # Nothing
                      \/ \E p \in Producers : Writing(p)' /\ pos'[p] = t
    BY <1>1 DEF QueuedTickets
  <2>1. t \in Nat /\ t # pos[c]
    BY <1>2, Types
  <2> QED BY <1>1, <1>3, <1>4, <2>1 DEF IInv, QueuedTickets, CellOf
<1>7. FreeTickets'
  <2> SUFFICES ASSUME NEW t \in enqPos..(deqPos + Capacity - 1)
               PROVE  \/ IsFree(t)' /\ storage[CellOf(t)]' = Nothing
                      \/ \E d \in Consumers : Taking(d)' /\ NextLap(pos[d])' = t
    BY <1>1 DEF FreeTickets
  <2>1. t \in Nat
    BY Types
  <2>2. CASE t = NextLap(pos[c])
    BY <1>1, <1>2, <1>3, <2>2 DEF CellOf
  <2>3. CASE t # NextLap(pos[c])
    <3>1. CASE IsFree(t) /\ storage[CellOf(t)] = Nothing
      BY <1>1, <1>3, <1>4, <2>1, <3>1 DEF CellOf
    <3>2. CASE \E d \in Consumers : Taking(d) /\ NextLap(pos[d]) = t
      BY <1>1, <1>3, <2>3, <3>2 DEF NextLap
    <3> QED BY <3>1, <3>2 DEF IInv, FreeTickets
  <2> QED BY <2>2, <2>3
<1>8. WriterTickets'
  <2> SUFFICES ASSUME NEW p \in Producers, Writing(p)
               PROVE  IsFree(pos[p])'
    BY <1>1, <1>3, Types DEF IInv, WriterTickets, CellOf
  <2>1. pos[p] \in Nat /\ IsFree(pos[p])
    BY <1>1, Types DEF IInv, WriterTickets
  <2> QED BY <1>1, <1>3, <1>4, <2>1 DEF IsFree, CellOf
<1>9. TakerTickets'
  <2> SUFFICES ASSUME NEW d \in Consumers, d # c, Taking(d)
               PROVE  IsFull(pos[d])'
    BY <1>1, <1>3, Types DEF IInv, TakerTickets, CellOf, NextLap
  <2>1. pos[d] \in Nat /\ IsFull(pos[d]) /\ pos[d] # pos[c]
    BY <1>1, Types DEF IInv, TakerTickets
  <2> QED BY <1>1, <1>3, <1>4, <2>1 DEF IsFull, CellOf
<1>10. Claims'
  <2>1. ASSUME NEW p \in Producers, pc'[p] \in {"inspect", "claim"}
        PROVE  /\ pos'[p] <= enqPos'
               /\ pc'[p] = "claim" /\ pos'[p] = enqPos' => IsFree(pos[p])'
    <3>1. pc[p] = pc'[p] /\ pos'[p] = pos[p] /\ pos[p] \in Nat
      BY <1>1, <1>3, <2>1, Types
    <3> QED BY <1>1, <1>3, <1>4, <2>1, <3>1 DEF IInv, Claims, IsFree, CellOf
  <2>2. ASSUME NEW d \in Consumers, pc'[d] \in {"inspect", "claim"}
        PROVE  /\ pos'[d] <= deqPos'
               /\ pc'[d] = "claim" /\ pos'[d] = deqPos' => IsFull(pos[d])'
    <3>1. d # c /\ pc[d] = pc'[d] /\ pos'[d] = pos[d] /\ pos[d] \in Nat
      BY <1>1, <1>3, <2>2, Types
    <3>2. pos[d] = deqPos => pos[d] # pos[c]
      BY <1>2, Types
    <3> QED BY <1>1, <1>3, <1>4, <2>2, <3>1, <3>2 DEF IInv, Claims, IsFull, CellOf
  <2> QED BY <2>1, <2>2 DEF Claims
<1> QED BY <1>5, <1>6, <1>7, <1>8, <1>9, <1>10 DEF IInv

LEMMA NextIInv ==
  ASSUME Capacity >= 2, TypeOK, IInv, [Next]_vars
  PROVE  IInv'
<1>1. ASSUME NEW p \in Producers, Push(p) PROVE IInv'
  BY <1>1, LookToPushIInv, ClaimToPushIInv, WriteIInv, PublishIInv DEF Push
<1>2. ASSUME NEW c \in Consumers, Pop(c) PROVE IInv'
  BY <1>2, LookToPopIInv, ClaimToPopIInv, TakeIInv, ReleaseIInv DEF Pop
<1>3. CASE UNCHANGED vars
  BY <1>3 DEF vars, IInv, WithinCapacity, QueuedTickets, FreeTickets,
              WriterTickets, TakerTickets, Claims, IsFree, IsFull, NextLap,
              CellOf, Writing, Taking
<1> QED BY <1>1, <1>2, <1>3 DEF Next, Joined

\* IInv is an invariant of every queue of two cells or more.
THEOREM Invariance == ASSUME Capacity >= 2 PROVE Spec => [](TypeOK /\ IInv)
<1>1. Init => TypeOK /\ IInv
  BY InitTypeOK, InitIInv
<1>2. TypeOK /\ IInv /\ [Next]_vars => (TypeOK /\ IInv)'
  BY NextTypeOK, NextIInv
<1> QED BY <1>1, <1>2, PTL DEF Spec

-----------------------------------------------------------------------------

\* The queue never accepts more than Capacity values.
THEOREM Bounded == ASSUME Capacity >= 2 PROVE Spec => []WithinCapacity
<1>1. IInv => WithinCapacity
  BY DEF IInv
<1> QED BY <1>1, Invariance, PTL

\* No two threads are ever in the same cell: the plain accesses of try_push
\* and try_pop to the storage do not race.
THEOREM NoRaces == ASSUME Capacity >= 2 PROVE Spec => []CellExclusive
<1>1. TypeOK /\ IInv => CellExclusive
  <2> SUFFICES ASSUME TypeOK, IInv, NEW s \in Threads, NEW t \in Threads,
                      s # t, Owning(s), Owning(t)
               PROVE  CellOf(pos[s]) # CellOf(pos[t])
    BY DEF CellExclusive
  <2>1. pos[s] \in Nat /\ pos[t] \in Nat
    BY Types DEF Threads
  <2>2. \/ Writing(s) /\ IsFree(pos[s])
        \/ Taking(s) /\ IsFull(pos[s])
    BY DEF Owning, Writing, Taking, IInv, WriterTickets, TakerTickets
  <2>3. \/ Writing(t) /\ IsFree(pos[t])
        \/ Taking(t) /\ IsFull(pos[t])
    BY DEF Owning, Writing, Taking, IInv, WriterTickets, TakerTickets
  <2>4. Writing(s) /\ Writing(t) => pos[s] # pos[t]
    BY DEF Writing, IInv, WriterTickets
  <2>5. Taking(s) /\ Taking(t) => pos[s] # pos[t]
    BY DEF Taking, IInv, TakerTickets
  <2> QED BY <2>1, <2>2, <2>3, <2>4, <2>5, OneTurn
<1> QED BY <1>1, Invariance, PTL

\* No pop moves out raw storage, and no push constructs over a live object.
THEOREM OnlyLiveObjects == ASSUME Capacity >= 2 PROVE Spec => []LiveObjectsOnly
<1>1. IInv => LiveObjectsOnly
  BY DEF IInv, LiveObjectsOnly, WriterTickets, TakerTickets, Writing, Taking
<1> QED BY <1>1, Invariance, PTL

-----------------------------------------------------------------------------
(* The queue implements a bounded FIFO                                     *)

\* A producer that is about to publish has its message in the cell.
Constructed ==
  \A p \in Producers : pc[p] = "publish" => storage[CellOf(pos[p])] = MessageOf(p)

LEMMA ConstructedNext ==
  ASSUME Capacity >= 2, TypeOK, IInv, Constructed, [Next]_vars
  PROVE  Constructed'
<1> SUFFICES ASSUME NEW p \in Producers, pc'[p] = "publish"
             PROVE  storage'[CellOf(pos[p])'] = MessageOf(p)'
  BY DEF Constructed, CellOf
<1> USE Types DEF Goto
<1>1. CASE Write(p)
  <2>1. /\ pos[p] \in Nat /\ CellOf(pos[p]) \in Cell
        /\ storage' = [storage EXCEPT ![CellOf(pos[p])] = MessageOf(p)]
        /\ pos' = pos /\ sent' = sent
    BY <1>1, Cells DEF Write
  <2> QED BY <2>1 DEF CellOf, MessageOf
<1>2. CASE ~Write(p)
  <2>1. pc[p] = "publish" /\ pos'[p] = pos[p] /\ sent'[p] = sent[p]
    <3>1. ASSUME NEW q \in Producers, Push(q)
          PROVE  pc[p] = "publish" /\ pos'[p] = pos[p] /\ sent'[p] = sent[p]
      BY <1>2, <3>1
      DEF Push, LoadEnqueuePos, InspectToPush, ClaimToPush, MissToPush, Write,
          Publish, TypeOK, Threads
    <3>2. ASSUME NEW c \in Consumers, Pop(c)
          PROVE  pc[p] = "publish" /\ pos'[p] = pos[p] /\ sent'[p] = sent[p]
      BY <3>2
      DEF Pop, LoadDequeuePos, InspectToPop, ClaimToPop, MissToPop, Take,
          Release, TypeOK, Threads
    <3> QED BY <3>1, <3>2 DEF Next, Joined, vars
  <2>2. /\ pos[p] \in Nat /\ CellOf(pos[p]) \in Cell /\ Writing(p)
        /\ IsFree(pos[p])
    BY <2>1, Cells DEF IInv, WriterTickets, Writing
  <2>3. storage'[CellOf(pos[p])] = storage[CellOf(pos[p])]
    <3>1. CASE storage' = storage
      BY <3>1
    <3>2. CASE \E q \in Producers : Write(q)
      <4>1. PICK q \in Producers : Write(q)
        BY <3>2
      <4>2. /\ q # p /\ Writing(q) /\ pos[q] \in Nat /\ pos[q] # pos[p]
            /\ IsFree(pos[q])
        BY <1>2, <2>2, <4>1 DEF Write, Writing, IInv, WriterTickets
      <4>3. CellOf(pos[q]) # CellOf(pos[p])
        BY <2>2, <4>2, OneTurn
      <4> QED BY <2>2, <4>1, <4>3 DEF Write
    <3>3. CASE \E c \in Consumers : Take(c)
      <4>1. PICK c \in Consumers : Take(c)
        BY <3>3
      <4>2. Taking(c) /\ pos[c] \in Nat /\ IsFull(pos[c])
        BY <4>1 DEF Take, Taking, IInv, TakerTickets
      <4>3. CellOf(pos[c]) # CellOf(pos[p])
        BY <2>2, <4>2, OneTurn
      <4> QED BY <2>2, <4>1, <4>3 DEF Take
    <3> QED BY <3>1, <3>2, <3>3
        DEF Next, Push, Pop, Joined, vars, LoadEnqueuePos, InspectToPush,
            ClaimToPush, MissToPush, Publish, LoadDequeuePos, InspectToPop,
            ClaimToPop, MissToPop, Release
  <2> QED BY <2>1, <2>3, <2>2 DEF Constructed, CellOf, MessageOf
<1> QED BY <1>1, <1>2

\* What the proof that a step refines one of BoundedFifo starts from.
RInv == TypeOK /\ IInv /\ Constructed

LEMMA RefinementInvariant == ASSUME Capacity >= 2 PROVE Spec => []RInv
<1>1. Init => RInv
  BY InitTypeOK, InitIInv DEF RInv, Constructed, Init, Threads
<1>2. RInv /\ [Next]_vars => RInv'
  BY NextTypeOK, NextIInv, ConstructedNext DEF RInv
<1> QED BY <1>1, <1>2, PTL DEF Spec

\* What BoundedFifo's variables stand for.
Queue == [k \in 1..(enqPos - deqPos) |-> ValueOf(deqPos + k - 1)]
Puts == [p \in Producers |-> sent[p] + (IF Writing(p) THEN 1 ELSE 0)]
Gots == [c \in Consumers |-> seen[c] \o Pending(c)]

LEMMA Stutters ==
  ASSUME Queue' = Queue, Puts' = Puts, Gots' = Gots
  PROVE  UNCHANGED Fifo!vars
BY DEF Fifo!vars, Queue, Puts, Gots

LEMMA PutsOne ==
  ASSUME NEW p \in Producers, Puts[p] < Messages, Len(Queue) < Capacity,
         Queue' = Append(Queue, <<p, Puts[p] + 1>>),
         Puts' = [Puts EXCEPT ![p] = Puts[p] + 1], Gots' = Gots
  PROVE  Fifo!Put(p)
BY DEF Fifo!Put, Queue, Puts, Gots

LEMMA TakesOne ==
  ASSUME NEW c \in Consumers, Queue # <<>>, Queue' = Tail(Queue),
         Gots' = [Gots EXCEPT ![c] = Append(Gots[c], Head(Queue))], Puts' = Puts
  PROVE  Fifo!Take(c)
BY DEF Fifo!Take, Queue, Puts, Gots

\* The value of a ticket whose producer has yet to publish it.
WritersValues == \A p \in Producers : Writing(p) => ValueOf(pos[p]) = MessageOf(p)

LEMMA ValueOfWriter == RInv => WritersValues
<1> SUFFICES ASSUME RInv, NEW p \in Producers, Writing(p)
             PROVE  ValueOf(pos[p]) = MessageOf(p)
  BY DEF WritersValues
<1> USE DEF RInv
<1> DEFINE w == CHOOSE q \in Producers : Writing(q) /\ pos[q] = pos[p]
<1>1. w \in Producers /\ Writing(w) /\ pos[w] = pos[p]
  OBVIOUS
<1>2. w = p
  BY <1>1 DEF IInv, WriterTickets
<1>3. pos[p] \in Nat /\ IsFree(pos[p])
  BY Types DEF IInv, WriterTickets
<1>4. ~IsFull(pos[p])
  BY <1>3 DEF IsFree, IsFull
<1> QED BY <1>2, <1>4 DEF ValueOf

LEMMA ValueOfWriterNext == RInv' => WritersValues'
BY ValueOfWriter, PTL

\* A ticket keeps its value: as an object in its cell, as the message its
\* producer is pushing, or when that becomes the object.
LEMMA ValueKept ==
  ASSUME RInv, RInv', NEW t \in Nat,
         \/ IsFull(t) /\ IsFull(t)' /\ storage'[CellOf(t)] = storage[CellOf(t)]
         \/ \E p \in Producers :
              /\ Writing(p) /\ pos[p] = t
              /\ \/ Writing(p)' /\ pos'[p] = t /\ sent'[p] = sent[p]
                 \/ IsFull(t)' /\ storage'[CellOf(t)] = MessageOf(p)
  PROVE  ValueOf(t)' = ValueOf(t)
<1>1. IsFull(t) => ValueOf(t) = storage[CellOf(t)]
  BY DEF ValueOf
<1>2. IsFull(t)' => ValueOf(t)' = storage'[CellOf(t)]
  BY DEF ValueOf, CellOf
<1>3. \A p \in Producers : Writing(p) /\ pos[p] = t => ValueOf(t) = MessageOf(p)
  BY ValueOfWriter DEF WritersValues
<1>4. \A p \in Producers : Writing(p)' /\ pos'[p] = t => ValueOf(t)' = MessageOf(p)'
  BY ValueOfWriterNext DEF WritersValues
<1>5. \A p \in Producers : sent'[p] = sent[p] => MessageOf(p)' = MessageOf(p)
  BY DEF MessageOf
<1> QED BY <1>1, <1>2, <1>3, <1>4, <1>5

\* The tickets in the queue.
Tickets == deqPos..(enqPos - 1)

LEMMA TicketsAre ==
  ASSUME RInv, NEW t \in Tickets
  PROVE  /\ t \in Nat
         /\ IsFull(t) \/ \E p \in Producers : Writing(p) /\ pos[p] = t
BY Types DEF RInv, IInv, QueuedTickets, Tickets

LEMMA QueueKept ==
  ASSUME RInv, RInv', enqPos' = enqPos, deqPos' = deqPos,
         \A t \in Tickets : ValueOf(t)' = ValueOf(t)
  PROVE  Queue' = Queue
<1>1. enqPos \in Nat /\ deqPos \in Nat
  BY Types DEF RInv
<1>2. \A k \in 1..(enqPos - deqPos) : deqPos + k - 1 \in Tickets
  BY <1>1 DEF Tickets
<1>3. \A k \in 1..(enqPos - deqPos) : ValueOf(deqPos + k - 1)' = ValueOf(deqPos + k - 1)
  BY <1>2
<1> QED BY <1>3 DEF Queue

\* What the proofs below need to know of the threads.
LEMMA Claimed ==
  ASSUME RInv
  PROVE  /\ \A p \in Producers : Writing(p) =>
              pos[p] \in Nat /\ CellOf(pos[p]) \in Cell /\ IsFree(pos[p])
         /\ \A c \in Consumers : Taking(c) =>
              /\ pos[c] \in Nat /\ CellOf(pos[c]) \in Cell /\ IsFull(pos[c])
              /\ pos[c] < deqPos
              /\ \A d \in Consumers \ {c} : Taking(d) => pos[d] # pos[c]
         /\ \A c \in Consumers : pc[c] \in {"take", "release"} <=> Taking(c)
BY Types, Cells DEF RInv, IInv, WriterTickets, TakerTickets, Taking

LEMMA LookStutters ==
  ASSUME RInv, RInv', NEW t \in Threads, pc[t] \in {"load", "inspect", "claim"},
         pc' = [pc EXCEPT ![t] = pc'[t]], pc'[t] \in {"load", "inspect", "claim"},
         pos' = [pos EXCEPT ![t] = pos'[t]],
         UNCHANGED <<enqPos, deqPos, seq, storage, out, sent, seen>>
  PROVE  UNCHANGED Fifo!vars
<1>1. /\ \A s \in Threads : Writing(s)' <=> Writing(s)
      /\ \A s \in Threads : Writing(s) \/ Taking(s) => pos'[s] = pos[s]
      /\ \A c \in Consumers : pc'[c] = pc[c] \/ {pc'[c], pc[c]} \cap {"take", "release"} = {}
  BY Types DEF RInv, Writing, Taking, Threads
<1>2. Queue' = Queue
  <2> SUFFICES ASSUME NEW n \in Tickets PROVE ValueOf(n)' = ValueOf(n)
    BY QueueKept
  <2>1. n \in Nat /\ (IsFull(n)' <=> IsFull(n)) /\ storage'[CellOf(n)] = storage[CellOf(n)]
    BY TicketsAre DEF IsFull, CellOf
  <2> QED BY <1>1, <2>1, TicketsAre, ValueKept DEF Threads
<1>3. Puts' = Puts
  BY <1>1 DEF Puts, Threads
<1>4. Gots' = Gots
  <2> SUFFICES ASSUME NEW c \in Consumers PROVE Pending(c)' = Pending(c)
    BY DEF Gots
  <2>1. Taking(c) => pos'[c] = pos[c]
    BY <1>1 DEF Threads
  <2> QED BY <1>1, <2>1, Claimed DEF Pending, CellOf
<1> QED BY <1>2, <1>3, <1>4, Stutters

LEMMA LookToPushStutters ==
  ASSUME RInv, RInv', NEW p \in Producers,
         LoadEnqueuePos(p) \/ InspectToPush(p) \/ MissToPush(p)
  PROVE  UNCHANGED Fifo!vars
<1>1. /\ pc[p] \in {"load", "inspect", "claim"}
      /\ pc' = [pc EXCEPT ![p] = pc'[p]] /\ pc'[p] \in {"load", "inspect", "claim"}
      /\ pos' = [pos EXCEPT ![p] = pos'[p]]
      /\ UNCHANGED <<enqPos, deqPos, seq, storage, out, sent, seen>>
  BY Types DEF LoadEnqueuePos, InspectToPush, MissToPush, Goto, RInv
<1> QED BY <1>1, LookStutters DEF Threads

LEMMA LookToPopStutters ==
  ASSUME RInv, RInv', NEW c \in Consumers,
         LoadDequeuePos(c) \/ InspectToPop(c) \/ MissToPop(c)
  PROVE  UNCHANGED Fifo!vars
<1>1. /\ pc[c] \in {"load", "inspect", "claim"}
      /\ pc' = [pc EXCEPT ![c] = pc'[c]] /\ pc'[c] \in {"load", "inspect", "claim"}
      /\ pos' = [pos EXCEPT ![c] = pos'[c]]
      /\ UNCHANGED <<enqPos, deqPos, seq, storage, out, sent, seen>>
  BY Types DEF LoadDequeuePos, InspectToPop, MissToPop, Goto, RInv
<1> QED BY <1>1, LookStutters DEF Threads

LEMMA WriteStutters ==
  ASSUME Capacity >= 2, RInv, RInv', NEW p \in Producers, Write(p)
  PROVE  UNCHANGED Fifo!vars
<1> DEFINE i == CellOf(pos[p])
<1>1. /\ Writing(p) /\ pc' = [pc EXCEPT ![p] = "publish"]
      /\ storage' = [storage EXCEPT ![i] = MessageOf(p)]
      /\ UNCHANGED <<enqPos, deqPos, seq, pos, out, sent, seen>>
  BY DEF Write, Goto, Writing
<1>2. /\ \A q \in Producers : Writing(q)' <=> Writing(q)
      /\ \A c \in Consumers : pc'[c] = pc[c]
  BY <1>1, Types DEF RInv, Writing
<1>3. /\ pos[p] \in Nat /\ IsFree(pos[p])
      /\ \A t \in Nat : IsFull(t) => CellOf(t) # i
  BY <1>1, Claimed, OneTurn
<1>4. /\ \A t \in Nat : CellOf(t) # i => storage'[CellOf(t)] = storage[CellOf(t)]
      /\ \A t \in Nat : IsFull(t)' <=> IsFull(t)
  BY <1>1, Types, Cells DEF RInv, IsFull, CellOf
<1> HIDE DEF i
<1>5. Queue' = Queue
  <2> SUFFICES ASSUME NEW t \in Tickets PROVE ValueOf(t)' = ValueOf(t)
    BY <1>1, QueueKept
  <2> QED BY <1>1, <1>2, <1>3, <1>4, TicketsAre, ValueKept
<1>6. Puts' = Puts
  BY <1>1, <1>2 DEF Puts
<1>7. Gots' = Gots
  <2> SUFFICES ASSUME NEW c \in Consumers PROVE Pending(c)' = Pending(c)
    BY <1>1 DEF Gots
  <2>1. pc[c] = "take" => storage'[CellOf(pos[c])] = storage[CellOf(pos[c])]
    BY <1>3, <1>4, Claimed
  <2> QED BY <1>1, <1>2, <2>1 DEF Pending, CellOf
<1> QED BY <1>5, <1>6, <1>7, Stutters

LEMMA PublishStutters ==
  ASSUME Capacity >= 2, RInv, RInv', NEW p \in Producers, Publish(p)
  PROVE  UNCHANGED Fifo!vars
<1> DEFINE i == CellOf(pos[p])
<1>1. /\ Writing(p) /\ pc[p] = "publish" /\ pc' = [pc EXCEPT ![p] = "load"]
      /\ seq' = [seq EXCEPT ![i] = pos[p] + 1]
      /\ sent' = [sent EXCEPT ![p] = sent[p] + 1]
      /\ UNCHANGED <<enqPos, deqPos, storage, pos, out, seen>>
  BY DEF Publish, Goto, Writing
<1>2. /\ \A q \in Producers \ {p} : (Writing(q)' <=> Writing(q)) /\ sent'[q] = sent[q]
      /\ ~Writing(p)' /\ sent'[p] = sent[p] + 1 /\ sent[p] \in Nat
      /\ \A c \in Consumers : pc'[c] = pc[c]
  BY <1>1, Types, Parameters DEF RInv, TypeOK, Writing
<1>3. /\ pos[p] \in Nat /\ i \in Cell /\ IsFree(pos[p])
      /\ \A t \in Nat : IsFull(t) => CellOf(t) # i
  BY <1>1, Claimed, OneTurn
<1>4. /\ \A t \in Nat : CellOf(t) # i => (IsFull(t)' <=> IsFull(t))
      /\ IsFull(pos[p])'
  BY <1>1, <1>3, Types, Cells DEF RInv, IsFull, CellOf
<1>5. storage[CellOf(pos[p])] = MessageOf(p)
  BY <1>1 DEF RInv, Constructed
<1> HIDE DEF i
<1>6. Queue' = Queue
  <2> SUFFICES ASSUME NEW t \in Tickets PROVE ValueOf(t)' = ValueOf(t)
    BY <1>1, QueueKept
  <2>1. CASE t = pos[p]
    <3>1. IsFull(t)' /\ storage'[CellOf(t)] = MessageOf(p)
      BY <1>1, <1>4, <1>5, <2>1 DEF IsFull, CellOf
    <3> QED BY <1>1, <1>3, <2>1, <3>1, ValueKept
  <2>2. CASE t # pos[p]
    BY <1>1, <1>2, <1>3, <1>4, <2>2, TicketsAre, ValueKept
  <2> QED BY <2>1, <2>2
<1>7. Puts' = Puts
  <2> SUFFICES ASSUME NEW q \in Producers
               PROVE  sent'[q] + (IF Writing(q)' THEN 1 ELSE 0)
                        = sent[q] + (IF Writing(q) THEN 1 ELSE 0)
    BY DEF Puts
  <2> QED BY <1>1, <1>2
<1>8. Gots' = Gots
  BY <1>1, <1>2 DEF Gots, Pending, CellOf
<1> QED BY <1>6, <1>7, <1>8, Stutters

LEMMA TakeStutters ==
  ASSUME Capacity >= 2, RInv, RInv', NEW c \in Consumers, Take(c)
  PROVE  UNCHANGED Fifo!vars
<1> DEFINE i == CellOf(pos[c])
<1>1. /\ Taking(c) /\ pc[c] = "take" /\ pc' = [pc EXCEPT ![c] = "release"]
      /\ out' = [out EXCEPT ![c] = storage[i]]
      /\ storage' = [storage EXCEPT ![i] = Nothing]
      /\ UNCHANGED <<enqPos, deqPos, seq, pos, sent, seen>>
  BY DEF Take, Goto, Taking
<1>2. /\ \A p \in Producers : Writing(p)' <=> Writing(p)
      /\ \A d \in Consumers \ {c} : pc'[d] = pc[d] /\ out'[d] = out[d]
      /\ pc'[c] = "release" /\ out'[c] = storage[i]
  BY <1>1, Types DEF RInv, TypeOK, Writing
<1>3. /\ pos[c] \in Nat /\ IsFull(pos[c]) /\ pos[c] < deqPos
      /\ \A t \in Nat : IsFull(t) /\ t # pos[c] => CellOf(t) # i
      /\ \A d \in Consumers \ {c} : Taking(d) => CellOf(pos[d]) # i
  BY <1>1, Claimed, OneTurn
<1>4. /\ \A t \in Nat : CellOf(t) # i => storage'[CellOf(t)] = storage[CellOf(t)]
      /\ \A t \in Nat : IsFull(t)' <=> IsFull(t)
  BY <1>1, Types, Cells DEF RInv, IsFull, CellOf
<1>5. Queue' = Queue
  <2> SUFFICES ASSUME NEW t \in Tickets PROVE ValueOf(t)' = ValueOf(t)
    BY <1>1, QueueKept
  <2>1. t \in Nat /\ t # pos[c]
    BY <1>3, Types DEF RInv, Tickets
  <2>2. IsFull(t) => IsFull(t)' /\ storage'[CellOf(t)] = storage[CellOf(t)]
    BY <1>3, <1>4, <2>1
  <2> QED BY <1>1, <1>2, <2>1, <2>2, TicketsAre, ValueKept
<1>6. Puts' = Puts
  BY <1>1, <1>2 DEF Puts
<1>7. Gots' = Gots
  <2> SUFFICES ASSUME NEW d \in Consumers PROVE Pending(d)' = Pending(d)
    BY <1>1 DEF Gots
  <2>1. CASE d = c
    BY <1>1, <1>2, <2>1 DEF Pending
  <2>2. CASE d # c
    <3>1. pc[d] = "take" => storage'[CellOf(pos[d])] = storage[CellOf(pos[d])]
      BY <1>3, <1>4, <2>2, Claimed
    <3> QED BY <1>1, <1>2, <2>2, <3>1 DEF Pending, CellOf
  <2> QED BY <2>1, <2>2
<1> QED BY <1>5, <1>6, <1>7, Stutters

LEMMA ReleaseStutters ==
  ASSUME Capacity >= 2, RInv, RInv', NEW c \in Consumers, Release(c)
  PROVE  UNCHANGED Fifo!vars
<1> DEFINE i == CellOf(pos[c])
<1>1. /\ Taking(c) /\ pc[c] = "release" /\ pc' = [pc EXCEPT ![c] = "load"]
      /\ seq' = [seq EXCEPT ![i] = NextLap(pos[c])]
      /\ seen' = [seen EXCEPT ![c] = Append(seen[c], out[c])]
      /\ UNCHANGED <<enqPos, deqPos, storage, pos, out, sent>>
  BY DEF Release, Goto, Taking
<1>2. /\ \A p \in Producers : Writing(p)' <=> Writing(p)
      /\ \A d \in Consumers \ {c} : pc'[d] = pc[d] /\ seen'[d] = seen[d]
      /\ pc'[c] = "load" /\ seen'[c] = Append(seen[c], out[c])
  BY <1>1, Types DEF RInv, TypeOK, Writing
<1>3. /\ pos[c] \in Nat /\ IsFull(pos[c]) /\ pos[c] < deqPos
      /\ \A t \in Nat : IsFull(t) /\ t # pos[c] => CellOf(t) # i
  BY <1>1, Claimed, OneTurn
<1>4. \A t \in Nat : CellOf(t) # i => (IsFull(t)' <=> IsFull(t))
  BY <1>1, Types, Cells DEF RInv, IsFull, CellOf
<1>5. Queue' = Queue
  <2> SUFFICES ASSUME NEW t \in Tickets PROVE ValueOf(t)' = ValueOf(t)
    BY <1>1, QueueKept
  <2>1. t \in Nat /\ t # pos[c]
    BY <1>3, Types DEF RInv, Tickets
  <2>2. IsFull(t) => IsFull(t)'
    BY <1>3, <1>4, <2>1
  <2> QED BY <1>1, <1>2, <2>1, <2>2, TicketsAre, ValueKept
<1>6. Puts' = Puts
  BY <1>1, <1>2 DEF Puts
<1>7. Gots' = Gots
  <2> SUFFICES ASSUME NEW d \in Consumers
               PROVE  seen'[d] \o Pending(d)' = seen[d] \o Pending(d)
    BY DEF Gots
  <2>1. CASE d = c
    <3>1. Pending(d) = <<out[c]>> /\ Pending(d)' = <<>>
      BY <1>1, <1>2, <2>1 DEF Pending
    <3>2. seen[c] \in Seq(Message \cup {Nothing}) /\ out[c] \in Message \cup {Nothing}
      BY DEF RInv, TypeOK
    <3>3. Append(seen[c], out[c]) \o <<>> = seen[c] \o <<out[c]>>
      BY <3>2
    <3> QED BY <1>2, <2>1, <3>1, <3>3
  <2>2. CASE d # c
    BY <1>1, <1>2, <2>2 DEF Pending, CellOf
  <2> QED BY <2>1, <2>2
<1> QED BY <1>5, <1>6, <1>7, Stutters

\* The compare-exchange on enqueue_pos_ puts the producer's message.
LEMMA ClaimPuts ==
  ASSUME Capacity >= 2, RInv, RInv', NEW p \in Producers, ClaimToPush(p)
  PROVE  Fifo!Put(p)
<1> DEFINE n == enqPos - deqPos
           x == <<p, sent[p] + 1>>
<1>1. /\ pc[p] = "claim" /\ pc' = [pc EXCEPT ![p] = "write"]
      /\ pos[p] = enqPos /\ enqPos' = enqPos + 1
      /\ UNCHANGED <<deqPos, seq, storage, pos, out, sent, seen>>
  BY DEF ClaimToPush, Goto
<1>2. /\ \A q \in Producers \ {p} : Writing(q)' <=> Writing(q)
      /\ Writing(p)' /\ ~Writing(p)
      /\ \A c \in Consumers : pc'[c] = pc[c]
  BY <1>1, Types DEF RInv, Writing
<1>3. /\ enqPos \in Nat /\ deqPos \in Nat /\ n \in Nat /\ n < Capacity
      /\ sent[p] \in Nat /\ sent[p] < Messages
  <2>1. deqPos <= enqPos /\ enqPos + 1 <= deqPos + Capacity
    BY <1>1 DEF RInv, IInv, WithinCapacity
  <2>2. sent[p] \in 0..Messages /\ sent[p] < Messages
    BY <1>1 DEF RInv, TypeOK
  <2> QED BY <2>1, <2>2, Types, Parameters DEF RInv
<1>4. ASSUME NEW t \in Tickets PROVE ValueOf(t)' = ValueOf(t)
  <2>1. \A u \in Nat : (IsFull(u)' <=> IsFull(u)) /\ storage'[CellOf(u)] = storage[CellOf(u)]
    BY <1>1 DEF IsFull, CellOf
  <2> QED BY <1>1, <1>2, <2>1, TicketsAre, ValueKept
<1>5. ASSUME NEW t \in Nat, t = enqPos PROVE ValueOf(t)' = x
  <2>1. pos'[p] = t /\ MessageOf(p)' = x
    BY <1>1, <1>5 DEF MessageOf
  <2> QED BY <1>2, <2>1, ValueOfWriterNext DEF WritersValues
<1>6. Len(Queue) = n /\ Queue' = Append(Queue, x)
  <2> DEFINE S == {ValueOf(t) : t \in Tickets} \cup {x}
  <2>1. \A k \in 1..n : deqPos + k - 1 \in Tickets
    BY <1>3 DEF Tickets
  <2>2. deqPos + (n + 1) - 1 = enqPos /\ enqPos' - deqPos' = n + 1
    BY <1>1, <1>3
  <2>3. Queue = [k \in 1..n |-> ValueOf(deqPos + k - 1)]
    BY DEF Queue
  <2>4. Queue' = [k \in 1..(n + 1) |-> ValueOf(deqPos + k - 1)']
    BY <1>1, <2>2 DEF Queue
  <2>5. \A k \in 1..n : ValueOf(deqPos + k - 1)' = ValueOf(deqPos + k - 1)
    BY <1>1, <1>4, <2>1
  <2>6. \A k \in 1..(n + 1) : k = n + 1 => ValueOf(deqPos + k - 1)' = x
    BY <1>1, <1>3, <1>5, <2>2
  <2>7. \A k \in 1..(n + 1) : k = n + 1 \/ k \in 1..n
    BY <1>3
  <2>8. \A k \in 1..n : k \in 1..(n + 1)
    BY <1>3
  <2>9. n + 1 \in 1..(n + 1)
    BY <1>3
  <2>10. Queue \in [1..n -> S]
    BY <2>1, <2>3
  <2> HIDE DEF S, n, x
  <2>11. Queue' \in [1..(n + 1) -> S]
    <3>1. x \in S
      BY DEF S
    <3>2. \A k \in 1..n : ValueOf(deqPos + k - 1) \in S
      BY <2>1 DEF S
    <3> QED BY <2>4, <2>5, <2>6, <2>7, <3>1, <3>2
  <2>12. \A k \in 1..n : Queue'[k] = Queue[k]
    BY <2>3, <2>4, <2>5, <2>8
  <2>13. Queue'[n + 1] = x
    BY <2>4, <2>6, <2>9
  <2>14. n \in Nat
    BY <1>3 DEF n
  <2> QED BY <2>10, <2>11, <2>12, <2>13, <2>14, AppendIs
<1>7. Puts[p] = sent[p] /\ Puts' = [Puts EXCEPT ![p] = sent[p] + 1]
  <2>1. Puts[p] = sent[p]
    BY <1>2, <1>3 DEF Puts
  <2>2. \A q \in Producers : sent'[q] + (IF Writing(q)' THEN 1 ELSE 0)
                               = IF q = p THEN sent[p] + 1 ELSE Puts[q]
    BY <1>1, <1>2 DEF Puts
  <2> QED BY <2>1, <2>2 DEF Puts
<1>8. Gots' = Gots
  BY <1>1, <1>2 DEF Gots, Pending, CellOf
<1> QED BY <1>3, <1>6, <1>7, <1>8, PutsOne

\* The compare-exchange on dequeue_pos_ takes the oldest message.
LEMMA ClaimTakes ==
  ASSUME Capacity >= 2, RInv, RInv', NEW c \in Consumers, ClaimToPop(c)
  PROVE  Fifo!Take(c)
<1> DEFINE n == enqPos - deqPos
           x == storage[CellOf(deqPos)]
<1>1. /\ pc[c] = "claim" /\ pc' = [pc EXCEPT ![c] = "take"]
      /\ pos[c] = deqPos /\ deqPos' = deqPos + 1
      /\ UNCHANGED <<enqPos, seq, storage, pos, out, sent, seen>>
  BY DEF ClaimToPop, Goto
<1>2. /\ \A p \in Producers : Writing(p)' <=> Writing(p)
      /\ \A d \in Consumers \ {c} : pc'[d] = pc[d]
      /\ pc'[c] = "take"
  BY <1>1, Types DEF RInv, Writing
<1>3. /\ enqPos \in Nat /\ deqPos \in Nat /\ n \in Nat /\ n > 0
  <2>1. deqPos + 1 <= enqPos
    BY <1>1 DEF RInv, IInv, WithinCapacity
  <2> QED BY <2>1, Types DEF RInv
<1>4. ASSUME NEW t \in Tickets PROVE ValueOf(t)' = ValueOf(t)
  <2>1. \A u \in Nat : (IsFull(u)' <=> IsFull(u)) /\ storage'[CellOf(u)] = storage[CellOf(u)]
    BY <1>1 DEF IsFull, CellOf
  <2> QED BY <1>1, <1>2, <2>1, TicketsAre, ValueKept
<1>5. ValueOf(deqPos) = x
  <2>1. IsFull(deqPos)
    BY <1>1 DEF RInv, IInv, Claims
  <2> QED BY <2>1 DEF ValueOf
<1>6. Queue # <<>> /\ Head(Queue) = x /\ Queue' = Tail(Queue)
  <2> DEFINE S == {ValueOf(t) : t \in Tickets}
  <2>0. PICK d \in Nat : d = deqPos
    BY <1>3
  <2>1. \A k \in 1..n : d + k - 1 \in Tickets
    BY <1>3, <2>0 DEF Tickets
  <2>2. /\ enqPos' - deqPos' = n - 1 /\ d + 1 - 1 = d /\ 1 \in 1..n
        /\ \A k \in 1..(n - 1) : k + 1 \in 1..n /\ (d + 1) + k - 1 = d + (k + 1) - 1
    BY <1>1, <1>3, <2>0
  <2>3. Queue = [k \in 1..n |-> ValueOf(d + k - 1)]
    BY <2>0 DEF Queue
  <2>4. Queue' = [k \in 1..(n - 1) |-> ValueOf((d + 1) + k - 1)']
    BY <1>1, <2>0, <2>2 DEF Queue
  <2>5. \A k \in 1..n : ValueOf(d + k - 1)' = ValueOf(d + k - 1)
    BY <1>4, <2>1
  <2>6. \A k \in 1..(n - 1) : ValueOf((d + 1) + k - 1)' = ValueOf(d + (k + 1) - 1)
    BY <2>2, <2>5
  <2>7. Queue \in [1..n -> S]
    BY <2>1, <2>3
  <2> HIDE DEF S, n, x
  <2>8. Queue' \in [1..(n - 1) -> S]
    <3>1. \A k \in 1..n : ValueOf(d + k - 1) \in S
      BY <2>1 DEF S
    <3> QED BY <2>2, <2>4, <2>6, <3>1
  <2>9. \A k \in 1..(n - 1) : Queue'[k] = Queue[k + 1]
    BY <2>2, <2>3, <2>4, <2>6
  <2>10. Queue[1] = x
    BY <1>5, <2>0, <2>2, <2>3
  <2>11. n \in Nat /\ n > 0
    BY <1>3 DEF n
  <2> QED BY <2>7, <2>8, <2>9, <2>10, <2>11, TailIs
<1>7. Puts' = Puts
  BY <1>1, <1>2 DEF Puts
<1>8. Gots' = [Gots EXCEPT ![c] = Append(Gots[c], x)]
  <2>1. Pending(c) = <<>> /\ Pending(c)' = <<x>>
    BY <1>1, <1>2 DEF Pending, CellOf
  <2>2. seen[c] \in Seq(Message \cup {Nothing}) /\ x \in Message \cup {Nothing}
    BY <1>3, Types, Cells DEF RInv, TypeOK
  <2> HIDE DEF x
  <2>3. seen[c] \o <<x>> = Append(seen[c] \o <<>>, x)
    BY <2>2
  <2>4. \A d \in Consumers : seen'[d] \o Pending(d)'
                               = IF d = c THEN Append(Gots[c], x) ELSE Gots[d]
    <3> SUFFICES ASSUME NEW d \in Consumers
                 PROVE  seen'[d] \o Pending(d)'
                          = IF d = c THEN Append(Gots[c], x) ELSE Gots[d]
      OBVIOUS
    <3>1. CASE d = c
      BY <1>1, <2>1, <2>3, <3>1 DEF Gots
    <3>2. CASE d # c
      BY <1>1, <1>2, <3>2 DEF Gots, Pending, CellOf
    <3> QED BY <3>1, <3>2
  <2> QED BY <2>4 DEF Gots
<1> QED BY <1>6, <1>7, <1>8, TakesOne

LEMMA StepRefines ==
  ASSUME Capacity >= 2, RInv, RInv', [Next]_vars
  PROVE  [Fifo!Next]_(Fifo!vars)
<1>1. ASSUME NEW p \in Producers, Push(p) PROVE [Fifo!Next]_(Fifo!vars)
  <2>1. CASE ClaimToPush(p)
    BY <2>1, ClaimPuts DEF Fifo!Next
  <2> QED BY <1>1, <2>1, LookToPushStutters, WriteStutters, PublishStutters DEF Push
<1>2. ASSUME NEW c \in Consumers, Pop(c) PROVE [Fifo!Next]_(Fifo!vars)
  <2>1. CASE ClaimToPop(c)
    BY <2>1, ClaimTakes DEF Fifo!Next
  <2> QED BY <1>2, <2>1, LookToPopStutters, TakeStutters, ReleaseStutters DEF Pop
<1>3. CASE UNCHANGED vars
  <2>1. Queue' = Queue
    <3> SUFFICES ASSUME NEW t \in Tickets PROVE ValueOf(t)' = ValueOf(t)
      BY <1>3, QueueKept DEF vars
    <3> QED BY <1>3, TicketsAre, ValueKept DEF vars, IsFull, Writing, CellOf
  <2>2. Puts' = Puts /\ Gots' = Gots
    BY <1>3 DEF vars, Puts, Gots, Writing, Pending, CellOf
  <2> QED BY <2>1, <2>2, Stutters
<1> QED BY <1>1, <1>2, <1>3 DEF Next, Joined

LEMMA InitRefines == Init => Fifo!Init
<1> SUFFICES ASSUME Init PROVE Fifo!Init
  OBVIOUS
<1>1. Queue = <<>>
  <2>1. 1..(0 - 0) = {}
    OBVIOUS
  <2> QED BY <2>1 DEF Queue, Init
<1>2. Puts = [p \in Producers |-> 0]
  BY DEF Puts, Init, Writing, Threads
<1>3. Gots = [c \in Consumers |-> <<>>]
  <2>1. \A c \in Consumers : seen[c] = <<>> /\ Pending(c) = <<>>
    BY DEF Init, Pending, Threads
  <2>2. <<>> \o <<>> = <<>>
    OBVIOUS
  <2> QED BY <2>1, <2>2 DEF Gots
<1> QED BY <1>1, <1>2, <1>3 DEF Fifo!Init, Queue, Puts, Gots

(***************************************************************************)
(* Every queue of two cells or more implements the bounded FIFO: whatever  *)
(* the threads do between, a push takes effect at its compare-exchange on  *)
(* enqueue_pos_ and a pop at its own on dequeue_pos_.                      *)
(***************************************************************************)
THEOREM Implementation == ASSUME Capacity >= 2 PROVE Spec => ImplementsFifo
BY InitRefines, StepRefines, RefinementInvariant, PTL
   DEF Spec, ImplementsFifo, Fifo!Spec
=============================================================================
