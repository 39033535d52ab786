--------------------------- MODULE SpscRingProofs ---------------------------
(***************************************************************************)
(* Proofs about the rings of MCSpscRings, whether their positions are      *)
(* indices or cursors and whether the sides keep copies of them, for any   *)
(* capacity and any number of messages.                                    *)
(***************************************************************************)
EXTENDS MCSpscRings, RingArithmetic

Kinds == {"index", "cached index", "cursor"}

\* A remainder of a number that may be negative.
LEMMA SizeInRange ==
  ASSUME NEW c \in Nat \ {0}, NEW d \in Int
  PROVE  d % c \in 0..(c - 1)
OBVIOUS

LEMMA CapacityPositive == Capacity \in Nat \ {0}
BY CapacityAssumption

LEMMA SlotsInRing ==
  ASSUME NEW n \in Nat
  PROVE  SlotOf(n) \in Slot
BY CapacityPositive, CellInRing DEF SlotOf, Slot

\* Positions less than a lap apart have different slots.
LEMMA SlotsDiffer ==
  ASSUME NEW m \in Nat, NEW n \in Nat, m < n, n < m + Capacity
  PROVE  SlotOf(m) # SlotOf(n)
<1>1. SUFFICES ASSUME m % Capacity = n % Capacity PROVE FALSE
  BY DEF SlotOf
<1>2. n >= m + Capacity
  BY <1>1, CapacityPositive, SameCellLapApart
<1> QED BY <1>2, CapacityPositive

-----------------------------------------------------------------------------
(* Counts and positions.  What a ring does is said in terms of how many    *)
(* messages have been pushed and popped; a position stands for a count.    *)

\* The position of ring k for the count n, and how many messages fit in.
Pos(k, n) == IF k = "cursor" THEN n ELSE SlotOf(n)
Room(k) == IF k = "cursor" THEN Capacity ELSE Capacity - 1

\* The tests and the steps of the ring at hand.
Full(p) == IF kind = "cursor" THEN Cursor!FullAt(p) ELSE Index!FullAt(p)
Empty(p) == IF kind = "cursor" THEN Cursor!EmptyAt(p) ELSE Index!EmptyAt(p)
Succ(p) == IF kind = "cursor" THEN p + 1 ELSE Index!NextIndex(p)

LEMMA SlotOfPos ==
  ASSUME NEW k, NEW n \in Nat
  PROVE  Pos(k, n) \in Nat /\ SlotOf(Pos(k, n)) = SlotOf(n)
<1>1. SlotOf(n) \in 0..(Capacity - 1)
  BY SlotsInRing DEF Slot
<1>2. SlotOf(n) % Capacity = SlotOf(n)
  BY <1>1, CapacityPositive, FirstLap
<1> QED BY <1>1, <1>2, CapacityPositive DEF Pos, SlotOf

LEMMA NextIndexIs ==
  ASSUME NEW n \in Nat
  PROVE  Index!NextIndex(SlotOf(n)) = SlotOf(n + 1)
<1> DEFINE i == n % Capacity
<1>1. i \in 0..(Capacity - 1)
  BY CapacityPositive, CellInRing
<1>2. (i + 1) % Capacity = (n + 1) % Capacity
  BY CapacityPositive, WrapThenAdd
<1> HIDE DEF i
<1>3. CASE i + 1 = Capacity
  <2>1. (0 + Capacity) % Capacity = 0 % Capacity
    BY CapacityPositive, NextLapSameCell
  <2>2. 0 % Capacity = 0 /\ 0 + Capacity = Capacity
    BY CapacityPositive, FirstLap
  <2> QED BY <1>2, <1>3, <2>1, <2>2 DEF Index!NextIndex, SlotOf, i
<1>4. CASE i + 1 # Capacity
  <2>1. (i + 1) % Capacity = i + 1
    <3>1. i + 1 \in 0..(Capacity - 1)
      BY <1>1, <1>4, CapacityPositive
    <3> QED BY <3>1, CapacityPositive, FirstLap
  <2> QED BY <1>2, <1>4, <2>1 DEF Index!NextIndex, SlotOf, i
<1> QED BY <1>3, <1>4

LEMMA SuccIs ==
  ASSUME kind \in Kinds, NEW n \in Nat
  PROVE  Succ(Pos(kind, n)) = Pos(kind, n + 1)
BY NextIndexIs DEF Succ, Pos

\* A position that is a lap's room behind tells "full", whatever the ring.
LEMMA NotFull ==
  ASSUME kind \in Kinds, NEW n \in Nat, NEW r \in Nat,
         writePos = Pos(kind, n), n <= r + Room(kind), ~Full(Pos(kind, r))
  PROVE  n < r + Room(kind)
<1>1. CASE kind = "cursor"
  BY <1>1, CapacityPositive DEF Full, Pos, Room, Cursor!FullAt
<1>2. CASE kind # "cursor"
  <2>1. SlotOf(n + 1) # SlotOf(r)
    BY <1>2, NextIndexIs DEF Full, Pos, Index!FullAt
  <2>2. SUFFICES ASSUME n = r + (Capacity - 1) PROVE FALSE
    BY <1>2, CapacityPositive DEF Room
  <2>3. n + 1 = r + Capacity
    BY <2>2, CapacityPositive
  <2>4. (r + Capacity) % Capacity = r % Capacity
    BY CapacityPositive, NextLapSameCell
  <2> QED BY <2>1, <2>3, <2>4 DEF SlotOf
<1> QED BY <1>1, <1>2

LEMMA NotEmpty ==
  ASSUME kind \in Kinds, NEW n \in Nat, NEW w \in Nat,
         readPos = Pos(kind, n), n <= w, ~Empty(Pos(kind, w))
  PROVE  n < w
BY DEF Empty, Pos, Cursor!EmptyAt, Index!EmptyAt

-----------------------------------------------------------------------------
(* The steps of all rings in one shape                                     *)

LEMMA PushSteps ==
  ASSUME Push
  PROVE  /\ kind' = kind
         /\ \/ StartPush(TRUE)
            \/ StartPush(Full(cachedRead))
            \/ RefreshRead(Full(readPos))
            \/ Write
            \/ Publish(Succ(writePos))
<1> USE DEF Push, StartPush, RefreshRead, Write, Publish, HasMore, Goto, SlotOf,
            MessageNo, rings, clients, observed
<1>1. CASE kind = "index" /\ Index!UncachedPush
  BY <1>1
  DEF Full, Succ, Index!UncachedPush, Index!StartPush, Index!RefreshRead,
      Index!Write, Index!Publish, Index!HasMore, Index!Goto, Index!SlotOf,
      Index!MessageNo, Index!rings, Index!clients, Index!observed
<1>2. CASE kind = "cached index" /\ Index!CachedPush
  BY <1>2
  DEF Full, Succ, Index!CachedPush, Index!StartPush, Index!RefreshRead,
      Index!Write, Index!Publish, Index!HasMore, Index!Goto, Index!SlotOf,
      Index!MessageNo, Index!rings, Index!clients, Index!observed
<1>3. CASE kind = "cursor" /\ Cursor!Push
  BY <1>3
  DEF Full, Succ, Cursor!Push, Cursor!StartPush, Cursor!RefreshRead,
      Cursor!Write, Cursor!Publish, Cursor!HasMore, Cursor!Goto, Cursor!SlotOf,
      Cursor!MessageNo, Cursor!rings, Cursor!clients, Cursor!observed
<1> QED BY <1>1, <1>2, <1>3

LEMMA PopSteps ==
  ASSUME Pop
  PROVE  /\ kind' = kind
         /\ \/ StartPop(TRUE)
            \/ StartPop(Empty(cachedWrite))
            \/ RefreshWrite(Empty(writePos))
            \/ Read
            \/ Release(Succ(readPos))
<1> USE DEF Pop, StartPop, RefreshWrite, Read, Release, Goto, SlotOf,
            rings, clients, observed
<1>1. CASE kind = "index" /\ Index!UncachedPop
  BY <1>1
  DEF Empty, Succ, Index!UncachedPop, Index!StartPop, Index!RefreshWrite,
      Index!Read, Index!Release, Index!Goto, Index!SlotOf,
      Index!rings, Index!clients, Index!observed
<1>2. CASE kind = "cached index" /\ Index!CachedPop
  BY <1>2
  DEF Empty, Succ, Index!CachedPop, Index!StartPop, Index!RefreshWrite,
      Index!Read, Index!Release, Index!Goto, Index!SlotOf,
      Index!rings, Index!clients, Index!observed
<1>3. CASE kind = "cursor" /\ Cursor!Pop
  BY <1>3
  DEF Empty, Succ, Cursor!Pop, Cursor!StartPop, Cursor!RefreshWrite,
      Cursor!Read, Cursor!Release, Cursor!Goto, Cursor!SlotOf,
      Cursor!rings, Cursor!clients, Cursor!observed
<1> QED BY <1>1, <1>2, <1>3

-----------------------------------------------------------------------------
(* Types                                                                   *)

\* The threads are three.
LEMMA ThreadsDiffer ==
  /\ Producer \in Threads /\ Consumer \in Threads /\ Observer \in Threads
  /\ Producer # Consumer /\ Observer # Producer /\ Observer # Consumer
BY ThreadsAssumption DEF Threads

LEMMA TypeInit == Init => TypeOK
BY MessagesAssumption, SizeRangeAssumption, CapacityPositive
   DEF Init, TypeOK, Threads, Slot

LEMMA SuccType ==
  ASSUME NEW p \in Nat PROVE Succ(p) \in Nat
BY CapacityPositive DEF Succ, Index!NextIndex

LEMMA TypeNext == TypeOK /\ [TestNext]_testVars => TypeOK'
<1> SUFFICES ASSUME TypeOK, [TestNext]_testVars PROVE TypeOK'
  OBVIOUS
<1> USE ThreadsDiffer, MessagesAssumption
<1>1. ASSUME NEW full, StartPush(full) PROVE TypeOK'
  BY <1>1 DEF TypeOK, StartPush, HasMore, Goto, rings, clients, observed
<1>2. ASSUME NEW full, RefreshRead(full) PROVE TypeOK'
  BY <1>2 DEF TypeOK, RefreshRead, Goto, clients, observed
<1>3. CASE Write
  <2>1. MessageNo(sent + 1) \in Message
    BY <1>3 DEF TypeOK, Write, MessageNo, Message
  <2>2. buffer' \in [Slot -> Message \cup {Nothing}]
    BY <1>3, <2>1 DEF TypeOK, Write
  <2> QED BY <1>3, <2>2 DEF TypeOK, Write, Goto, clients, observed
<1>4. ASSUME NEW next \in Nat, Publish(next) PROVE TypeOK'
  BY <1>4 DEF TypeOK, Publish, Goto, observed
<1>5. ASSUME NEW empty, StartPop(empty) PROVE TypeOK'
  BY <1>5 DEF TypeOK, StartPop, Goto, rings, clients, observed
<1>6. ASSUME NEW empty, RefreshWrite(empty) PROVE TypeOK'
  BY <1>6 DEF TypeOK, RefreshWrite, Goto, clients, observed
<1>7. CASE Read
  <2>1. SlotOf(readPos) \in Slot
    BY SlotsInRing DEF TypeOK
  <2>2. item' \in Message \cup {Nothing}
    BY <1>7, <2>1 DEF TypeOK, Read
  <2> QED BY <1>7, <2>2 DEF TypeOK, Read, Goto, rings, observed
<1>8. ASSUME NEW next \in Nat, Release(next) PROVE TypeOK'
  <2>1. seen' \in Seq(Message \cup {Nothing})
    BY <1>8 DEF TypeOK, Release
  <2> QED BY <1>8, <2>1 DEF TypeOK, Release, Goto, observed
<1>9. CASE LoadWritePos
  BY <1>9 DEF TypeOK, LoadWritePos, Goto, rings, clients
<1>10. CASE SubtractReadPos
  <2>1. (snapshot - readPos) % SizeRange \in 0..(SizeRange - 1)
    BY SizeRangeAssumption, CapacityPositive, SizeInRange DEF TypeOK
  <2> QED BY <1>10, <2>1 DEF TypeOK, SubtractReadPos, Goto, rings, clients
<1>11. CASE UNCHANGED vars
  BY <1>11 DEF TypeOK, vars, rings, clients, observed
<1>12. CASE Push
  <2>1. Succ(writePos) \in Nat
    BY SuccType DEF TypeOK
  <2> QED BY <1>1, <1>2, <1>3, <1>4, <1>12, <2>1, PushSteps
<1>13. CASE Pop
  <2>1. Succ(readPos) \in Nat
    BY SuccType DEF TypeOK
  <2> QED BY <1>5, <1>6, <1>7, <1>8, <1>13, <2>1, PopSteps
<1> QED BY <1>9, <1>10, <1>11, <1>12, <1>13 DEF TestNext, Observe, Joined, testVars

(***************************************************************************)
(* The type invariant of all the rings.                                    *)
(***************************************************************************)
THEOREM TypeCorrect == TestSpec => []TypeOK
BY TypeInit, TypeNext, PTL DEF TestSpec, TestInit

-----------------------------------------------------------------------------
(* The inductive invariant                                                 *)

\* A position is that of the number of pushes, or pops, made.
Positions == /\ writePos = Pos(kind, sent)
             /\ readPos = Pos(kind, Len(seen))
             /\ Len(seen) <= sent

(***************************************************************************)
(* A copy is the position of an earlier count.  So what a side concludes   *)
(* from it errs on the safe side, and stays true until it moves its own.   *)
(***************************************************************************)
RoomLeft == \E r \in 0..Len(seen) : /\ cachedRead = Pos(kind, r)
                                    /\ sent <= r + Room(kind)
                                    /\ Writing => sent < r + Room(kind)
Waiting == \E w \in Len(seen)..sent : /\ cachedWrite = Pos(kind, w)
                                      /\ Reading => Len(seen) < w

\* The slots between the two positions hold the messages in order.
Contents ==
  /\ \A n \in Len(seen)..(sent - 1) : buffer[SlotOf(n)] = MessageNo(n + 1)
  /\ pc[Producer] = "publish" => buffer[SlotOf(sent)] = MessageNo(sent + 1)
  /\ pc[Consumer] = "release" => item = MessageNo(Len(seen) + 1)
  /\ \A k \in 1..Len(seen) : seen[k] = MessageNo(k)

IInv == kind \in Kinds /\ Positions /\ RoomLeft /\ Waiting /\ Contents

\* What the following proofs need of the types.
LEMMA Types ==
  ASSUME TypeOK
  PROVE  /\ writePos \in Nat /\ readPos \in Nat
         /\ buffer \in [Slot -> Message \cup {Nothing}]
         /\ pc \in [Threads -> {"idle", "refresh", "write", "publish", "read",
                                "release", "subtract", "done"}]
         /\ sent \in Nat
         /\ seen \in Seq(Message \cup {Nothing})
         /\ Len(seen) \in Nat
BY MessagesAssumption DEF TypeOK

\* There is room for what is written, and a message where one is read.
LEMMA Claims ==
  ASSUME TypeOK, IInv
  PROVE  /\ sent <= Len(seen) + Capacity
         /\ Writing => sent < Len(seen) + Capacity
         /\ Reading => Len(seen) < sent
<1>1. Room(kind) \in Nat /\ Room(kind) <= Capacity /\ Capacity \in Nat
  BY CapacityPositive DEF Room
<1>2. PICK r \in 0..Len(seen) : /\ sent <= r + Room(kind)
                                /\ Writing => sent < r + Room(kind)
  BY DEF IInv, RoomLeft, Waiting
<1>3. PICK w \in Len(seen)..sent : Reading => Len(seen) < w
  BY DEF IInv, RoomLeft, Waiting
<1> QED BY <1>1, <1>2, <1>3, Types

LEMMA InvariantInit == TestInit => IInv
<1> SUFFICES ASSUME Init, kind \in Kinds PROVE IInv
  BY DEF TestInit, Kinds
<1> USE ThreadsDiffer, CapacityPositive DEF Init
<1>1. SlotOf(0) = 0 /\ Pos(kind, 0) = 0 /\ Len(seen) = 0
  <2>1. 0 \in 0..(Capacity - 1)
    OBVIOUS
  <2>2. 0 % Capacity = 0
    BY <2>1, FirstLap
  <2> QED BY <2>2 DEF SlotOf, Pos
<1>2. Positions
  BY <1>1 DEF Positions
<1>3. RoomLeft /\ Waiting
  <2>1. 0 \in 0..0 /\ 0 < 0 + Room(kind) /\ 0 <= 0 + Room(kind)
    BY CapacityAssumption DEF Room
  <2>2. ~Writing /\ ~Reading
    BY DEF Writing, Reading
  <2> QED BY <1>1, <2>1, <2>2 DEF RoomLeft, Waiting
<1>4. Contents
  BY DEF Contents
<1> QED BY <1>2, <1>3, <1>4 DEF IInv

\* An action that leaves the counts, the slots and the messages alone
\* preserves what is said of them.
LEMMA ContentsKept ==
  ASSUME Contents,
         UNCHANGED <<buffer, item, sent, seen>>,
         pc'[Producer] = "publish" => pc[Producer] = "publish",
         pc'[Consumer] = "release" => pc[Consumer] = "release"
  PROVE  Contents'
BY DEF Contents, SlotOf, MessageNo

LEMMA PositionsKept ==
  ASSUME Positions, UNCHANGED <<kind, writePos, readPos, sent, seen>>
  PROVE  Positions'
BY DEF Positions, Pos, SlotOf

LEMMA RoomLeftKept ==
  ASSUME RoomLeft, UNCHANGED <<kind, cachedRead, sent, seen>>, Writing' => Writing
  PROVE  RoomLeft'
BY DEF RoomLeft, Pos, Room, SlotOf

LEMMA WaitingKept ==
  ASSUME Waiting, UNCHANGED <<kind, cachedWrite, sent, seen>>, Reading' => Reading
  PROVE  Waiting'
BY DEF Waiting, Pos, SlotOf

LEMMA PushPreserves ==
  ASSUME TypeOK, IInv, Push
  PROVE  IInv'
<1> USE ThreadsDiffer, CapacityPositive
<1>t. /\ writePos \in Nat /\ readPos \in Nat /\ sent \in Nat /\ Len(seen) \in Nat
      /\ pc \in [Threads -> {"idle", "refresh", "write", "publish", "read",
                             "release", "subtract", "done"}]
  BY Types
<1>k. kind' = kind /\ kind \in Kinds /\ Room(kind) \in Nat
  BY PushSteps DEF IInv, Room
<1>r. PICK r \in 0..Len(seen) : /\ cachedRead = Pos(kind, r)
                                /\ sent <= r + Room(kind)
                                /\ Writing => sent < r + Room(kind)
  BY DEF IInv, RoomLeft, Waiting
<1>w. RoomLeft /\ Waiting
  BY DEF IInv
<1>p. Positions /\ Contents
  BY DEF IInv
<1>1. ASSUME NEW full, StartPush(full), full \in {TRUE, Full(cachedRead)}
      PROVE  IInv'
  <2>1. /\ UNCHANGED <<rings, clients>>
        /\ pc' = [pc EXCEPT ![Producer] = IF full THEN "refresh" ELSE "write"]
    BY <1>1 DEF StartPush, Goto
  <2>2. /\ pc'[Producer] = IF full THEN "refresh" ELSE "write"
        /\ pc'[Consumer] = pc[Consumer]
    BY <2>1, <1>t
  <2>3. Positions' /\ Contents'
    BY <1>k, <1>p, <2>1, <2>2, PositionsKept, ContentsKept DEF rings, clients
  <2>4. Waiting'
    BY <1>k, <1>w, <2>1, <2>2, WaitingKept DEF Reading, rings, clients
  <2>5. RoomLeft'
    <3>1. Writing' => sent < r + Room(kind)
      <4>1. SUFFICES ASSUME Writing' PROVE sent < r + Room(kind)
        OBVIOUS
      <4>2. ~full
        BY <2>2, <4>1 DEF Writing
      <4>3. ~Full(Pos(kind, r))
        BY <1>1, <1>r, <4>2
      <4> QED BY <1>k, <1>p, <1>r, <1>t, <4>3, NotFull DEF Positions
    <3> QED BY <1>k, <1>r, <2>1, <3>1 DEF RoomLeft, Pos, Room, SlotOf, rings, clients
  <2> QED BY <1>k, <2>3, <2>4, <2>5 DEF IInv
<1>2. CASE RefreshRead(Full(readPos))
  <2>1. /\ UNCHANGED <<writePos, readPos, cachedWrite, buffer, clients>>
        /\ cachedRead' = readPos
        /\ pc' = [pc EXCEPT ![Producer] = IF Full(readPos) THEN "idle" ELSE "write"]
    BY <1>2 DEF RefreshRead, Goto
  <2>2. /\ pc'[Producer] = IF Full(readPos) THEN "idle" ELSE "write"
        /\ pc'[Consumer] = pc[Consumer]
    BY <2>1, <1>t
  <2>3. Positions' /\ Contents'
    BY <1>k, <1>p, <2>1, <2>2, PositionsKept, ContentsKept DEF clients
  <2>4. Waiting'
    BY <1>k, <1>w, <2>1, <2>2, WaitingKept DEF Reading, clients
  <2>5. RoomLeft'
    <3>1. sent <= Len(seen) + Room(kind) /\ readPos = Pos(kind, Len(seen))
      <4>1. readPos = Pos(kind, Len(seen))
        BY <1>p DEF Positions
      <4>2. r \in Nat /\ r <= Len(seen)
        BY <1>r, <1>t
      <4>3. sent <= r + Room(kind)
        BY <1>r
      <4>4. sent <= Len(seen) + Room(kind)
        BY <1>k, <1>t, <4>2, <4>3
      <4> QED BY <4>1, <4>4
    <3>2. Writing' => sent < Len(seen) + Room(kind)
      <4>1. SUFFICES ASSUME Writing' PROVE sent < Len(seen) + Room(kind)
        OBVIOUS
      <4>2. ~Full(Pos(kind, Len(seen)))
        BY <2>2, <3>1, <4>1 DEF Writing
      <4> QED BY <1>k, <1>p, <1>t, <3>1, <4>2, NotFull DEF Positions
    <3>3. Len(seen) \in 0..Len(seen)
      BY <1>t
    <3>4. /\ kind' = kind /\ sent' = sent /\ seen' = seen
          /\ cachedRead' = Pos(kind, Len(seen))
      BY <1>k, <2>1, <3>1 DEF clients
    <3> QED BY <3>1, <3>2, <3>3, <3>4 DEF RoomLeft, Pos, Room, SlotOf
  <2> QED BY <1>k, <2>3, <2>4, <2>5 DEF IInv
<1>3. CASE Write
  <2>1. /\ pc[Producer] = "write"
        /\ UNCHANGED <<writePos, readPos, cachedRead, cachedWrite, clients>>
        /\ buffer' = [buffer EXCEPT ![SlotOf(writePos)] = MessageNo(sent + 1)]
        /\ pc' = [pc EXCEPT ![Producer] = "publish"]
    BY <1>3 DEF Write, Goto
  <2>2. pc'[Producer] = "publish" /\ pc'[Consumer] = pc[Consumer]
    BY <2>1, <1>t
  <2>3. sent < Len(seen) + Capacity
    BY <2>1, Claims DEF Writing
  <2>4. Positions' /\ RoomLeft' /\ Waiting'
    BY <1>k, <1>w, <1>p, <2>1, <2>2, PositionsKept, RoomLeftKept, WaitingKept
       DEF Writing, Reading, clients
  <2>5. Contents'
    <3>1. SlotOf(sent) \in Slot /\ SlotOf(writePos) = SlotOf(sent)
      BY <1>t, <1>p, SlotsInRing, SlotOfPos DEF Positions
    <3>2. buffer'[SlotOf(sent)] = MessageNo(sent + 1)
      BY <2>1, <3>1, Types
    <3>3. ASSUME NEW n \in Len(seen)..(sent - 1)
          PROVE  buffer'[SlotOf(n)] = MessageNo(n + 1)
      <4>1. n \in Nat /\ n < sent /\ sent < n + Capacity
        BY <1>t, <2>3
      <4>2. SlotOf(n) # SlotOf(sent) /\ SlotOf(n) \in Slot
        BY <1>t, <4>1, SlotsDiffer, SlotsInRing
      <4>3. buffer'[SlotOf(n)] = buffer[SlotOf(n)]
        BY <2>1, <3>1, <4>2, Types
      <4> QED BY <1>p, <4>3 DEF Contents
    <3> QED BY <1>p, <2>1, <2>2, <3>2, <3>3 DEF Contents, clients, SlotOf, MessageNo
  <2> QED BY <1>k, <2>4, <2>5 DEF IInv
<1>4. CASE Publish(Succ(writePos))
  <2>1. /\ pc[Producer] = "publish"
        /\ UNCHANGED <<readPos, cachedRead, cachedWrite, buffer, item, seen>>
        /\ writePos' = Succ(writePos) /\ sent' = sent + 1
        /\ pc' = [pc EXCEPT ![Producer] = "idle"]
    BY <1>4 DEF Publish, Goto
  <2>2. pc'[Producer] = "idle" /\ pc'[Consumer] = pc[Consumer]
    BY <2>1, <1>t
  <2>3. Positions'
    <3>1. writePos' = Pos(kind, sent + 1)
      BY <1>k, <1>p, <1>t, <2>1, SuccIs DEF Positions
    <3>2. Len(seen) <= sent + 1
      BY <1>p, <1>t DEF Positions
    <3> QED BY <1>k, <1>p, <2>1, <3>1, <3>2 DEF Positions, Pos, SlotOf
  <2>4. RoomLeft'
    <3>1. sent + 1 <= r + Room(kind)
      BY <1>k, <1>r, <1>t, <2>1 DEF Writing
    <3>2. ~Writing'
      BY <2>2 DEF Writing
    <3> QED BY <1>k, <1>r, <2>1, <3>1, <3>2 DEF RoomLeft, Pos, Room, SlotOf
  <2>5. Waiting'
    <3>1. PICK w \in Len(seen)..sent : /\ cachedWrite = Pos(kind, w)
                                       /\ Reading => Len(seen) < w
      BY <1>w DEF Waiting
    <3>2. w \in Len(seen)..(sent + 1)
      BY <1>t, <3>1
    <3>3. Reading' <=> Reading
      BY <2>2 DEF Reading
    <3> QED BY <1>k, <2>1, <3>1, <3>2, <3>3 DEF Waiting, Pos, SlotOf
  <2>6. Contents'
    <3>1. \A n \in Len(seen)..((sent + 1) - 1) : buffer[SlotOf(n)] = MessageNo(n + 1)
      <4>1. buffer[SlotOf(sent)] = MessageNo(sent + 1)
        BY <1>p, <2>1 DEF Contents
      <4>2. \A n \in Len(seen)..(sent - 1) : buffer[SlotOf(n)] = MessageNo(n + 1)
        BY <1>p DEF Contents
      <4> QED BY <1>t, <4>1, <4>2
    <3> QED BY <1>p, <2>1, <2>2, <3>1 DEF Contents, SlotOf, MessageNo
  <2> QED BY <1>k, <2>3, <2>4, <2>5, <2>6 DEF IInv
<1> QED BY <1>1, <1>2, <1>3, <1>4, PushSteps

LEMMA PopPreserves ==
  ASSUME TypeOK, IInv, Pop
  PROVE  IInv'
<1> USE ThreadsDiffer, CapacityPositive
<1>t. /\ writePos \in Nat /\ readPos \in Nat /\ sent \in Nat /\ Len(seen) \in Nat
      /\ pc \in [Threads -> {"idle", "refresh", "write", "publish", "read",
                             "release", "subtract", "done"}]
  BY Types
<1>k. kind' = kind /\ kind \in Kinds
  BY PopSteps DEF IInv
<1>r. RoomLeft /\ Waiting
  BY DEF IInv
<1>w. PICK w \in Len(seen)..sent : /\ cachedWrite = Pos(kind, w)
                                   /\ Reading => Len(seen) < w
  BY DEF IInv, Waiting
<1>p. Positions /\ Contents
  BY DEF IInv
<1>1. ASSUME NEW empty, StartPop(empty), empty \in {TRUE, Empty(cachedWrite)}
      PROVE  IInv'
  <2>1. /\ UNCHANGED <<rings, clients>>
        /\ pc' = [pc EXCEPT ![Consumer] = IF empty THEN "refresh" ELSE "read"]
    BY <1>1 DEF StartPop, Goto
  <2>2. /\ pc'[Consumer] = IF empty THEN "refresh" ELSE "read"
        /\ pc'[Producer] = pc[Producer]
    BY <2>1, <1>t
  <2>3. Positions' /\ Contents'
    BY <1>k, <1>p, <2>1, <2>2, PositionsKept, ContentsKept DEF rings, clients
  <2>4. RoomLeft'
    BY <1>k, <1>r, <2>1, <2>2, RoomLeftKept DEF Writing, rings, clients
  <2>5. Waiting'
    <3>1. Reading' => Len(seen) < w
      <4>1. SUFFICES ASSUME Reading' PROVE Len(seen) < w
        OBVIOUS
      <4>2. ~empty
        BY <2>2, <4>1 DEF Reading
      <4>3. ~Empty(Pos(kind, w))
        BY <1>1, <1>w, <4>2
      <4> QED BY <1>k, <1>p, <1>w, <1>t, <4>3, NotEmpty DEF Positions
    <3> QED BY <1>k, <1>w, <2>1, <3>1 DEF Waiting, Pos, SlotOf, rings, clients
  <2> QED BY <1>k, <2>3, <2>4, <2>5 DEF IInv
<1>2. CASE RefreshWrite(Empty(writePos))
  <2>1. /\ UNCHANGED <<writePos, readPos, cachedRead, buffer, clients>>
        /\ cachedWrite' = writePos
        /\ pc' = [pc EXCEPT ![Consumer] = IF Empty(writePos) THEN "idle" ELSE "read"]
    BY <1>2 DEF RefreshWrite, Goto
  <2>2. /\ pc'[Consumer] = IF Empty(writePos) THEN "idle" ELSE "read"
        /\ pc'[Producer] = pc[Producer]
    BY <2>1, <1>t
  <2>3. Positions' /\ Contents'
    BY <1>k, <1>p, <2>1, <2>2, PositionsKept, ContentsKept DEF clients
  <2>4. RoomLeft'
    BY <1>k, <1>r, <2>1, <2>2, RoomLeftKept DEF Writing, clients
  <2>5. Waiting'
    <3>1. sent \in Len(seen)..sent /\ writePos = Pos(kind, sent)
      BY <1>p, <1>t DEF Positions
    <3>2. Reading' => Len(seen) < sent
      <4>1. SUFFICES ASSUME Reading' PROVE Len(seen) < sent
        OBVIOUS
      <4>2. ~Empty(Pos(kind, sent))
        BY <2>2, <3>1, <4>1 DEF Reading
      <4> QED BY <1>k, <1>p, <1>t, <4>2, NotEmpty DEF Positions
    <3>3. /\ kind' = kind /\ sent' = sent /\ seen' = seen
          /\ cachedWrite' = Pos(kind, sent)
      BY <1>k, <2>1, <3>1 DEF clients
    <3> QED BY <3>1, <3>2, <3>3 DEF Waiting, Pos, SlotOf
  <2> QED BY <1>k, <2>3, <2>4, <2>5 DEF IInv
<1>3. CASE Read
  <2>1. /\ pc[Consumer] = "read"
        /\ UNCHANGED <<rings, sent, seen>>
        /\ item' = buffer[SlotOf(readPos)]
        /\ pc' = [pc EXCEPT ![Consumer] = "release"]
    BY <1>3 DEF Read, Goto
  <2>2. pc'[Consumer] = "release" /\ pc'[Producer] = pc[Producer]
    BY <2>1, <1>t
  <2>3. Len(seen) < sent
    BY <2>1, Claims DEF Reading
  <2>4. Positions' /\ RoomLeft' /\ Waiting'
    BY <1>k, <1>r, <1>p, <2>1, <2>2, PositionsKept, RoomLeftKept, WaitingKept
       DEF Writing, Reading, rings
  <2>5. item' = MessageNo(Len(seen) + 1)
    <3>1. SlotOf(readPos) = SlotOf(Len(seen))
      BY <1>t, <1>p, SlotOfPos DEF Positions
    <3>2. Len(seen) \in Len(seen)..(sent - 1)
      BY <1>t, <2>3
    <3> QED BY <1>p, <2>1, <3>1, <3>2 DEF Contents
  <2>6. Contents'
    BY <1>p, <2>1, <2>2, <2>5 DEF Contents, rings, SlotOf, MessageNo
  <2> QED BY <1>k, <2>4, <2>6 DEF IInv
<1>4. CASE Release(Succ(readPos))
  <2>1. /\ pc[Consumer] = "release"
        /\ UNCHANGED <<writePos, cachedRead, cachedWrite, buffer, item, sent>>
        /\ readPos' = Succ(readPos) /\ seen' = Append(seen, item)
        /\ pc' = [pc EXCEPT ![Consumer] = "idle"]
    BY <1>4 DEF Release, Goto
  <2>2. pc'[Consumer] = "idle" /\ pc'[Producer] = pc[Producer]
    BY <2>1, <1>t
  <2>3. Len(seen) < sent
    BY <2>1, Claims DEF Reading
  <2>4. /\ Len(seen') = Len(seen) + 1
        /\ \A k \in 1..Len(seen) : seen'[k] = seen[k]
        /\ seen'[Len(seen) + 1] = item
    <3>1. item \in Message \cup {Nothing} /\ seen \in Seq(Message \cup {Nothing})
      BY DEF TypeOK
    <3> QED BY <2>1, <3>1
  <2>5. Positions'
    <3>1. readPos' = Pos(kind, Len(seen) + 1)
      BY <1>k, <1>p, <1>t, <2>1, SuccIs DEF Positions
    <3>2. Len(seen) + 1 <= sent
      BY <1>t, <2>3
    <3> QED BY <1>k, <1>p, <2>1, <2>4, <3>1, <3>2 DEF Positions, Pos, SlotOf
  <2>6. RoomLeft'
    <3>1. PICK r \in 0..Len(seen) : /\ cachedRead = Pos(kind, r)
                                    /\ sent <= r + Room(kind)
                                    /\ Writing => sent < r + Room(kind)
      BY <1>r DEF RoomLeft
    <3>2. r \in 0..(Len(seen) + 1)
      BY <1>t, <3>1
    <3>3. Writing' <=> Writing
      BY <2>2 DEF Writing
    <3> QED BY <1>k, <2>1, <2>4, <3>1, <3>2, <3>3 DEF RoomLeft, Pos, Room, SlotOf
  <2>7. Waiting'
    <3>1. w \in (Len(seen) + 1)..sent
      BY <1>t, <1>w, <2>1 DEF Reading
    <3>2. ~Reading'
      BY <2>2 DEF Reading
    <3> QED BY <1>k, <1>w, <2>1, <2>4, <3>1, <3>2 DEF Waiting, Pos, SlotOf
  <2>8. \A k \in 1..(Len(seen) + 1) : seen'[k] = MessageNo(k)
    <3>1. item = MessageNo(Len(seen) + 1)
      BY <1>p, <2>1 DEF Contents
    <3>2. \A k \in 1..Len(seen) : seen[k] = MessageNo(k)
      BY <1>p DEF Contents
    <3> QED BY <1>t, <2>4, <3>1, <3>2
  <2>9. \A n \in (Len(seen) + 1)..(sent - 1) : buffer[SlotOf(n)] = MessageNo(n + 1)
    BY <1>p, <1>t DEF Contents
  <2>10. Contents'
    BY <1>p, <2>1, <2>2, <2>4, <2>8, <2>9 DEF Contents, SlotOf, MessageNo
  <2> QED BY <1>k, <2>5, <2>6, <2>7, <2>10 DEF IInv
<1> QED BY <1>1, <1>2, <1>3, <1>4, PopSteps

\* The observer and a stuttering step change nothing the invariant is about.
LEMMA ObservePreserves ==
  ASSUME TypeOK, IInv, Observe \/ UNCHANGED vars, kind' = kind
  PROVE  IInv'
<1> USE ThreadsDiffer
<1>1. /\ UNCHANGED <<rings, clients>>
      /\ pc'[Producer] = pc[Producer] /\ pc'[Consumer] = pc[Consumer]
  BY Types DEF Observe, LoadWritePos, SubtractReadPos, Goto, vars
<1>2. Writing' = Writing /\ Reading' = Reading
  BY <1>1 DEF Writing, Reading
<1>3. Positions'
  BY <1>1, PositionsKept DEF IInv, rings, clients
<1>4. RoomLeft' /\ Waiting'
  BY <1>1, <1>2, RoomLeftKept, WaitingKept DEF IInv, rings, clients
<1>5. Contents'
  BY <1>1, ContentsKept DEF IInv, rings, clients
<1> QED BY <1>3, <1>4, <1>5 DEF IInv

LEMMA InvariantNext == TypeOK /\ IInv /\ [TestNext]_testVars => IInv'
BY PushPreserves, PopPreserves, ObservePreserves DEF TestNext, Joined, testVars

(***************************************************************************)
(* The inductive invariant: in every ring the positions stand for the      *)
(* numbers of pushes and pops, the copies for earlier ones, and the slots  *)
(* between hold the messages in order.                                     *)
(***************************************************************************)
THEOREM Invariance == TestSpec => []IInv
BY InvariantInit, TypeCorrect, InvariantNext, PTL DEF TestSpec

(***************************************************************************)
(* Producer and consumer are never in the same slot of any ring, although  *)
(* each decides on an old copy of the other's position.                    *)
(***************************************************************************)
THEOREM NoRaces == TestSpec => []SlotsApart
<1>1. TypeOK /\ IInv => SlotsApart
  <2> SUFFICES ASSUME TypeOK, IInv, Writing, Reading
               PROVE  SlotOf(readPos) # SlotOf(writePos)
    BY DEF SlotsApart
  <2>1. Len(seen) < sent /\ sent < Len(seen) + Capacity
    BY Claims
  <2>2. SlotOf(readPos) = SlotOf(Len(seen)) /\ SlotOf(writePos) = SlotOf(sent)
    BY Types, SlotOfPos DEF IInv, Positions
  <2> QED BY <2>1, <2>2, Types, SlotsDiffer
<1> QED BY <1>1, TypeCorrect, Invariance, PTL

(***************************************************************************)
(* The consumer receives the messages in order, none lost, none twice.     *)
(***************************************************************************)
THEOREM InOrder == TestSpec => []ReceivedInOrder
<1>1. IInv => ReceivedInOrder
  BY DEF ReceivedInOrder, IInv, Positions, Contents
<1> QED BY <1>1, Invariance, PTL

-----------------------------------------------------------------------------
(* The rings implement a bounded FIFO                                      *)

\* The messages after the first m, up to the n-th.
Between(m, n) == [k \in 1..(n - m) |-> MessageNo(m + k)]

LEMMA BetweenIs ==
  ASSUME NEW m \in Nat, NEW n \in Nat, m <= n
  PROVE  /\ Len(Between(m, n)) = n - m
         /\ Between(m, n + 1) = Append(Between(m, n), MessageNo(n + 1))
         /\ m < n => /\ Between(m, n) # <<>>
                     /\ Head(Between(m, n)) = MessageNo(m + 1)
                     /\ Tail(Between(m, n)) = Between(m + 1, n)
<1> DEFINE All == {Producer} \X Nat
           d == n - m
<1>1. \A k \in Nat : MessageNo(k) \in All
  BY DEF MessageNo
<1>2. ASSUME NEW a \in Nat, NEW b \in Nat, a <= b
      PROVE  /\ Between(a, b) \in [1..(b - a) -> All]
             /\ \A k \in 1..(b - a) : Between(a, b)[k] = MessageNo(a + k)
  BY <1>1, <1>2 DEF Between
<1>3. d \in Nat
  OBVIOUS
<1>4. /\ Between(m, n) \in [1..d -> All]
      /\ \A k \in 1..d : Between(m, n)[k] = MessageNo(m + k)
  BY <1>2
<1>5. Len(Between(m, n)) = d /\ Between(m, n + 1) = Append(Between(m, n), MessageNo(n + 1))
  <2>1. (n + 1) - m = d + 1 /\ m + (d + 1) = n + 1 /\ d + 1 \in 1..(d + 1) /\ n + 1 \in Nat
    BY <1>3
  <2>2. /\ Between(m, n + 1) \in [1..(d + 1) -> All]
        /\ \A k \in 1..(d + 1) : Between(m, n + 1)[k] = MessageNo(m + k)
    <3>1. n + 1 \in Nat /\ m <= n + 1
      OBVIOUS
    <3>2. /\ Between(m, n + 1) \in [1..((n + 1) - m) -> All]
          /\ \A k \in 1..((n + 1) - m) : Between(m, n + 1)[k] = MessageNo(m + k)
      BY <1>2, <3>1
    <3> QED BY <2>1, <3>2
  <2>3. 1..d \subseteq 1..(d + 1)
    BY <1>3
  <2> HIDE DEF d, All
  <2>4. \A k \in 1..d : Between(m, n + 1)[k] = Between(m, n)[k]
    BY <1>4, <2>2, <2>3
  <2>5. Between(m, n + 1)[d + 1] = MessageNo(n + 1)
    BY <2>1, <2>2
  <2> QED BY <1>3, <1>4, <2>2, <2>4, <2>5, AppendIs
<1>6. ASSUME m < n
      PROVE  /\ Between(m, n) # <<>>
             /\ Head(Between(m, n)) = MessageNo(m + 1)
             /\ Tail(Between(m, n)) = Between(m + 1, n)
  <2>1. d > 0 /\ n - (m + 1) = d - 1 /\ m + 1 \in Nat /\ m + 1 <= n /\ 1 \in 1..d
    BY <1>6
  <2>2. /\ Between(m + 1, n) \in [1..(d - 1) -> All]
        /\ \A k \in 1..(d - 1) : Between(m + 1, n)[k] = MessageNo((m + 1) + k)
    BY <1>2, <2>1
  <2>3. \A k \in 1..(d - 1) : k + 1 \in 1..d /\ (m + 1) + k = m + (k + 1)
    BY <1>3
  <2> HIDE DEF d, All
  <2>4. \A k \in 1..(d - 1) : Between(m + 1, n)[k] = Between(m, n)[k + 1]
    BY <1>4, <2>2, <2>3
  <2>5. Between(m, n)[1] = MessageNo(m + 1)
    BY <1>4, <2>1
  <2> QED BY SMTT(60), <1>3, <1>4, <2>1, <2>2, <2>4, <2>5, TailIs
<1> QED BY <1>5, <1>6

\* What is in the slots from a position on.
LEMMA QueueAt ==
  ASSUME NEW k, NEW m \in Nat, NEW n \in Nat, NEW pos, NEW buf,
         pos = Pos(k, m),
         \A i \in m..(n - 1) : buf[SlotOf(i)] = MessageNo(i + 1)
  PROVE  \A j \in 1..(n - m) : buf[SlotOf(pos + j - 1)] = MessageNo(m + j)
<1>1. ASSUME NEW j \in 1..(n - m)
      PROVE  buf[SlotOf(pos + j - 1)] = MessageNo(m + j)
  <2>1. j - 1 \in Nat /\ m + (j - 1) \in m..(n - 1) /\ (m + (j - 1)) + 1 = m + j
    OBVIOUS
  <2>2. SlotOf(pos + (j - 1)) = SlotOf(m + (j - 1))
    BY <2>1, CapacityPositive, WrapThenAdd DEF Pos, SlotOf
  <2>3. pos + j - 1 = pos + (j - 1)
    BY <2>1, SlotOfPos
  <2> QED BY <2>1, <2>2, <2>3
<1> QED BY <1>1

Queue == [k \in 1..(sent - Len(seen)) |-> buffer[SlotOf(readPos + k - 1)]]

LEMMA QueueIs ==
  ASSUME TypeOK, IInv, TypeOK', IInv'
  PROVE  /\ Queue = Between(Len(seen), sent)
         /\ Queue' = Between(Len(seen'), sent')
<1>1. Queue = Between(Len(seen), sent)
  <2>1. Len(seen) \in Nat /\ sent \in Nat
    BY Types
  <2>2. readPos = Pos(kind, Len(seen))
    BY DEF IInv, Positions
  <2>3. \A i \in Len(seen)..(sent - 1) : buffer[SlotOf(i)] = MessageNo(i + 1)
    BY DEF IInv, Contents
  <2>4. \A j \in 1..(sent - Len(seen)) :
           buffer[SlotOf(readPos + j - 1)] = MessageNo(Len(seen) + j)
    <3> DEFINE m == Len(seen)
               n == sent
               buf == buffer
               pos == readPos
               k == kind
    <3>1. m \in Nat /\ n \in Nat /\ pos = Pos(k, m)
      BY <2>1, <2>2
    <3>2. \A i \in m..(n - 1) : buf[SlotOf(i)] = MessageNo(i + 1)
      BY <2>3
    <3> HIDE DEF m, n, buf, pos, k
    <3>3. \A j \in 1..(n - m) : buf[SlotOf(pos + j - 1)] = MessageNo(m + j)
      BY <3>1, <3>2, QueueAt
    <3> QED BY <3>3 DEF m, n, buf, pos
  <2> QED BY <2>4 DEF Queue, Between
<1>2. Queue' = Between(Len(seen'), sent')
  <2>1. Len(seen') \in Nat /\ sent' \in Nat
    BY MessagesAssumption DEF TypeOK
  <2>2. /\ readPos' = Pos(kind', Len(seen'))
        /\ \A n \in Len(seen')..(sent' - 1) : buffer'[SlotOf(n)] = MessageNo(n + 1)
    BY DEF IInv, Positions, Contents, SlotOf, MessageNo, Pos
  <2>3. Queue' = [k \in 1..(sent' - Len(seen')) |-> buffer'[SlotOf(readPos' + k - 1)]]
    BY DEF Queue, SlotOf
  <2>4. \A j \in 1..(sent' - Len(seen')) :
           buffer'[SlotOf(readPos' + j - 1)] = MessageNo(Len(seen') + j)
    <3> DEFINE m == Len(seen')
               n == sent'
               buf == buffer'
               pos == readPos'
               k == kind'
    <3>1. m \in Nat /\ n \in Nat /\ pos = Pos(k, m)
      BY <2>1, <2>2
    <3>2. \A i \in m..(n - 1) : buf[SlotOf(i)] = MessageNo(i + 1)
      BY <2>2
    <3> HIDE DEF m, n, buf, pos, k
    <3>3. \A j \in 1..(n - m) : buf[SlotOf(pos + j - 1)] = MessageNo(m + j)
      BY <3>1, <3>2, QueueAt
    <3> QED BY <3>3 DEF m, n, buf, pos
  <2> QED BY <2>3, <2>4 DEF Between, MessageNo
<1> QED BY <1>1, <1>2

LEMMA PublishPuts ==
  ASSUME TypeOK, IInv, TypeOK', IInv', NEW next, Publish(next)
  PROVE  Fifo!Put(Producer)
<1>1. sent < Messages /\ sent' = sent + 1 /\ seen' = seen
  BY MessagesAssumption DEF Publish, TypeOK
<1>2. Len(seen) \in Nat /\ sent \in Nat /\ Len(seen) <= sent
      /\ sent < Len(seen) + Capacity
  BY Types, Claims DEF Publish, Writing, IInv, Positions
<1>3. Queue = Between(Len(seen), sent) /\ Queue' = Between(Len(seen), sent + 1)
  BY <1>1, QueueIs
<1>4. /\ Len(Between(Len(seen), sent)) = sent - Len(seen)
      /\ Between(Len(seen), sent + 1) =
           Append(Between(Len(seen), sent), MessageNo(sent + 1))
  BY <1>2, BetweenIs
<1>5. Len(Queue) < Capacity /\ Queue' = Append(Queue, <<Producer, sent + 1>>)
  <2>1. sent - Len(seen) < Capacity
    BY <1>2, CapacityPositive
  <2> QED BY <1>3, <1>4, <2>1 DEF MessageNo
<1>6. /\ [p \in {Producer} |-> sent][Producer] = sent
      /\ [p \in {Producer} |-> sent'] =
           [[p \in {Producer} |-> sent] EXCEPT ![Producer] = sent + 1]
  BY <1>1
<1> QED BY <1>1, <1>5, <1>6 DEF Fifo!Put, Queue

LEMMA ReleaseTakes ==
  ASSUME TypeOK, IInv, TypeOK', IInv', NEW next, Release(next)
  PROVE  Fifo!Take(Consumer)
<1>1. /\ sent' = sent /\ seen' = Append(seen, item)
      /\ item = MessageNo(Len(seen) + 1)
  BY DEF Release, IInv, Contents
<1>2. Len(seen) \in Nat /\ sent \in Nat /\ Len(seen) < sent
      /\ Len(seen') = Len(seen) + 1
  <2>1. Len(seen) \in Nat /\ sent \in Nat /\ Len(seen) < sent
    BY Types, Claims DEF Release, Reading
  <2>2. seen \in Seq(Message \cup {Nothing}) /\ item \in Message \cup {Nothing}
    BY DEF TypeOK
  <2> QED BY <1>1, <2>1, <2>2
<1>3. Queue = Between(Len(seen), sent) /\ Queue' = Between(Len(seen) + 1, sent)
  BY <1>1, <1>2, QueueIs
<1>4. /\ Between(Len(seen), sent) # <<>>
      /\ Head(Between(Len(seen), sent)) = MessageNo(Len(seen) + 1)
      /\ Tail(Between(Len(seen), sent)) = Between(Len(seen) + 1, sent)
  <2>1. Len(seen) <= sent
    BY <1>2
  <2> QED BY <1>2, <2>1, BetweenIs
<1>5. Queue # <<>> /\ Head(Queue) = item /\ Queue' = Tail(Queue)
  BY <1>1, <1>3, <1>4
<1>6. [c \in {Consumer} |-> seen'] =
        [[c \in {Consumer} |-> seen] EXCEPT ![Consumer] = Append(seen, item)]
  BY <1>1
<1> QED BY <1>1, <1>5, <1>6 DEF Fifo!Take, Queue

LEMMA OthersStutter ==
  ASSUME TypeOK, IInv, TypeOK', IInv', sent' = sent, seen' = seen
  PROVE  UNCHANGED Fifo!vars
<1>1. Queue' = Queue
  BY QueueIs
<1> QED BY <1>1 DEF Fifo!vars, Queue

LEMMA StepsRefine ==
  TypeOK /\ IInv /\ TypeOK' /\ IInv' /\ [TestNext]_testVars => [Fifo!Next]_(Fifo!vars)
<1> SUFFICES ASSUME TypeOK, IInv, TypeOK', IInv', [TestNext]_testVars
             PROVE  [Fifo!Next]_(Fifo!vars)
  OBVIOUS
<1>1. CASE Push
  <2>1. CASE Publish(Succ(writePos))
    BY <2>1, PublishPuts DEF Fifo!Next
  <2>2. CASE ~Publish(Succ(writePos))
    <3>1. sent' = sent /\ seen' = seen
      BY <1>1, <2>2, PushSteps DEF StartPush, RefreshRead, Write, clients
    <3> QED BY <3>1, OthersStutter
  <2> QED BY <2>1, <2>2
<1>2. CASE Pop
  <2>1. CASE Release(Succ(readPos))
    BY <2>1, ReleaseTakes DEF Fifo!Next
  <2>2. CASE ~Release(Succ(readPos))
    <3>1. sent' = sent /\ seen' = seen
      BY <1>2, <2>2, PopSteps DEF StartPop, RefreshWrite, Read, clients
    <3> QED BY <3>1, OthersStutter
  <2> QED BY <2>1, <2>2
<1>3. CASE Observe \/ Joined \/ UNCHANGED testVars
  <2>1. sent' = sent /\ seen' = seen
    BY <1>3 DEF Observe, LoadWritePos, SubtractReadPos, Joined, vars, testVars, clients
  <2> QED BY <2>1, OthersStutter
<1> QED BY <1>1, <1>2, <1>3 DEF TestNext

LEMMA InitRefines == TestInit => Fifo!Init
<1> SUFFICES ASSUME Init PROVE Fifo!Init
  BY DEF TestInit
<1>1. sent = 0 /\ seen = <<>> /\ Len(seen) = 0
  BY DEF Init
<1>2. Queue = <<>>
  <2>1. 1..(0 - 0) = {}
    OBVIOUS
  <2> QED BY <1>1, <2>1 DEF Queue
<1> QED BY <1>1, <1>2 DEF Fifo!Init, Queue

(***************************************************************************)
(* Every ring implements a bounded FIFO: a push takes effect when the      *)
(* producer stores its position, a pop when the consumer does.             *)
(***************************************************************************)
THEOREM Implementation == TestSpec => ImplementsFifo
BY InitRefines, StepsRefine, TypeCorrect, Invariance, PTL
   DEF TestSpec, ImplementsFifo, Fifo!Spec
=============================================================================
