------------------------ MODULE BlockingQueueProofs ------------------------
(***************************************************************************)
(* Proofs about the two blocking queues, for any number of producers,      *)
(* consumers, messages and places.                                         *)
(***************************************************************************)
EXTENDS MCBlockingQueues, RingArithmetic, FiniteSetTheorems

-----------------------------------------------------------------------------
(* Counting the threads of a side at a label *)

At(p, side, label) == {t \in side : p[t] = label}
N(p, side, label) == Cardinality(At(p, side, label))
Is(l, label) == IF l = label THEN 1 ELSE 0

Sides == {Producers, Consumers}

LEMMA SidesFinite ==
  ASSUME NEW side \in Sides PROVE IsFiniteSet(side) /\ side \subseteq Threads
BY ThreadsAssumption DEF Sides, Threads

LEMMA CountType ==
  ASSUME NEW side \in Sides, NEW p, NEW label
  PROVE  IsFiniteSet(At(p, side, label)) /\ N(p, side, label) \in Nat
BY SidesFinite, FS_Subset, FS_CardinalityType DEF At, N

\* The count changes by what the one thread that moves adds to it.
LEMMA CountMove ==
  ASSUME NEW side \in Sides, NEW p, NEW q, NEW label, NEW t \in side,
         \A u \in side \ {t} : q[u] = p[u]
  PROVE  N(q, side, label) = N(p, side, label) + Is(q[t], label) - Is(p[t], label)
<1> DEFINE rest == At(p, side, label) \ {t}
<1>1. IsFiniteSet(rest) /\ Cardinality(rest) \in Nat /\ t \notin rest
  BY CountType, FS_Subset, FS_CardinalityType
<1>2. ASSUME NEW r, \A u \in side \ {t} : r[u] = p[u]
      PROVE  N(r, side, label) = Cardinality(rest) + Is(r[t], label)
  <2>1. CASE r[t] = label
    <3>1. At(r, side, label) = rest \cup {t}
      BY <1>2, <2>1 DEF At
    <3> QED BY <1>1, <2>1, <3>1, FS_AddElement DEF N, Is
  <2>2. CASE r[t] # label
    <3>1. At(r, side, label) = rest
      BY <1>2, <2>2 DEF At
    <3> QED BY <1>1, <2>2, <3>1 DEF N, Is
  <2> QED BY <2>1, <2>2
<1>3. N(p, side, label) = Cardinality(rest) + Is(p[t], label)
  BY <1>2
<1>4. N(q, side, label) = Cardinality(rest) + Is(q[t], label)
  BY <1>2
<1> QED BY <1>1, <1>3, <1>4 DEF Is

\* Two counts of the same threads are the same.
LEMMA CountSame ==
  ASSUME NEW side, NEW p, NEW q, NEW label,
         \A t \in side : p[t] = label <=> q[t] = label
  PROVE  N(p, side, label) = N(q, side, label)
<1>1. At(p, side, label) = At(q, side, label)
  BY DEF At
<1> QED BY <1>1 DEF N

\* A count to which no thread is lost does not shrink.
LEMMA CountGrows ==
  ASSUME NEW side \in Sides, NEW p, NEW q, NEW label,
         \A t \in side : p[t] = label => q[t] = label
  PROVE  N(p, side, label) <= N(q, side, label)
<1>1. At(p, side, label) \subseteq At(q, side, label)
  BY DEF At
<1>2. Cardinality(At(p, side, label)) <= Cardinality(At(q, side, label))
  BY <1>1, CountType, FS_Subset
<1> QED BY <1>2 DEF N

-----------------------------------------------------------------------------
(* What the steps of both queues do to the threads' labels *)

Typed(p, Labels) == p \in [Threads -> Labels]

\* The same of a step's counts.
LEMMA CountsMove ==
  ASSUME NEW side \in Sides, NEW t \in side, \A u \in side \ {t} : pc'[u] = pc[u]
  PROVE  \A l : N(pc', side, l) = N(pc, side, l) + Is(pc'[t], l) - Is(pc[t], l)
<1> DEFINE p == pc
           q == pc'
<1>1. \A u \in side \ {t} : q[u] = p[u]
  OBVIOUS
<1> HIDE DEF p, q
<1>2. \A l : N(q, side, l) = N(p, side, l) + Is(q[t], l) - Is(p[t], l)
  BY <1>1, CountMove
<1> QED BY <1>2 DEF p, q

\* One thread of one side moves.
LEMMA Goes ==
  ASSUME NEW Labels, Typed(pc, Labels), NEW side \in Sides, NEW t \in side,
         NEW label \in Labels, Goto(t, label)
  PROVE  /\ Typed(pc', Labels)
         /\ pc'[t] = label
         /\ \A u \in Threads \ {t} : pc'[u] = pc[u]
         /\ \A l : N(pc', side, l) = N(pc, side, l) + Is(label, l) - Is(pc[t], l)
         /\ \A other \in Sides \ {side} :
              \A l : N(pc', other, l) = N(pc, other, l)
<1>1. /\ Typed(pc', Labels)
      /\ pc'[t] = label
      /\ \A u \in Threads \ {t} : pc'[u] = pc[u]
  BY SidesFinite DEF Goto, Typed
<1>2. \A l : N(pc', side, l) = N(pc, side, l) + Is(label, l) - Is(pc[t], l)
  <2> TAKE l
  <2>1. \A u \in side \ {t} : pc'[u] = pc[u]
    BY <1>1, SidesFinite
  <2>2. N(pc', side, l) = N(pc, side, l) + Is(pc'[t], l) - Is(pc[t], l)
    BY <2>1, CountsMove
  <2> QED BY <1>1, <2>2
<1>3. ASSUME NEW other \in Sides \ {side}, NEW l
      PROVE  N(pc', other, l) = N(pc, other, l)
  <2>1. \A u \in other : pc'[u] = pc[u]
    BY <1>1, SidesFinite, ThreadsAssumption DEF Sides
  <2> QED BY <2>1, CountSame
<1> QED BY <1>1, <1>2, <1>3

\* A notification of the other side: its first sleeper, if there is one,
\* goes on at label.
LEMMA Notifies ==
  ASSUME NEW Labels, Typed(pc, Labels), "idle" \in Labels,
         NEW side \in Sides, NEW t \in side, NEW other \in Sides \ {side},
         NEW label \in Labels \ {"wait", "notify", "idle"},
         pc[t] = "notify",
         \/ Waiting(other) = {} /\ Goto(t, "idle")
         \/ \E w \in Waiting(other) : pc' = [pc EXCEPT ![t] = "idle", ![w] = label]
  PROVE  /\ Typed(pc', Labels)
         /\ pc'[t] = "idle"
         /\ \A u \in Threads \ {t} :
              \/ pc'[u] = pc[u]
              \/ u \in other /\ pc[u] = "wait" /\ pc'[u] = label
         /\ \A l : N(pc', side, l) = N(pc, side, l) + Is("idle", l) - Is("notify", l)
         /\ \A l : l # label /\ l # "wait" => N(pc', other, l) = N(pc, other, l)
         /\ \/ Waiting(other)' = {} /\ N(pc', other, label) = N(pc, other, label)
            \/ N(pc', other, label) = N(pc, other, label) + 1
<1>1. CASE Waiting(other) = {} /\ Goto(t, "idle")
  <2>1. /\ Typed(pc', Labels)
        /\ pc'[t] = "idle"
        /\ \A u \in Threads \ {t} : pc'[u] = pc[u]
        /\ \A l : N(pc', side, l) = N(pc, side, l) + Is("idle", l) - Is(pc[t], l)
        /\ \A l : N(pc', other, l) = N(pc, other, l)
    BY <1>1, Goes
  <2>2. \A u \in other : pc'[u] = pc[u]
    BY <2>1, SidesFinite, ThreadsAssumption DEF Sides
  <2>3. Waiting(other)' = {}
    BY <1>1, <2>2 DEF Waiting, InState
  <2> QED BY <2>1, <2>3
<1>2. CASE \E w \in Waiting(other) : pc' = [pc EXCEPT ![t] = "idle", ![w] = label]
  <2>1. PICK w \in Waiting(other) : pc' = [pc EXCEPT ![t] = "idle", ![w] = label]
    BY <1>2
  <2>2. /\ w \in other /\ pc[w] = "wait" /\ w \notin side /\ t \notin other
        /\ t \in Threads /\ w \in Threads
    BY SidesFinite, ThreadsAssumption DEF Waiting, InState, Sides
  <2>3. /\ Typed(pc', Labels) /\ pc'[t] = "idle" /\ pc'[w] = label
        /\ \A u \in Threads \ {t, w} : pc'[u] = pc[u]
    BY <2>1, <2>2 DEF Typed
  <2>4. \A l : N(pc', side, l) = N(pc, side, l) + Is("idle", l) - Is("notify", l)
    <3> TAKE l
    <3>1. \A u \in side \ {t} : pc'[u] = pc[u]
      BY <2>2, <2>3, SidesFinite
    <3>2. N(pc', side, l) = N(pc, side, l) + Is(pc'[t], l) - Is(pc[t], l)
      BY <3>1, CountsMove
    <3> QED BY <2>3, <3>2
  <2>5. \A l : N(pc', other, l) = N(pc, other, l) + Is(label, l) - Is("wait", l)
    <3> TAKE l
    <3>1. \A u \in other \ {w} : pc'[u] = pc[u]
      BY <2>2, <2>3, SidesFinite
    <3>2. N(pc', other, l) = N(pc, other, l) + Is(pc'[w], l) - Is(pc[w], l)
      BY <2>2, <3>1, CountsMove
    <3> QED BY <2>2, <2>3, <3>2
  <2>6. \A l : l # label /\ l # "wait" => N(pc', other, l) = N(pc, other, l)
    BY <2>5, CountType DEF Is
  <2>7. N(pc', other, label) = N(pc, other, label) + 1
    <3>1. N(pc', other, label) = N(pc, other, label) + Is(label, label) - Is("wait", label)
      BY <2>5
    <3>2. Is(label, label) = 1 /\ Is("wait", label) = 0
      BY DEF Is
    <3> QED BY <3>1, <3>2, CountType
  <2>8. \A u \in Threads \ {t} :
          \/ pc'[u] = pc[u]
          \/ u \in other /\ pc[u] = "wait" /\ pc'[u] = label
    BY <2>2, <2>3
  <2> QED BY <2>3, <2>4, <2>6, <2>7, <2>8
<1> QED BY <1>1, <1>2

LEMMA BothSides ==
  /\ Producers \in Sides /\ Consumers \in Sides
  /\ \A p \in Producers : /\ p \in Threads /\ p \notin Consumers
                          /\ Consumers \in Sides \ {Producers}
  /\ \A c \in Consumers : /\ c \in Threads /\ c \notin Producers
                          /\ Producers \in Sides \ {Consumers}
BY ThreadsAssumption DEF Sides, Threads

-----------------------------------------------------------------------------
(* The pushes that a producer has begun, of both queues *)

Pushing(label) == IF label \in {"idle", "notify"} THEN 0 ELSE 1

\* A push that has begun has not counted its message before it notifies.
PushesCounted ==
  \A p \in Producers : produced[p] + Pushing(pc[p]) <= tried[p]

LEMMA PushesKept ==
  ASSUME PushesCounted, UNCHANGED <<tried, produced>>,
         \A p \in Producers : Pushing(pc'[p]) = Pushing(pc[p])
  PROVE  PushesCounted'
BY DEF PushesCounted

-----------------------------------------------------------------------------
(* BoundedQueue *)

\* stop() sets the flag first, and has then woken up those it is past.
StopNotifies ==
  /\ stopped <=> stopPc # "idle"
  /\ stopPc \in {"notEmpty", "done"} => \A p \in Producers : pc[p] # "wait"
  /\ stopPc = "done" => \A c \in Consumers : pc[c] # "wait"

BasicInv ==
  /\ Basic!TypeOK /\ Basic!NoThreadForgotten
  /\ Len(queue) <= Capacity
  /\ PushesCounted
  /\ StopNotifies

BasicLabels == {"enter", "idle", "wait", "notify"}

\* NoThreadForgotten in terms of the counts.
ConsumersRemembered(p, n) ==
  (\E c \in Consumers : p[c] = "wait") =>
     n <= N(p, Consumers, "enter") + N(p, Producers, "notify")

ProducersRemembered(p, n) ==
  (\E t \in Producers : p[t] = "wait") =>
     Capacity - n <= N(p, Producers, "enter") + N(p, Consumers, "notify")

LEMMA BasicCounts ==
  /\ Basic!NoThreadForgotten <=>
       /\ ConsumersRemembered(pc, Len(queue))
       /\ stopped \/ ProducersRemembered(pc, Len(queue))
  /\ Basic!NoThreadForgotten' <=>
       /\ ConsumersRemembered(pc', Len(queue'))
       /\ stopped' \/ ProducersRemembered(pc', Len(queue'))
BY DEF Basic!NoThreadForgotten, Basic!Waiting, Basic!InState, N, At,
       Basic!Cardinality, Cardinality, ConsumersRemembered, ProducersRemembered

LEMMA BasicType ==
  /\ Basic!TypeOK <=>
       /\ stopped \in BOOLEAN
       /\ stopPc \in {"idle", "notFull", "notEmpty", "done"}
       /\ Typed(pc, BasicLabels)
       /\ tried \in [Producers -> 0..Messages]
       /\ produced \in [Producers -> 0..Messages]
       /\ got \in [Consumers -> Seq(Message)]
       /\ consumed \in Nat
       /\ queue \in Seq(Message)
  /\ Basic!TypeOK' <=>
       /\ stopped' \in BOOLEAN
       /\ stopPc' \in {"idle", "notFull", "notEmpty", "done"}
       /\ Typed(pc', BasicLabels)
       /\ tried' \in [Producers -> 0..Messages]
       /\ produced' \in [Producers -> 0..Messages]
       /\ got' \in [Consumers -> Seq(Message)]
       /\ consumed' \in Nat
       /\ queue' \in Seq(Message)
BY DEF Basic!TypeOK, Basic!ClientsTypeOK, Basic!Threads, Threads, Typed,
       BasicLabels, Basic!Message, Message

LEMMA BasicInit == Basic!Constructed => BasicInv
<1> SUFFICES ASSUME Basic!Constructed PROVE BasicInv
  OBVIOUS
<1> USE DEF Basic!Constructed, Basic!Init
<1>1. Basic!TypeOK
  <2>1. Typed(pc, BasicLabels)
    BY DEF Typed, BasicLabels, Basic!Threads, Threads
  <2>2. /\ tried \in [Producers -> 0..Messages]
        /\ produced \in [Producers -> 0..Messages]
        /\ got \in [Consumers -> Seq(Message)]
        /\ queue \in Seq(Message)
    BY MessagesAssumption
  <2> QED BY <2>1, <2>2, BasicType
<1>2. \A t \in Threads : pc[t] = "idle"
  BY DEF Basic!Threads, Threads
<1>3. Basic!NoThreadForgotten
  BY <1>2, BothSides, BasicCounts DEF ConsumersRemembered, ProducersRemembered
<1>4. Len(queue) <= Capacity
  BY CapacityAssumption
<1>5. PushesCounted /\ StopNotifies
  BY <1>2, BothSides DEF PushesCounted, StopNotifies, Pushing
<1> QED BY <1>1, <1>3, <1>4, <1>5 DEF BasicInv

\* A producer's step that does not notify.
LEMMA BasicProducerMoves ==
  ASSUME BasicInv, NEW p \in Producers, NEW label \in BasicLabels,
         Basic!Goto(p, label)
  PROVE  /\ Typed(pc', BasicLabels)
         /\ pc'[p] = label
         /\ \A u \in Threads \ {p} : pc'[u] = pc[u]
         /\ \A l : N(pc', Producers, l) =
                     N(pc, Producers, l) + Is(label, l) - Is(pc[p], l)
         /\ \A l : N(pc', Consumers, l) = N(pc, Consumers, l)
<1>1. Typed(pc, BasicLabels) /\ Goto(p, label)
  BY BasicType DEF BasicInv, Basic!Goto, Goto
<1> QED BY <1>1, Goes, BothSides

LEMMA BasicConsumerMoves ==
  ASSUME BasicInv, NEW c \in Consumers, NEW label \in BasicLabels,
         Basic!Goto(c, label)
  PROVE  /\ Typed(pc', BasicLabels)
         /\ pc'[c] = label
         /\ \A u \in Threads \ {c} : pc'[u] = pc[u]
         /\ \A l : N(pc', Consumers, l) =
                     N(pc, Consumers, l) + Is(label, l) - Is(pc[c], l)
         /\ \A l : N(pc', Producers, l) = N(pc, Producers, l)
<1>1. Typed(pc, BasicLabels) /\ Goto(c, label)
  BY BasicType DEF BasicInv, Basic!Goto, Goto
<1> QED BY <1>1, Goes, BothSides

LEMMA LengthType == BasicInv => Len(queue) \in Nat /\ Capacity \in Nat \ {0}
BY BasicType, CapacityAssumption DEF BasicInv

LEMMA BasicProducerStep ==
  ASSUME BasicInv, NEW p \in Producers, Basic!ProducerStep(p)
  PROVE  BasicInv'
<1>c. \A side \in Sides : \A q, l : N(q, side, l) \in Nat
  BY CountType
<1>s. /\ Len(queue) \in Nat /\ Len(queue) <= Capacity /\ Capacity \in Nat
      /\ \A u \in Producers : /\ tried[u] \in Nat /\ produced[u] \in Nat
                              /\ tried[u] <= Messages
      /\ Messages \in Nat
  BY LengthType, BasicType, MessagesAssumption DEF BasicInv
<1>i. /\ PushesCounted /\ StopNotifies
      /\ ConsumersRemembered(pc, Len(queue))
      /\ stopped \/ ProducersRemembered(pc, Len(queue))
  BY BasicCounts DEF BasicInv
<1>l. BasicLabels = {"enter", "idle", "wait", "notify"}
  BY DEF BasicLabels
<1> USE BothSides
<1>1. CASE Basic!CallPush(p)
  <2>1. /\ pc[p] = "idle" /\ tried[p] < Messages
        /\ tried' = [tried EXCEPT ![p] = @ + 1]
        /\ Basic!Goto(p, "enter")
        /\ UNCHANGED <<stopped, stopPc, produced, got, consumed, queue>>
    BY <1>1 DEF Basic!CallPush, Basic!BeginPush, Basic!flag
  <2>2. /\ Typed(pc', BasicLabels) /\ pc'[p] = "enter"
        /\ \A u \in Threads \ {p} : pc'[u] = pc[u]
        /\ N(pc', Producers, "enter") = N(pc, Producers, "enter") + 1
        /\ N(pc', Producers, "notify") = N(pc, Producers, "notify")
        /\ \A l : N(pc', Consumers, l) = N(pc, Consumers, l)
    BY <1>c, <1>l, <2>1, BasicProducerMoves DEF Is
  <2>3. Basic!TypeOK'
    BY <1>s, <2>1, <2>2, BasicType DEF BasicInv
  <2>4. Basic!NoThreadForgotten'
    <3>1. ConsumersRemembered(pc', Len(queue'))
      BY <1>c, <1>s, <1>i, <2>1, <2>2 DEF ConsumersRemembered
    <3>2. stopped' \/ ProducersRemembered(pc', Len(queue'))
      <4> SUFFICES ASSUME ~stopped, NEW u \in Producers, pc'[u] = "wait"
                   PROVE  Capacity - Len(queue) <= N(pc', Producers, "enter")
                                                   + N(pc', Consumers, "notify")
        BY <2>1 DEF ProducersRemembered
      <4>1. pc[u] = "wait"
        BY <2>2
      <4>2. Capacity - Len(queue) <= N(pc, Producers, "enter")
                                     + N(pc, Consumers, "notify")
        BY <1>i, <4>1 DEF ProducersRemembered
      <4> QED BY <1>c, <1>s, <2>2, <4>2
    <3> QED BY <3>1, <3>2, BasicCounts
  <2>5. PushesCounted' /\ StopNotifies'
    <3>1. \A u \in Producers :
            produced'[u] = produced[u] /\ tried'[u] = IF u = p THEN tried[u] + 1 ELSE tried[u]
      BY <2>1, BasicType DEF BasicInv
    <3>2. PushesCounted'
      BY <1>s, <1>i, <2>1, <2>2, <3>1 DEF PushesCounted, Pushing
    <3> QED BY <1>i, <2>1, <2>2, <3>2 DEF StopNotifies
  <2> QED BY <2>1, <2>3, <2>4, <2>5 DEF BasicInv
<1>2. CASE Basic!BlockPush(p)
  <2>1. /\ pc[p] = "enter" /\ ~stopped /\ ~(Len(queue) < Capacity)
        /\ Basic!Goto(p, "wait")
        /\ UNCHANGED <<stopped, stopPc, tried, produced, got, consumed, queue>>
    BY <1>2 DEF Basic!BlockPush, Basic!MayPush, Basic!flag, Basic!loops
  <2>2. /\ Typed(pc', BasicLabels) /\ pc'[p] = "wait"
        /\ \A u \in Threads \ {p} : pc'[u] = pc[u]
        /\ N(pc', Producers, "notify") = N(pc, Producers, "notify")
        /\ \A l : N(pc', Consumers, l) = N(pc, Consumers, l)
    BY <1>c, <1>l, <2>1, BasicProducerMoves DEF Is
  <2>3. Basic!TypeOK'
    BY <2>1, <2>2, BasicType DEF BasicInv
  <2>4. Basic!NoThreadForgotten'
    <3>1. ConsumersRemembered(pc', Len(queue'))
      BY <1>c, <1>s, <1>i, <2>1, <2>2 DEF ConsumersRemembered
    <3>2. ProducersRemembered(pc', Len(queue'))
      BY <1>c, <1>s, <2>1 DEF ProducersRemembered
    <3> QED BY <3>1, <3>2, BasicCounts
  <2>5. PushesCounted' /\ StopNotifies'
    BY <1>s, <1>i, <2>1, <2>2 DEF PushesCounted, StopNotifies, Pushing
  <2> QED BY <2>1, <2>3, <2>4, <2>5 DEF BasicInv
<1>3. CASE Basic!RefusePush(p)
  <2>1. /\ pc[p] = "enter" /\ stopped
        /\ Basic!Goto(p, "idle")
        /\ UNCHANGED <<stopped, stopPc, tried, produced, got, consumed, queue>>
    BY <1>3 DEF Basic!RefusePush, Basic!flag, Basic!loops
  <2>2. /\ Typed(pc', BasicLabels) /\ pc'[p] = "idle"
        /\ \A u \in Threads \ {p} : pc'[u] = pc[u]
        /\ N(pc', Producers, "notify") = N(pc, Producers, "notify")
        /\ \A l : N(pc', Consumers, l) = N(pc, Consumers, l)
    BY <1>c, <1>l, <2>1, BasicProducerMoves DEF Is
  <2>3. Basic!TypeOK'
    BY <2>1, <2>2, BasicType DEF BasicInv
  <2>4. Basic!NoThreadForgotten'
    <3>1. ConsumersRemembered(pc', Len(queue'))
      BY <1>c, <1>s, <1>i, <2>1, <2>2 DEF ConsumersRemembered
    <3> QED BY <2>1, <3>1, BasicCounts
  <2>5. PushesCounted' /\ StopNotifies'
    BY <1>s, <1>i, <2>1, <2>2 DEF PushesCounted, StopNotifies, Pushing
  <2> QED BY <2>1, <2>3, <2>4, <2>5 DEF BasicInv
<1>4. CASE Basic!Push(p)
  <2>1. /\ pc[p] = "enter" /\ ~stopped /\ Len(queue) < Capacity
        /\ queue' = Append(queue, <<p, produced[p] + 1>>)
        /\ produced' = [produced EXCEPT ![p] = @ + 1]
        /\ Basic!Goto(p, "notify")
        /\ UNCHANGED <<stopped, stopPc, tried, got, consumed>>
    BY <1>4 DEF Basic!Push, Basic!PutLast, Basic!MayPush, Basic!flag
  <2>2. /\ Typed(pc', BasicLabels) /\ pc'[p] = "notify"
        /\ \A u \in Threads \ {p} : pc'[u] = pc[u]
        /\ N(pc', Producers, "enter") = N(pc, Producers, "enter") - 1
        /\ N(pc', Producers, "notify") = N(pc, Producers, "notify") + 1
        /\ \A l : N(pc', Consumers, l) = N(pc, Consumers, l)
    BY <1>c, <1>l, <2>1, BasicProducerMoves DEF Is
  <2>3. produced[p] < Messages
    BY <1>s, <1>i, <2>1 DEF PushesCounted, Pushing
  <2>4. queue' \in Seq(Message) /\ Len(queue') = Len(queue) + 1
    <3>1. <<p, produced[p] + 1>> \in Message
      BY <1>s, <2>3 DEF Message
    <3> QED BY <2>1, <3>1, BasicType DEF BasicInv
  <2>5. Basic!TypeOK'
    <3>1. produced' \in [Producers -> 0..Messages]
      BY <1>s, <2>1, <2>3, BasicType DEF BasicInv
    <3> QED BY <2>1, <2>2, <2>4, <3>1, BasicType DEF BasicInv
  <2>6. Basic!NoThreadForgotten'
    <3>0. Len(queue') = Len(queue) + 1 /\ ~stopped
      BY <2>1, <2>4
    <3>1. ConsumersRemembered(pc', Len(queue'))
      <4> SUFFICES ASSUME NEW u \in Consumers, pc'[u] = "wait"
                   PROVE  Len(queue') <= N(pc', Consumers, "enter")
                                         + N(pc', Producers, "notify")
        BY DEF ConsumersRemembered
      <4>1. pc[u] = "wait"
        BY <2>2
      <4>2. Len(queue) <= N(pc, Consumers, "enter") + N(pc, Producers, "notify")
        BY <1>i, <4>1 DEF ConsumersRemembered
      <4> QED BY <1>c, <1>s, <2>2, <3>0, <4>2
    <3>2. ProducersRemembered(pc', Len(queue'))
      <4> SUFFICES ASSUME NEW u \in Producers, pc'[u] = "wait"
                   PROVE  Capacity - Len(queue') <= N(pc', Producers, "enter")
                                                    + N(pc', Consumers, "notify")
        BY DEF ProducersRemembered
      <4>1. pc[u] = "wait"
        BY <2>2
      <4>2. Capacity - Len(queue) <= N(pc, Producers, "enter")
                                     + N(pc, Consumers, "notify")
        BY <1>i, <3>0, <4>1 DEF ProducersRemembered
      <4> QED BY <1>c, <1>s, <2>2, <3>0, <4>2
    <3> QED BY <3>1, <3>2, BasicCounts
  <2>7. PushesCounted' /\ StopNotifies'
    <3>1. \A u \in Producers :
            tried'[u] = tried[u] /\ produced'[u] = IF u = p THEN produced[u] + 1 ELSE produced[u]
      BY <2>1, BasicType DEF BasicInv
    <3>2. PushesCounted'
      BY <1>s, <1>i, <2>1, <2>2, <3>1 DEF PushesCounted, Pushing
    <3> QED BY <1>i, <2>1, <2>2, <3>2 DEF StopNotifies
  <2>8. Len(queue') <= Capacity
    BY <1>s, <2>1, <2>4
  <2> QED BY <2>5, <2>6, <2>7, <2>8 DEF BasicInv
<1>5. CASE Basic!NotifyNotEmpty(p)
  <2>1. /\ pc[p] = "notify"
        /\ \/ Waiting(Consumers) = {} /\ Goto(p, "idle")
           \/ \E w \in Waiting(Consumers) : pc' = [pc EXCEPT ![p] = "idle", ![w] = "enter"]
        /\ UNCHANGED <<stopped, stopPc, tried, produced, got, consumed, queue>>
    BY <1>5 DEF Basic!NotifyNotEmpty, Basic!NotifyOne, Basic!flag, Basic!Waiting,
                Basic!InState, Waiting, InState, Basic!Goto, Goto
  <2>2. Typed(pc, BasicLabels)
    BY BasicType DEF BasicInv
  <2>3. /\ Typed(pc', BasicLabels) /\ pc'[p] = "idle"
        /\ \A u \in Threads \ {p} :
             pc'[u] = pc[u] \/ (u \in Consumers /\ pc[u] = "wait" /\ pc'[u] = "enter")
        /\ \A l : N(pc', Producers, l) =
                    N(pc, Producers, l) + Is("idle", l) - Is("notify", l)
        /\ \A l : l # "enter" /\ l # "wait" => N(pc', Consumers, l) = N(pc, Consumers, l)
        /\ \/ /\ Waiting(Consumers)' = {}
              /\ N(pc', Consumers, "enter") = N(pc, Consumers, "enter")
           \/ N(pc', Consumers, "enter") = N(pc, Consumers, "enter") + 1
    BY <1>l, <2>1, <2>2, Notifies
  <2>4. Basic!TypeOK'
    BY <2>1, <2>3, BasicType DEF BasicInv
  <2>5. Basic!NoThreadForgotten'
    <3>0. /\ N(pc', Producers, "notify") = N(pc, Producers, "notify") - 1
          /\ N(pc', Producers, "enter") = N(pc, Producers, "enter")
          /\ N(pc', Consumers, "notify") = N(pc, Consumers, "notify")
      BY <1>c, <2>3 DEF Is
    <3>1. ConsumersRemembered(pc', Len(queue'))
      BY SMTT(60), <1>c, <1>s, <1>i, <2>1, <2>3, <3>0 DEF ConsumersRemembered, Waiting, InState
    <3>2. stopped' \/ ProducersRemembered(pc', Len(queue'))
      BY <1>c, <1>s, <1>i, <2>1, <2>3, <3>0 DEF ProducersRemembered
    <3> QED BY <3>1, <3>2, BasicCounts
  <2>6. PushesCounted' /\ StopNotifies'
    BY <1>s, <1>i, <2>1, <2>3 DEF PushesCounted, StopNotifies, Pushing
  <2> QED BY <2>1, <2>4, <2>5, <2>6 DEF BasicInv
<1> QED BY <1>1, <1>2, <1>3, <1>4, <1>5 DEF Basic!ProducerStep

\* What a step may do to the counts on the way to the mutex.
LEMMA ConsumersKept ==
  ASSUME ConsumersRemembered(pc, Len(queue)),
         Len(queue) \in Nat, Len(queue') \in Nat,
         \A c \in Consumers : pc'[c] = "wait" => pc[c] = "wait",
         Len(queue') - Len(queue)
           <= N(pc', Consumers, "enter") - N(pc, Consumers, "enter")
              + N(pc', Producers, "notify") - N(pc, Producers, "notify")
  PROVE  ConsumersRemembered(pc', Len(queue'))
<1> SUFFICES ASSUME NEW c \in Consumers, pc'[c] = "wait"
             PROVE  Len(queue') <= N(pc', Consumers, "enter")
                                   + N(pc', Producers, "notify")
  BY DEF ConsumersRemembered
<1>1. Len(queue) <= N(pc, Consumers, "enter") + N(pc, Producers, "notify")
  BY DEF ConsumersRemembered
<1>2. \A side \in Sides : \A q, l : N(q, side, l) \in Nat
  BY CountType
<1> QED BY <1>1, <1>2, BothSides

LEMMA ProducersKept ==
  ASSUME ProducersRemembered(pc, Len(queue)),
         Len(queue) \in Nat, Len(queue') \in Nat,
         \A t \in Producers : pc'[t] = "wait" => pc[t] = "wait",
         Len(queue) - Len(queue')
           <= N(pc', Producers, "enter") - N(pc, Producers, "enter")
              + N(pc', Consumers, "notify") - N(pc, Consumers, "notify")
  PROVE  ProducersRemembered(pc', Len(queue'))
<1> SUFFICES ASSUME NEW t \in Producers, pc'[t] = "wait"
             PROVE  Capacity - Len(queue') <= N(pc', Producers, "enter")
                                              + N(pc', Consumers, "notify")
  BY DEF ProducersRemembered
<1>1. Capacity - Len(queue) <= N(pc, Producers, "enter") + N(pc, Consumers, "notify")
  BY DEF ProducersRemembered
<1>2. \A side \in Sides : \A q, l : N(q, side, l) \in Nat
  BY CountType
<1> QED BY <1>1, <1>2, BothSides, CapacityAssumption

\* A step that leaves the producers and the flag alone.
LEMMA ProducersLeftAlone ==
  ASSUME PushesCounted, StopNotifies,
         UNCHANGED <<stopped, stopPc, tried, produced>>,
         \A p \in Producers : pc'[p] = pc[p] \/ (pc[p] = "wait" /\ pc'[p] = "enter"),
         \A c \in Consumers :
           pc'[c] = "wait" => pc[c] = "wait" \/ ~stopped
  PROVE  PushesCounted' /\ StopNotifies'
BY DEF PushesCounted, StopNotifies, Pushing

LEMMA BasicConsumerStep ==
  ASSUME BasicInv, NEW c \in Consumers, Basic!ConsumerStep(c)
  PROVE  BasicInv'
<1>c. \A side \in Sides : \A q, l : N(q, side, l) \in Nat
  BY CountType
<1>s. /\ Len(queue) \in Nat /\ Len(queue) <= Capacity /\ Capacity \in Nat
      /\ queue \in Seq(Message)
  BY LengthType, BasicType DEF BasicInv
<1>i. /\ PushesCounted /\ StopNotifies
      /\ ConsumersRemembered(pc, Len(queue))
      /\ stopped \/ ProducersRemembered(pc, Len(queue))
  BY BasicCounts DEF BasicInv
<1>l. BasicLabels = {"enter", "idle", "wait", "notify"}
  BY DEF BasicLabels
<1> USE BothSides
<1>1. CASE Basic!CallPop(c)
  <2>1. /\ pc[c] = "idle" /\ Basic!Goto(c, "enter")
        /\ UNCHANGED <<stopped, stopPc, tried, produced, got, consumed, queue>>
    BY <1>1 DEF Basic!CallPop, Basic!BeginPop, Basic!flag, Basic!loops
  <2>2. /\ Typed(pc', BasicLabels) /\ pc'[c] = "enter"
        /\ \A u \in Threads \ {c} : pc'[u] = pc[u]
        /\ N(pc', Consumers, "enter") = N(pc, Consumers, "enter") + 1
        /\ N(pc', Consumers, "notify") = N(pc, Consumers, "notify")
        /\ \A l : N(pc', Producers, l) = N(pc, Producers, l)
    BY <1>c, <1>l, <2>1, BasicConsumerMoves DEF Is
  <2>3. Basic!TypeOK'
    BY <2>1, <2>2, BasicType DEF BasicInv
  <2>4. Basic!NoThreadForgotten'
    <3>1. ConsumersRemembered(pc', Len(queue'))
      BY <1>c, <1>s, <1>i, <2>1, <2>2, ConsumersKept
    <3>2. stopped' \/ ProducersRemembered(pc', Len(queue'))
      BY <1>c, <1>s, <1>i, <2>1, <2>2, ProducersKept
    <3> QED BY <3>1, <3>2, BasicCounts
  <2>5. PushesCounted' /\ StopNotifies'
    BY <1>i, <2>1, <2>2, ProducersLeftAlone
  <2> QED BY <1>s, <2>1, <2>3, <2>4, <2>5 DEF BasicInv
<1>2. CASE Basic!BlockPop(c)
  <2>1. /\ pc[c] = "enter" /\ ~stopped /\ queue = <<>>
        /\ Basic!Goto(c, "wait")
        /\ UNCHANGED <<stopped, stopPc, tried, produced, got, consumed, queue>>
    BY <1>2 DEF Basic!BlockPop, Basic!MayPop, Basic!flag, Basic!loops
  <2>2. /\ Typed(pc', BasicLabels) /\ pc'[c] = "wait"
        /\ \A u \in Threads \ {c} : pc'[u] = pc[u]
        /\ N(pc', Consumers, "notify") = N(pc, Consumers, "notify")
        /\ \A l : N(pc', Producers, l) = N(pc, Producers, l)
    BY <1>c, <1>l, <2>1, BasicConsumerMoves DEF Is
  <2>3. Basic!TypeOK'
    BY <2>1, <2>2, BasicType DEF BasicInv
  <2>4. Basic!NoThreadForgotten'
    <3>1. ConsumersRemembered(pc', Len(queue'))
      BY <1>c, <2>1 DEF ConsumersRemembered
    <3>2. stopped' \/ ProducersRemembered(pc', Len(queue'))
      BY <1>c, <1>s, <1>i, <2>1, <2>2, ProducersKept
    <3> QED BY <3>1, <3>2, BasicCounts
  <2>5. PushesCounted' /\ StopNotifies'
    BY <1>i, <2>1, <2>2, ProducersLeftAlone
  <2> QED BY <1>s, <2>1, <2>3, <2>4, <2>5 DEF BasicInv
<1>3. CASE Basic!RefusePop(c)
  <2>1. /\ pc[c] = "enter" /\ stopped /\ queue = <<>>
        /\ Basic!Goto(c, "idle")
        /\ UNCHANGED <<stopped, stopPc, tried, produced, got, consumed, queue>>
    BY <1>3 DEF Basic!RefusePop, Basic!flag, Basic!loops
  <2>2. /\ Typed(pc', BasicLabels) /\ pc'[c] = "idle"
        /\ \A u \in Threads \ {c} : pc'[u] = pc[u]
    BY <1>c, <1>l, <2>1, BasicConsumerMoves DEF Is
  <2>3. Basic!TypeOK'
    BY <2>1, <2>2, BasicType DEF BasicInv
  <2>4. Basic!NoThreadForgotten'
    <3>1. ConsumersRemembered(pc', Len(queue'))
      BY <1>c, <2>1 DEF ConsumersRemembered
    <3> QED BY <2>1, <3>1, BasicCounts
  <2>5. PushesCounted' /\ StopNotifies'
    BY <1>i, <2>1, <2>2, ProducersLeftAlone
  <2> QED BY <1>s, <2>1, <2>3, <2>4, <2>5 DEF BasicInv
<1>4. CASE Basic!Pop(c)
  <2>1. /\ pc[c] = "enter" /\ queue # <<>>
        /\ got' = [got EXCEPT ![c] = Append(@, Head(queue))]
        /\ queue' = Tail(queue)
        /\ Basic!Goto(c, "notify")
        /\ UNCHANGED <<stopped, stopPc, tried, produced, consumed>>
    BY <1>4 DEF Basic!Pop, Basic!TakeFirst, Basic!flag
  <2>2. /\ Typed(pc', BasicLabels) /\ pc'[c] = "notify"
        /\ \A u \in Threads \ {c} : pc'[u] = pc[u]
        /\ N(pc', Consumers, "enter") = N(pc, Consumers, "enter") - 1
        /\ N(pc', Consumers, "notify") = N(pc, Consumers, "notify") + 1
        /\ \A l : N(pc', Producers, l) = N(pc, Producers, l)
    BY <1>c, <1>l, <2>1, BasicConsumerMoves DEF Is
  <2>3. /\ queue' \in Seq(Message) /\ Len(queue') = Len(queue) - 1
        /\ Len(queue') \in Nat /\ Head(queue) \in Message
    BY <1>s, <2>1
  <2>4. Basic!TypeOK'
    <3>1. got' \in [Consumers -> Seq(Message)]
      <4>1. got \in [Consumers -> Seq(Message)]
        BY BasicType DEF BasicInv
      <4>2. Append(got[c], Head(queue)) \in Seq(Message)
        BY <2>3, <4>1
      <4> QED BY <2>1, <4>1, <4>2
    <3> QED BY <2>1, <2>2, <2>3, <3>1, BasicType DEF BasicInv
  <2>5. Basic!NoThreadForgotten'
    <3>1. ConsumersRemembered(pc', Len(queue'))
      BY <1>c, <1>s, <1>i, <2>2, <2>3, ConsumersKept
    <3>2. stopped' \/ ProducersRemembered(pc', Len(queue'))
      BY <1>c, <1>s, <1>i, <2>1, <2>2, <2>3, ProducersKept
    <3> QED BY <3>1, <3>2, BasicCounts
  <2>6. PushesCounted' /\ StopNotifies'
    BY <1>i, <2>1, <2>2, ProducersLeftAlone
  <2> QED BY <1>s, <2>3, <2>4, <2>5, <2>6 DEF BasicInv
<1>5. CASE Basic!NotifyNotFull(c)
  <2>1. /\ pc[c] = "notify"
        /\ \/ Waiting(Producers) = {} /\ Goto(c, "idle")
           \/ \E w \in Waiting(Producers) : pc' = [pc EXCEPT ![c] = "idle", ![w] = "enter"]
        /\ consumed' = consumed + 1
        /\ UNCHANGED <<stopped, stopPc, tried, produced, got, queue>>
    BY <1>5 DEF Basic!NotifyNotFull, Basic!NotifyOne, Basic!flag, Basic!Waiting,
                Basic!InState, Waiting, InState, Basic!Goto, Goto
  <2>2. Typed(pc, BasicLabels)
    BY BasicType DEF BasicInv
  <2>3. /\ Typed(pc', BasicLabels) /\ pc'[c] = "idle"
        /\ \A u \in Threads \ {c} :
             pc'[u] = pc[u] \/ (u \in Producers /\ pc[u] = "wait" /\ pc'[u] = "enter")
        /\ \A l : N(pc', Consumers, l) =
                    N(pc, Consumers, l) + Is("idle", l) - Is("notify", l)
        /\ \A l : l # "enter" /\ l # "wait" => N(pc', Producers, l) = N(pc, Producers, l)
        /\ \/ /\ Waiting(Producers)' = {}
              /\ N(pc', Producers, "enter") = N(pc, Producers, "enter")
           \/ N(pc', Producers, "enter") = N(pc, Producers, "enter") + 1
    BY <1>l, <2>1, <2>2, Notifies
  <2>4. Basic!TypeOK'
    BY <2>1, <2>3, BasicType DEF BasicInv
  <2>5. Basic!NoThreadForgotten'
    <3>0. /\ N(pc', Consumers, "notify") = N(pc, Consumers, "notify") - 1
          /\ N(pc', Consumers, "enter") = N(pc, Consumers, "enter")
          /\ N(pc', Producers, "notify") = N(pc, Producers, "notify")
      BY <1>c, <2>3 DEF Is
    <3>1. ConsumersRemembered(pc', Len(queue'))
      BY <1>c, <1>s, <1>i, <2>1, <2>3, <3>0, ConsumersKept
    <3>2. stopped' \/ ProducersRemembered(pc', Len(queue'))
      <4>1. CASE Waiting(Producers)' = {}
        BY <4>1 DEF ProducersRemembered, Waiting, InState
      <4>2. CASE N(pc', Producers, "enter") = N(pc, Producers, "enter") + 1
        BY <1>c, <1>s, <1>i, <2>1, <2>3, <3>0, <4>2, ProducersKept
      <4> QED BY <2>3, <4>1, <4>2
    <3> QED BY <3>1, <3>2, BasicCounts
  <2>6. PushesCounted' /\ StopNotifies'
    BY <1>i, <2>1, <2>3, ProducersLeftAlone
  <2> QED BY <1>s, <2>1, <2>4, <2>5, <2>6 DEF BasicInv
<1> QED BY <1>1, <1>2, <1>3, <1>4, <1>5 DEF Basic!ConsumerStep

\* A step of stop, or a wake-up: sleepers of a side go to the mutex.
LEMMA BasicWakes ==
  ASSUME BasicInv,
         UNCHANGED <<stopped, tried, produced, got, consumed, queue>>,
         stopPc' \in {"idle", "notFull", "notEmpty", "done"},
         pc' \in [Threads -> BasicLabels],
         \A t \in Threads : pc'[t] = pc[t] \/ (pc[t] = "wait" /\ pc'[t] = "enter"),
         StopNotifies'
  PROVE  BasicInv'
<1>c. \A side \in Sides : \A q, l : N(q, side, l) \in Nat
  BY CountType
<1>s. /\ Len(queue) \in Nat /\ Len(queue) <= Capacity /\ Capacity \in Nat
  BY LengthType DEF BasicInv
<1>i. /\ PushesCounted
      /\ ConsumersRemembered(pc, Len(queue))
      /\ stopped \/ ProducersRemembered(pc, Len(queue))
  BY BasicCounts DEF BasicInv
<1> USE BothSides
<1>1. Basic!TypeOK'
  BY BasicType DEF BasicInv, Typed
<1>2. \A side \in Sides : /\ N(pc, side, "enter") <= N(pc', side, "enter")
                          /\ N(pc, side, "notify") <= N(pc', side, "notify")
  BY CountGrows, SidesFinite
<1>3. ConsumersRemembered(pc', Len(queue'))
  BY <1>c, <1>s, <1>i, <1>2, ConsumersKept
<1>4. stopped' \/ ProducersRemembered(pc', Len(queue'))
  BY <1>c, <1>s, <1>i, <1>2, ProducersKept
<1>5. PushesCounted'
  BY <1>i, PushesKept DEF Pushing
<1> QED BY <1>s, <1>1, <1>3, <1>4, <1>5, BasicCounts DEF BasicInv

LEMMA BasicOtherSteps ==
  ASSUME BasicInv,
         \/ Basic!SetStopped \/ Basic!StopStep
         \/ \E t \in Threads : Basic!WakeSpuriously(t)
  PROVE  BasicInv'
<1>1. /\ Typed(pc, BasicLabels) /\ StopNotifies
      /\ stopPc \in {"idle", "notFull", "notEmpty", "done"}
      /\ stopped \in BOOLEAN
  BY BasicType DEF BasicInv
<1> USE BothSides DEF BasicLabels
<1>2. CASE Basic!SetStopped
  <2>1. /\ stopPc = "idle" /\ stopped' = TRUE /\ stopPc' = "notFull"
        /\ UNCHANGED <<pc, tried, produced, got, consumed, queue>>
    BY <1>2 DEF Basic!SetStopped, Basic!BeginStop, Basic!loops
  <2>2. Basic!TypeOK'
    BY <2>1, BasicType DEF BasicInv
  <2>3. Basic!NoThreadForgotten'
    BY <2>1, BasicCounts DEF BasicInv
  <2>4. PushesCounted' /\ StopNotifies'
    BY <2>1 DEF BasicInv, PushesCounted, StopNotifies
  <2> QED BY <2>1, <2>2, <2>3, <2>4 DEF BasicInv
<1>3. CASE Basic!StopNotFull
  <2>1. /\ stopPc = "notFull" /\ stopPc' = "notEmpty"
        /\ pc' = [t \in Threads |-> IF t \in Producers /\ pc[t] = "wait"
                                    THEN "enter" ELSE pc[t]]
        /\ UNCHANGED <<stopped, tried, produced, got, consumed, queue>>
    BY <1>3 DEF Basic!StopNotFull, Basic!NotifyAll, Basic!loops, Basic!Threads,
                Threads, Basic!Waiting, Basic!InState
  <2>2. StopNotifies'
    BY <1>1, <2>1 DEF StopNotifies
  <2> QED BY <1>1, <2>1, <2>2, BasicWakes DEF Typed
<1>4. CASE Basic!StopNotEmpty
  <2>1. /\ stopPc = "notEmpty" /\ stopPc' = "done"
        /\ pc' = [t \in Threads |-> IF t \in Consumers /\ pc[t] = "wait"
                                    THEN "enter" ELSE pc[t]]
        /\ UNCHANGED <<stopped, tried, produced, got, consumed, queue>>
    BY <1>4 DEF Basic!StopNotEmpty, Basic!NotifyAll, Basic!loops, Basic!Threads,
                Threads, Basic!Waiting, Basic!InState
  <2>2. StopNotifies'
    BY <1>1, <2>1 DEF StopNotifies
  <2> QED BY <1>1, <2>1, <2>2, BasicWakes DEF Typed
<1>5. ASSUME NEW t \in Threads, Basic!WakeSpuriously(t) PROVE BasicInv'
  <2>1. /\ pc[t] = "wait" /\ pc' = [pc EXCEPT ![t] = "enter"]
        /\ UNCHANGED <<stopped, stopPc, tried, produced, got, consumed, queue>>
    BY <1>5 DEF Basic!WakeSpuriously, Basic!Wake, Basic!loops, Basic!flag, Basic!Goto
  <2>2. StopNotifies'
    BY <1>1, <2>1 DEF StopNotifies, Typed
  <2> QED BY <1>1, <2>1, <2>2, BasicWakes DEF Typed
<1> QED BY <1>2, <1>3, <1>4, <1>5 DEF Basic!StopStep

LEMMA BasicNext == ASSUME BasicInv, Basic!Next PROVE BasicInv'
BY BasicProducerStep, BasicConsumerStep, BasicOtherSteps
DEF Basic!Next, Basic!Threads, Threads

-----------------------------------------------------------------------------
(* SplitLockQueue *)

\* The threads between the lock of their side's mutex and the unlock.
Holding == {"test", "sleep", "check", "access", "count"}

MutexesHeld ==
  /\ \A p \in Producers : pc[p] \in Holding <=> tailMtx = p
  /\ \A c \in Consumers : pc[c] \in Holding <=> headMtx = c

\* What a thread found when it tested the size is still so.
SizesTested ==
  /\ \A p \in Producers : pc[p] = "check" => stopped \/ size < Capacity
  /\ \A p \in Producers : pc[p] \in {"access", "count"} => size < Capacity
  /\ \A c \in Consumers : pc[c] \in {"access", "count"} => size > 0

\* A message is in the ring from Write on, and counted by CountPush; it is
\* out from Read on, and counted by CountPop.
Counting(side) == IF \E t \in side : pc[t] = "count" THEN 1 ELSE 0
Filled == size - Counting(Consumers) + Counting(Producers)
Place(k) == (head + k) % Capacity

Contents ==
  /\ tail = Place(Filled)
  /\ \A k \in 0..(Filled - 1) : buffer[Place(k)] \in Message
  /\ \A c \in Consumers : pc[c] = "count" => out[c] \in Message
  /\ \A p \in Producers :
       pc[p] = "count" => buffer[Place(Filled - 1)] = <<p, produced[p] + 1>>

SplitInv == Split!TypeOK /\ PushesCounted /\ MutexesHeld /\ SizesTested /\ Contents

SplitLabels == {"lock", "test", "sleep", "check", "access", "count",
                "idle", "wait", "notify"}

LEMMA SplitType ==
  /\ Split!TypeOK <=>
       /\ stopped \in BOOLEAN
       /\ stopPc \in {"idle", "notFull", "notEmpty", "done"}
       /\ Typed(pc, SplitLabels)
       /\ tried \in [Producers -> 0..Messages]
       /\ produced \in [Producers -> 0..Messages]
       /\ got \in [Consumers -> Seq(Message)]
       /\ consumed \in Nat
       /\ buffer \in [0..(Capacity - 1) -> Message \cup {Nothing}]
       /\ size \in 0..Capacity
       /\ head \in 0..(Capacity - 1) /\ tail \in 0..(Capacity - 1)
       /\ headMtx \in Consumers \cup {Nobody}
       /\ tailMtx \in Producers \cup {Nobody}
       /\ out \in [Consumers -> Message \cup {Nothing}]
  /\ Split!TypeOK' <=>
       /\ stopped' \in BOOLEAN
       /\ stopPc' \in {"idle", "notFull", "notEmpty", "done"}
       /\ Typed(pc', SplitLabels)
       /\ tried' \in [Producers -> 0..Messages]
       /\ produced' \in [Producers -> 0..Messages]
       /\ got' \in [Consumers -> Seq(Message)]
       /\ consumed' \in Nat
       /\ buffer' \in [0..(Capacity - 1) -> Message \cup {Nothing}]
       /\ size' \in 0..Capacity
       /\ head' \in 0..(Capacity - 1) /\ tail' \in 0..(Capacity - 1)
       /\ headMtx' \in Consumers \cup {Nobody}
       /\ tailMtx' \in Producers \cup {Nobody}
       /\ out' \in [Consumers -> Message \cup {Nothing}]
BY DEF Split!TypeOK, Split!ClientsTypeOK, Split!Threads, Threads, Typed,
       SplitLabels, Split!Message, Message

\* The places of a ring that is Capacity long.
LEMMA Places ==
  ASSUME head \in 0..(Capacity - 1)
  PROVE  /\ Place(0) = head
         /\ \A k \in Nat : Place(k) \in 0..(Capacity - 1)
         /\ \A k \in Nat : Split!NextIndex(Place(k)) = Place(k + 1)
         /\ \A j, k \in Nat : j < k /\ k < j + Capacity => Place(j) # Place(k)
         /\ \A k \in Nat : (Split!NextIndex(head) + k) % Capacity = Place(k + 1)
<1> USE CapacityAssumption
<1>1. head \in Nat
  OBVIOUS
<1>2. Place(0) = head
  BY FirstLap DEF Place
<1>3. \A k \in Nat : Place(k) \in 0..(Capacity - 1)
  BY <1>1, CellInRing DEF Place
<1>4. ASSUME NEW k \in Nat PROVE Split!NextIndex(Place(k)) = Place(k + 1)
  <2>1. head + k \in Nat /\ 1 \in Nat /\ (head + k) + 1 = head + (k + 1)
    BY <1>1
  <2>2. (((head + k) % Capacity) + 1) % Capacity = ((head + k) + 1) % Capacity
    BY <2>1, WrapThenAdd
  <2> QED BY <2>1, <2>2 DEF Place, Split!NextIndex
<1>5. ASSUME NEW j \in Nat, NEW k \in Nat, j < k, k < j + Capacity
      PROVE  Place(j) # Place(k)
  <2> SUFFICES ASSUME (head + j) % Capacity = (head + k) % Capacity PROVE FALSE
    BY DEF Place
  <2>1. head + j \in Nat /\ head + k \in Nat /\ head + j < head + k
    BY <1>1, <1>5
  <2>2. head + k >= head + j + Capacity
    BY <2>1, SameCellLapApart
  <2> QED BY <1>1, <1>5, <2>2
<1>6. ASSUME NEW k \in Nat
      PROVE  (Split!NextIndex(head) + k) % Capacity = Place(k + 1)
  <2>1. head + 1 \in Nat /\ (head + 1) + k = head + (k + 1)
    BY <1>1
  <2>2. (((head + 1) % Capacity) + k) % Capacity = ((head + 1) + k) % Capacity
    BY <2>1, WrapThenAdd
  <2> QED BY <2>1, <2>2 DEF Place, Split!NextIndex
<1> QED BY <1>2, <1>3, <1>4, <1>5, <1>6

LEMMA SplitInit == Split!Constructed => SplitInv
<1> SUFFICES ASSUME Split!Constructed PROVE SplitInv
  OBVIOUS
<1> USE CapacityAssumption DEF Split!Constructed, Split!Init
<1>1. Split!TypeOK
  <2>1. Typed(pc, SplitLabels)
    BY DEF Typed, SplitLabels, Split!Threads, Threads
  <2>2. /\ tried \in [Producers -> 0..Messages]
        /\ produced \in [Producers -> 0..Messages]
        /\ got \in [Consumers -> Seq(Message)]
    BY MessagesAssumption
  <2>3. /\ buffer \in [0..(Capacity - 1) -> Message \cup {Nothing}]
        /\ size \in 0..Capacity
        /\ head \in 0..(Capacity - 1) /\ tail \in 0..(Capacity - 1)
        /\ headMtx = Nobody /\ tailMtx = Nobody
        /\ out \in [Consumers -> Message \cup {Nothing}]
    OBVIOUS
  <2>4. stopped = FALSE /\ stopPc = "idle" /\ consumed = 0
    OBVIOUS
  <2> HIDE DEF Split!Constructed, Split!Init
  <2> QED BY <2>1, <2>2, <2>3, <2>4, SplitType
<1>2. \A t \in Threads : pc[t] = "idle"
  BY DEF Split!Threads, Threads
<1>3. PushesCounted /\ MutexesHeld /\ SizesTested
  BY <1>2, BothSides, NobodyAssumption
  DEF PushesCounted, Pushing, MutexesHeld, SizesTested, Holding
<1>4. Contents
  <2>1. Counting(Consumers) = 0 /\ Counting(Producers) = 0
    BY <1>2, BothSides DEF Counting
  <2>2. Filled = 0
    BY <2>1 DEF Filled
  <2>3. tail = Place(Filled)
    BY <2>2, Places
  <2> QED BY <1>2, <2>2, <2>3, BothSides DEF Contents
<1> QED BY <1>1, <1>3, <1>4 DEF SplitInv

\* A step that leaves the ring alone and counts nothing.
LEMMA ContentsKept ==
  ASSUME Contents, UNCHANGED <<buffer, size, head, tail, out, produced>>,
         \A t \in Threads : pc'[t] = "count" <=> pc[t] = "count"
  PROVE  Contents'
<1>1. Counting(Consumers)' = Counting(Consumers) /\ Counting(Producers)' = Counting(Producers)
  BY BothSides DEF Counting
<1>2. Filled' = Filled
  BY <1>1 DEF Filled
<1> QED BY <1>2, BothSides DEF Contents, Place

\* The thread that counts holds its side's mutex, and there is only one.
LEMMA OneCounts ==
  ASSUME MutexesHeld
  PROVE  /\ \A p \in Producers : pc[p] \in Holding =>
              \A u \in Producers \ {p} : pc[u] \notin Holding
         /\ \A c \in Consumers : pc[c] \in Holding =>
              \A u \in Consumers \ {c} : pc[u] \notin Holding
BY DEF MutexesHeld

LEMMA FilledType ==
  ASSUME SplitInv
  PROVE  /\ Filled \in 0..Capacity
         /\ size \in Nat /\ size <= Capacity /\ Capacity \in Nat \ {0}
         /\ head \in 0..(Capacity - 1)
         /\ Counting(Consumers) \in {0, 1} /\ Counting(Producers) \in {0, 1}
         /\ Counting(Consumers) = 1 => size > 0
         /\ Counting(Producers) = 1 => size < Capacity
<1>1. size \in Nat /\ size <= Capacity /\ Capacity \in Nat \ {0} /\ head \in 0..(Capacity - 1)
  BY SplitType, CapacityAssumption DEF SplitInv
<1>2. /\ Counting(Consumers) \in {0, 1} /\ Counting(Producers) \in {0, 1}
      /\ Counting(Consumers) = 1 => size > 0
      /\ Counting(Producers) = 1 => size < Capacity
  BY DEF SplitInv, SizesTested, Counting
<1> QED BY <1>1, <1>2 DEF Filled

\* One thread moves.
LEMMA SplitMoves ==
  ASSUME SplitInv, NEW t \in Threads, NEW label \in SplitLabels, Split!Goto(t, label)
  PROVE  /\ Typed(pc', SplitLabels)
         /\ pc'[t] = label
         /\ \A u \in Threads \ {t} : pc'[u] = pc[u]
BY SplitType DEF SplitInv, Typed, Split!Goto

\* A step between the calls of a push, or to and from sleep, or a test.
LEMMA SplitQuietPush ==
  ASSUME SplitInv, NEW p \in Producers,
         \/ Split!CallPush(p) \/ Split!LockTail(p) \/ Split!TestNotFull(p)
         \/ Split!SleepNotFull(p) \/ Split!RefusePush(p) \/ Split!AcceptPush(p)
  PROVE  SplitInv'
<1>l. SplitLabels = {"lock", "test", "sleep", "check", "access", "count",
                     "idle", "wait", "notify"}
  BY DEF SplitLabels
<1>s. /\ \A u \in Producers : tried[u] \in Nat /\ produced[u] \in Nat
      /\ size \in Nat /\ Capacity \in Nat /\ Messages \in Nat
      /\ tried \in [Producers -> 0..Messages]
      /\ stopped \in BOOLEAN /\ tailMtx \in Producers \cup {Nobody}
  BY SMTT(60), SplitType, MessagesAssumption, CapacityAssumption DEF SplitInv
<1>i. PushesCounted /\ MutexesHeld /\ SizesTested /\ Contents
  BY DEF SplitInv
<1>t. p \in Threads /\ p \notin Consumers /\ p # Nobody
      /\ Producers \subseteq Threads /\ Consumers \subseteq Threads
      /\ \A c \in Consumers : c \notin Producers
  BY BothSides, NobodyAssumption DEF Threads
<1>1. CASE Split!CallPush(p)
  <2>1. /\ pc[p] = "idle" /\ tried[p] < Messages
        /\ tried' = [tried EXCEPT ![p] = @ + 1]
        /\ Split!Goto(p, "lock")
        /\ UNCHANGED <<stopped, stopPc, produced, got, consumed, buffer, size,
                       head, tail, headMtx, tailMtx, out>>
    BY <1>1 DEF Split!CallPush, Split!BeginPush, Split!flag, Split!members, Split!ring
  <2>2. Typed(pc', SplitLabels) /\ pc'[p] = "lock" /\ \A u \in Threads \ {p} : pc'[u] = pc[u]
    BY <1>l, <1>t, <2>1, SplitMoves
  <2>3. tried' \in [Producers -> 0..Messages]
    BY <1>s, <2>1
  <2>4. Split!TypeOK'
    BY <2>1, <2>2, <2>3, SplitType DEF SplitInv
  <2>5. PushesCounted'
    <3>1. \A u \in Producers : tried'[u] = IF u = p THEN tried[u] + 1 ELSE tried[u]
      BY <1>s, <2>1
    <3> QED BY <1>s, <1>i, <1>t, <2>1, <2>2, <3>1 DEF PushesCounted, Pushing
  <2>6. MutexesHeld' /\ SizesTested'
    BY <1>i, <1>t, <2>1, <2>2 DEF MutexesHeld, SizesTested, Holding
  <2>7. Contents'
    BY <1>i, <2>1, <2>2, ContentsKept
  <2> QED BY <2>4, <2>5, <2>6, <2>7 DEF SplitInv
<1>2. CASE Split!LockTail(p)
  <2>1. /\ pc[p] = "lock" /\ tailMtx = Nobody /\ tailMtx' = p
        /\ Split!Goto(p, "test")
        /\ UNCHANGED <<stopped, stopPc, tried, produced, got, consumed, buffer,
                       size, head, tail, headMtx, out>>
    BY <1>2 DEF Split!LockTail, Split!flag, Split!loops, Split!ring
  <2>2. Typed(pc', SplitLabels) /\ pc'[p] = "test" /\ \A u \in Threads \ {p} : pc'[u] = pc[u]
    BY <1>l, <1>t, <2>1, SplitMoves
  <2>3. Split!TypeOK'
    BY <2>1, <2>2, SplitType DEF SplitInv
  <2>4. PushesCounted'
    BY <1>i, <1>t, <2>1, <2>2, PushesKept DEF Pushing
  <2>5. MutexesHeld' /\ SizesTested'
    BY <1>i, <1>t, <2>1, <2>2, NobodyAssumption DEF MutexesHeld, SizesTested, Holding
  <2>6. Contents'
    BY <1>i, <2>1, <2>2, ContentsKept
  <2> QED BY <2>3, <2>4, <2>5, <2>6 DEF SplitInv
<1>3. CASE Split!TestNotFull(p) \/ Split!AcceptPush(p)
  <2>1. /\ UNCHANGED <<stopped, stopPc, tried, produced, got, consumed, buffer,
                       size, head, tail, headMtx, tailMtx, out>>
        /\ \E label \in {"check", "sleep", "access"} :
             /\ Split!Goto(p, label)
             /\ pc[p] \in {"test", "check"}
             /\ label = "check" => stopped \/ size < Capacity
             /\ label = "access" => pc[p] = "check" /\ ~stopped
    BY <1>3 DEF Split!TestNotFull, Split!AcceptPush, Split!flag, Split!loops,
                Split!members, Split!ring
  <2>2. PICK label \in {"check", "sleep", "access"} :
             /\ Split!Goto(p, label)
             /\ pc[p] \in {"test", "check"}
             /\ label = "check" => stopped \/ size < Capacity
             /\ label = "access" => pc[p] = "check" /\ ~stopped
    BY <2>1
  <2>3. Typed(pc', SplitLabels) /\ pc'[p] = label /\ \A u \in Threads \ {p} : pc'[u] = pc[u]
    BY <1>l, <1>t, <2>2, SplitMoves
  <2>4. Split!TypeOK'
    BY <2>1, <2>3, SplitType DEF SplitInv
  <2>5. PushesCounted'
    BY <1>i, <1>t, <2>1, <2>2, <2>3, PushesKept DEF Pushing
  <2>6. MutexesHeld' /\ SizesTested'
    BY <1>i, <1>t, <2>1, <2>2, <2>3 DEF MutexesHeld, SizesTested, Holding
  <2>7. Contents'
    BY <1>i, <2>1, <2>2, <2>3, ContentsKept
  <2> QED BY <2>4, <2>5, <2>6, <2>7 DEF SplitInv
<1>4. CASE Split!SleepNotFull(p) \/ Split!RefusePush(p)
  <2>1. /\ UNCHANGED <<stopped, stopPc, tried, produced, got, consumed, buffer,
                       size, head, tail, headMtx, out>>
        /\ tailMtx' = Nobody
        /\ \E label \in {"wait", "idle"} : Split!Goto(p, label)
        /\ pc[p] \in {"sleep", "check"}
    BY <1>4 DEF Split!SleepNotFull, Split!RefusePush, Split!flag, Split!loops, Split!ring
  <2>2. PICK label \in {"wait", "idle"} : Split!Goto(p, label)
    BY <2>1
  <2>3. Typed(pc', SplitLabels) /\ pc'[p] = label /\ \A u \in Threads \ {p} : pc'[u] = pc[u]
    BY <1>l, <1>t, <2>2, SplitMoves
  <2>4. Split!TypeOK'
    BY <2>1, <2>3, SplitType DEF SplitInv
  <2>5. PushesCounted'
    BY <1>s, <1>i, <1>t, <2>1, <2>3 DEF PushesCounted, Pushing
  <2>6. MutexesHeld' /\ SizesTested'
    <3>1. \A u \in Producers \ {p} : pc[u] \notin Holding
      BY <1>i, <2>1, OneCounts DEF Holding
    <3> QED BY <1>i, <1>t, <2>1, <2>3, <3>1, NobodyAssumption DEF MutexesHeld, SizesTested, Holding
  <2>7. Contents'
    BY <1>i, <2>1, <2>3, ContentsKept
  <2> QED BY <2>4, <2>5, <2>6, <2>7 DEF SplitInv
<1> QED BY <1>1, <1>2, <1>3, <1>4

\* The same of a pop.
LEMMA SplitQuietPop ==
  ASSUME SplitInv, NEW c \in Consumers,
         \/ Split!CallPop(c) \/ Split!LockHead(c) \/ Split!TestNotEmpty(c)
         \/ Split!SleepNotEmpty(c) \/ Split!RefusePop(c) \/ Split!AcceptPop(c)
  PROVE  SplitInv'
<1>l. SplitLabels = {"lock", "test", "sleep", "check", "access", "count",
                     "idle", "wait", "notify"}
  BY DEF SplitLabels
<1>s. size \in Nat /\ headMtx \in Consumers \cup {Nobody}
  BY SplitType DEF SplitInv
<1>i. PushesCounted /\ MutexesHeld /\ SizesTested /\ Contents
  BY DEF SplitInv
<1>t. c \in Threads /\ c \notin Producers /\ c # Nobody
      /\ Producers \subseteq Threads /\ Consumers \subseteq Threads
      /\ \A p \in Producers : p \notin Consumers
  BY BothSides, NobodyAssumption DEF Threads
<1>1. CASE Split!LockHead(c)
  <2>1. /\ pc[c] = "lock" /\ headMtx = Nobody /\ headMtx' = c
        /\ Split!Goto(c, "test")
        /\ UNCHANGED <<stopped, stopPc, tried, produced, got, consumed, buffer,
                       size, head, tail, tailMtx, out>>
    BY <1>1 DEF Split!LockHead, Split!flag, Split!loops, Split!ring
  <2>2. Typed(pc', SplitLabels) /\ pc'[c] = "test" /\ \A u \in Threads \ {c} : pc'[u] = pc[u]
    BY <1>l, <1>t, <2>1, SplitMoves
  <2>3. Split!TypeOK'
    BY <2>1, <2>2, SplitType DEF SplitInv
  <2>4. PushesCounted'
    BY <1>i, <1>t, <2>1, <2>2, PushesKept
  <2>5. MutexesHeld' /\ SizesTested'
    BY <1>i, <1>t, <2>1, <2>2, NobodyAssumption DEF MutexesHeld, SizesTested, Holding
  <2>6. Contents'
    BY <1>i, <2>1, <2>2, ContentsKept
  <2> QED BY <2>3, <2>4, <2>5, <2>6 DEF SplitInv
<1>2. CASE Split!CallPop(c) \/ Split!TestNotEmpty(c) \/ Split!AcceptPop(c)
  <2>1. /\ UNCHANGED <<stopped, stopPc, tried, produced, got, consumed, buffer,
                       size, head, tail, headMtx, tailMtx, out>>
        /\ \E label \in {"lock", "check", "sleep", "access"} :
             /\ Split!Goto(c, label)
             /\ pc[c] \in {"idle", "test", "check"}
             /\ label = "lock" <=> pc[c] = "idle"
             /\ label = "access" => size # 0
    BY <1>2 DEF Split!CallPop, Split!BeginPop, Split!TestNotEmpty, Split!AcceptPop,
                Split!flag, Split!loops, Split!members, Split!ring
  <2>2. PICK label \in {"lock", "check", "sleep", "access"} :
             /\ Split!Goto(c, label)
             /\ pc[c] \in {"idle", "test", "check"}
             /\ label = "lock" <=> pc[c] = "idle"
             /\ label = "access" => size # 0
    BY <2>1
  <2>3. Typed(pc', SplitLabels) /\ pc'[c] = label /\ \A u \in Threads \ {c} : pc'[u] = pc[u]
    BY <1>l, <1>t, <2>2, SplitMoves
  <2>4. Split!TypeOK'
    BY <2>1, <2>3, SplitType DEF SplitInv
  <2>5. PushesCounted'
    BY <1>i, <1>t, <2>1, <2>3, PushesKept
  <2>6. MutexesHeld' /\ SizesTested'
    BY <1>s, <1>i, <1>t, <2>1, <2>2, <2>3 DEF MutexesHeld, SizesTested, Holding
  <2>7. Contents'
    BY <1>i, <2>1, <2>2, <2>3, ContentsKept
  <2> QED BY <2>4, <2>5, <2>6, <2>7 DEF SplitInv
<1>3. CASE Split!SleepNotEmpty(c) \/ Split!RefusePop(c)
  <2>1. /\ UNCHANGED <<stopped, stopPc, tried, produced, got, consumed, buffer,
                       size, head, tail, tailMtx, out>>
        /\ headMtx' = Nobody
        /\ \E label \in {"wait", "idle"} : Split!Goto(c, label)
        /\ pc[c] \in {"sleep", "check"}
    BY <1>3 DEF Split!SleepNotEmpty, Split!RefusePop, Split!flag, Split!loops, Split!ring
  <2>2. PICK label \in {"wait", "idle"} : Split!Goto(c, label)
    BY <2>1
  <2>3. Typed(pc', SplitLabels) /\ pc'[c] = label /\ \A u \in Threads \ {c} : pc'[u] = pc[u]
    BY <1>l, <1>t, <2>2, SplitMoves
  <2>4. Split!TypeOK'
    BY <2>1, <2>3, SplitType DEF SplitInv
  <2>5. PushesCounted'
    BY <1>i, <1>t, <2>1, <2>3, PushesKept
  <2>6. MutexesHeld' /\ SizesTested'
    <3>1. \A u \in Consumers \ {c} : pc[u] \notin Holding
      BY <1>i, <2>1, OneCounts DEF Holding
    <3> QED BY <1>i, <1>t, <2>1, <2>3, <3>1, NobodyAssumption DEF MutexesHeld, SizesTested, Holding
  <2>7. Contents'
    BY <1>i, <2>1, <2>3, ContentsKept
  <2> QED BY <2>4, <2>5, <2>6, <2>7 DEF SplitInv
<1> QED BY <1>1, <1>2, <1>3

\* A producer fills the next place.
LEMMA SplitWrite ==
  ASSUME SplitInv, NEW p \in Producers, Split!Write(p)
  PROVE  SplitInv'
<1>l. "count" \in SplitLabels
  BY DEF SplitLabels
<1>i. PushesCounted /\ MutexesHeld /\ SizesTested /\ Contents
  BY DEF SplitInv
<1>f. /\ Filled \in 0..Capacity
      /\ size \in Nat /\ size <= Capacity /\ Capacity \in Nat \ {0}
      /\ head \in 0..(Capacity - 1)
      /\ Counting(Consumers) \in {0, 1}
  BY FilledType
<1>t. p \in Threads /\ p \notin Consumers
      /\ Producers \subseteq Threads /\ Consumers \subseteq Threads
      /\ \A c \in Consumers : c \notin Producers
  BY BothSides DEF Threads
<1>1. /\ pc[p] = "access"
      /\ buffer' = [buffer EXCEPT ![tail] = <<p, produced[p] + 1>>]
      /\ tail' = Split!NextIndex(tail)
      /\ Split!Goto(p, "count")
      /\ UNCHANGED <<stopped, stopPc, tried, produced, got, consumed, size,
                     head, headMtx, tailMtx, out>>
  BY DEF Split!Write, Split!flag, Split!loops
<1>2. Typed(pc', SplitLabels) /\ pc'[p] = "count" /\ \A u \in Threads \ {p} : pc'[u] = pc[u]
  BY <1>l, <1>t, <1>1, SplitMoves
<1>3. \A u \in Producers \ {p} : pc[u] \notin Holding
  BY <1>i, <1>1, OneCounts DEF Holding
<1>4. /\ Counting(Producers) = 0 /\ Counting(Producers)' = 1
      /\ Counting(Consumers)' = Counting(Consumers)
  BY <1>t, <1>1, <1>2, <1>3 DEF Counting, Holding
<1>5. Filled' = Filled + 1 /\ Filled = size - Counting(Consumers) /\ size < Capacity
  BY <1>f, <1>i, <1>1, <1>4 DEF Filled, SizesTested
<1>6. tail = Place(Filled) /\ tail' = Place(Filled + 1)
  BY <1>f, <1>i, <1>1, Places DEF Contents
<1>7. <<p, produced[p] + 1>> \in Message
  <2>1. produced[p] < Messages /\ produced[p] \in Nat
    <3>1. produced[p] \in Nat /\ tried[p] \in Nat /\ tried[p] <= Messages
      BY SplitType, MessagesAssumption DEF SplitInv
    <3>2. produced[p] + 1 <= tried[p]
      BY <1>i, <1>1 DEF PushesCounted, Pushing
    <3> QED BY <3>1, <3>2, MessagesAssumption
  <2> QED BY <2>1, MessagesAssumption DEF Message
<1>8. /\ buffer' \in [0..(Capacity - 1) -> Message \cup {Nothing}]
      /\ buffer'[tail] = <<p, produced[p] + 1>>
      /\ \A i \in 0..(Capacity - 1) : i # tail => buffer'[i] = buffer[i]
      /\ tail' \in 0..(Capacity - 1)
  <2>1. /\ buffer \in [0..(Capacity - 1) -> Message \cup {Nothing}]
        /\ tail \in 0..(Capacity - 1)
    BY SplitType DEF SplitInv
  <2>2. tail' \in 0..(Capacity - 1)
    BY <1>f, <1>6, Places
  <2> QED BY <1>1, <1>7, <2>1, <2>2
<1>9. Split!TypeOK'
  BY <1>1, <1>2, <1>8, SplitType DEF SplitInv
<1>10. PushesCounted'
  BY <1>i, <1>t, <1>1, <1>2, PushesKept DEF Pushing
<1>11. MutexesHeld' /\ SizesTested'
  BY <1>i, <1>t, <1>1, <1>2, <1>5 DEF MutexesHeld, SizesTested, Holding
<1>12. Contents'
  <2>1. \A k : Place(k)' = Place(k)
    BY <1>1 DEF Place
  <2>2. ASSUME NEW k \in 0..(Filled - 1)
        PROVE  buffer'[Place(k)] = buffer[Place(k)]
    <3>1. k \in Nat /\ k < Filled /\ Filled < k + Capacity /\ Filled \in Nat
      BY <1>f, <1>5
    <3>2. Place(k) # Place(Filled) /\ Place(k) \in 0..(Capacity - 1)
      BY <1>f, <3>1, Places
    <3> QED BY <1>6, <1>8, <3>2
  <2>3. buffer'[Place(Filled)] = <<p, produced[p] + 1>>
    BY <1>6, <1>8
  <2>4. \A k \in 0..Filled : buffer'[Place(k)] \in Message
    <3>1. \A k \in 0..(Filled - 1) : buffer'[Place(k)] \in Message
      BY <1>i, <2>2 DEF Contents
    <3> QED BY <1>f, <1>7, <2>3, <3>1
  <2>5. Filled' - 1 = Filled
    BY <1>f, <1>5
  <2>6. \A c \in Consumers : pc'[c] = "count" => out'[c] \in Message
    BY <1>i, <1>t, <1>1, <1>2 DEF Contents
  <2>7. \A u \in Producers : pc'[u] = "count" => u = p
    BY <1>t, <1>2, <1>3 DEF Holding
  <2> QED BY <1>1, <1>5, <1>6, <2>1, <2>3, <2>4, <2>5, <2>6, <2>7 DEF Contents
<1> QED BY <1>9, <1>10, <1>11, <1>12 DEF SplitInv

\* A producer counts its message.
LEMMA SplitCountPush ==
  ASSUME SplitInv, NEW p \in Producers, Split!CountPush(p)
  PROVE  SplitInv'
<1>l. "notify" \in SplitLabels
  BY DEF SplitLabels
<1>i. PushesCounted /\ MutexesHeld /\ SizesTested /\ Contents
  BY DEF SplitInv
<1>f. /\ Filled \in 0..Capacity
      /\ size \in Nat /\ size <= Capacity /\ Capacity \in Nat \ {0}
      /\ Counting(Consumers) \in {0, 1}
  BY FilledType
<1>s. /\ produced \in [Producers -> 0..Messages]
      /\ \A u \in Producers : /\ tried[u] \in Nat /\ produced[u] \in Nat
                              /\ tried[u] <= Messages
  BY SplitType, MessagesAssumption DEF SplitInv
<1>t. p \in Threads /\ p \notin Consumers /\ p # Nobody
      /\ Producers \subseteq Threads /\ Consumers \subseteq Threads
      /\ \A c \in Consumers : c \notin Producers
  BY BothSides, NobodyAssumption DEF Threads
<1>1. /\ pc[p] = "count"
      /\ size' = size + 1
      /\ produced' = [produced EXCEPT ![p] = @ + 1]
      /\ tailMtx' = Nobody
      /\ Split!Goto(p, "notify")
      /\ UNCHANGED <<stopped, stopPc, tried, got, consumed, buffer, head, tail,
                     headMtx, out>>
  BY DEF Split!CountPush, Split!flag
<1>2. Typed(pc', SplitLabels) /\ pc'[p] = "notify" /\ \A u \in Threads \ {p} : pc'[u] = pc[u]
  BY <1>l, <1>t, <1>1, SplitMoves
<1>3. \A u \in Producers \ {p} : pc[u] \notin Holding
  BY <1>i, <1>1, OneCounts DEF Holding
<1>4. /\ Counting(Producers) = 1 /\ Counting(Producers)' = 0
      /\ Counting(Consumers)' = Counting(Consumers)
  BY <1>t, <1>1, <1>2, <1>3 DEF Counting, Holding
<1>5. Filled' = Filled /\ size < Capacity
  BY <1>f, <1>i, <1>1, <1>4 DEF Filled, SizesTested
<1>6. produced[p] + 1 <= tried[p]
  BY <1>i, <1>1 DEF PushesCounted, Pushing
<1>7. /\ produced' \in [Producers -> 0..Messages]
      /\ \A u \in Producers :
           produced'[u] = IF u = p THEN produced[u] + 1 ELSE produced[u]
  BY <1>s, <1>1, <1>6, MessagesAssumption
<1>8. Split!TypeOK'
  <2>1. size' \in 0..Capacity
    BY <1>f, <1>1, <1>5
  <2> QED BY <1>1, <1>2, <1>7, <2>1, SplitType DEF SplitInv
<1>9. PushesCounted'
  BY <1>s, <1>i, <1>t, <1>1, <1>2, <1>6, <1>7 DEF PushesCounted, Pushing
<1>10. MutexesHeld'
  BY <1>i, <1>t, <1>1, <1>2, <1>3, NobodyAssumption DEF MutexesHeld, Holding
<1>11. SizesTested'
  BY <1>f, <1>i, <1>t, <1>1, <1>2, <1>3 DEF SizesTested, Holding
<1>12. Contents'
  <2>1. \A u \in Producers : pc'[u] # "count"
    BY <1>t, <1>2, <1>3 DEF Holding
  <2>2. \A c \in Consumers : pc'[c] = pc[c]
    BY <1>t, <1>2
  <2> QED BY <1>i, <1>1, <1>5, <2>1, <2>2 DEF Contents, Place
<1> QED BY <1>8, <1>9, <1>10, <1>11, <1>12 DEF SplitInv

\* A consumer empties the first place.
LEMMA SplitRead ==
  ASSUME SplitInv, NEW c \in Consumers, Split!Read(c)
  PROVE  SplitInv'
<1>l. "count" \in SplitLabels
  BY DEF SplitLabels
<1>i. PushesCounted /\ MutexesHeld /\ SizesTested /\ Contents
  BY DEF SplitInv
<1>f. /\ Filled \in 0..Capacity
      /\ size \in Nat /\ size <= Capacity /\ Capacity \in Nat \ {0}
      /\ head \in 0..(Capacity - 1)
      /\ Counting(Producers) \in {0, 1}
      /\ Counting(Producers) = 1 => size < Capacity
  BY FilledType
<1>t. c \in Threads /\ c \notin Producers
      /\ Producers \subseteq Threads /\ Consumers \subseteq Threads
      /\ \A p \in Producers : p \notin Consumers
  BY BothSides DEF Threads
<1>1. /\ pc[c] = "access"
      /\ out' = [out EXCEPT ![c] = buffer[head]]
      /\ buffer' = [buffer EXCEPT ![head] = Nothing]
      /\ head' = Split!NextIndex(head)
      /\ Split!Goto(c, "count")
      /\ UNCHANGED <<stopped, stopPc, tried, produced, got, consumed, size,
                     tail, headMtx, tailMtx>>
  BY DEF Split!Read, Split!flag, Split!loops
<1>2. Typed(pc', SplitLabels) /\ pc'[c] = "count" /\ \A u \in Threads \ {c} : pc'[u] = pc[u]
  BY <1>l, <1>t, <1>1, SplitMoves
<1>3. \A u \in Consumers \ {c} : pc[u] \notin Holding
  BY <1>i, <1>1, OneCounts DEF Holding
<1>4. /\ Counting(Consumers) = 0 /\ Counting(Consumers)' = 1
      /\ Counting(Producers)' = Counting(Producers)
  BY <1>t, <1>1, <1>2, <1>3 DEF Counting, Holding
<1>5. Filled' = Filled - 1 /\ Filled = size + Counting(Producers) /\ size > 0
  BY <1>f, <1>i, <1>1, <1>4 DEF Filled, SizesTested
<1>6. Place(0) = head /\ \A k \in Nat : (head' + k) % Capacity = Place(k + 1)
  BY <1>f, <1>1, Places DEF Place
<1>7. buffer[head] \in Message
  <2>1. 0 \in 0..(Filled - 1)
    BY <1>f, <1>5
  <2> QED BY <1>i, <1>6, <2>1 DEF Contents
<1>8. /\ buffer' \in [0..(Capacity - 1) -> Message \cup {Nothing}]
      /\ out' \in [Consumers -> Message \cup {Nothing}]
      /\ out'[c] = buffer[head]
      /\ \A i \in 0..(Capacity - 1) : i # head => buffer'[i] = buffer[i]
      /\ head' \in 0..(Capacity - 1)
  <2>1. /\ buffer \in [0..(Capacity - 1) -> Message \cup {Nothing}]
        /\ out \in [Consumers -> Message \cup {Nothing}]
    BY SplitType DEF SplitInv
  <2>2. head' \in 0..(Capacity - 1)
    <3>1. head' = Place(1)
      BY <1>f, <1>1, <1>6, Places
    <3> QED BY <1>f, <3>1, Places
  <2> QED BY <1>f, <1>1, <1>7, <2>1, <2>2
<1>9. Split!TypeOK'
  BY <1>1, <1>2, <1>8, SplitType DEF SplitInv
<1>10. PushesCounted'
  BY <1>i, <1>t, <1>1, <1>2, PushesKept
<1>11. MutexesHeld' /\ SizesTested'
  BY <1>i, <1>t, <1>1, <1>2, <1>5 DEF MutexesHeld, SizesTested, Holding
<1>12. \A k \in Nat : 0 < k /\ k < Capacity => buffer'[Place(k)] = buffer[Place(k)]
  <2> SUFFICES ASSUME NEW k \in Nat, 0 < k, k < Capacity
               PROVE  buffer'[Place(k)] = buffer[Place(k)]
    OBVIOUS
  <2>1. Place(0) # Place(k) /\ Place(k) \in 0..(Capacity - 1)
    <3>1. 0 \in Nat /\ k < 0 + Capacity
      BY <1>f
    <3> QED BY <1>f, <3>1, Places
  <2> QED BY <1>6, <1>8, <2>1
<1>13. Contents'
  <2>1. tail' = Place(Filled)
    BY <1>i, <1>1 DEF Contents
  <2>2. tail' = (head' + Filled') % Capacity
    <3>1. Filled' \in Nat /\ Filled' + 1 = Filled
      BY <1>f, <1>5
    <3> QED BY <1>6, <2>1, <3>1
  <2>3. ASSUME NEW k \in 0..(Filled' - 1)
        PROVE  buffer'[(head' + k) % Capacity] \in Message
    <3>1. k \in Nat /\ k + 1 \in 0..(Filled - 1) /\ k + 1 \in Nat
          /\ 0 < k + 1 /\ k + 1 < Capacity
      BY <1>f, <1>5
    <3>2. buffer'[Place(k + 1)] = buffer[Place(k + 1)]
      BY <1>12, <3>1
    <3>3. buffer[Place(k + 1)] \in Message
      BY <1>i, <3>1 DEF Contents
    <3> QED BY <1>6, <3>1, <3>2, <3>3
  <2>4. \A u \in Consumers : pc'[u] = "count" => u = c
    BY <1>t, <1>2, <1>3 DEF Holding
  <2>5. ASSUME NEW p \in Producers, pc'[p] = "count"
        PROVE  buffer'[(head' + (Filled' - 1)) % Capacity] = <<p, produced'[p] + 1>>
    <3>1. pc[p] = "count"
      BY <1>t, <1>2, <2>5
    <3>2. Counting(Producers) = 1
      BY <3>1 DEF Counting
    <3>3. Filled = size + 1 /\ size < Capacity
      BY <1>f, <1>5, <3>2
    <3>4. /\ Filled' - 1 \in Nat /\ (Filled' - 1) + 1 = Filled - 1
          /\ Filled - 1 \in Nat /\ 0 < Filled - 1 /\ Filled - 1 < Capacity
      BY <1>f, <1>5, <3>3
    <3>5. (head' + (Filled' - 1)) % Capacity = Place(Filled - 1)
      BY <1>6, <3>4
    <3>6. buffer'[Place(Filled - 1)] = buffer[Place(Filled - 1)]
      BY <1>12, <3>4
    <3>7. buffer[Place(Filled - 1)] = <<p, produced[p] + 1>>
      BY <1>i, <3>1 DEF Contents
    <3> QED BY <1>1, <3>5, <3>6, <3>7
  <2> QED BY <1>7, <1>8, <2>2, <2>3, <2>4, <2>5 DEF Contents, Place
<1> QED BY <1>9, <1>10, <1>11, <1>13 DEF SplitInv

\* A consumer counts its message out.
LEMMA SplitCountPop ==
  ASSUME SplitInv, NEW c \in Consumers, Split!CountPop(c)
  PROVE  SplitInv'
<1>l. "notify" \in SplitLabels
  BY DEF SplitLabels
<1>i. PushesCounted /\ MutexesHeld /\ SizesTested /\ Contents
  BY DEF SplitInv
<1>f. /\ Filled \in 0..Capacity
      /\ size \in Nat /\ size <= Capacity /\ Capacity \in Nat \ {0}
      /\ Counting(Producers) \in {0, 1}
  BY FilledType
<1>t. c \in Threads /\ c \notin Producers /\ c # Nobody
      /\ Producers \subseteq Threads /\ Consumers \subseteq Threads
      /\ \A p \in Producers : p \notin Consumers
  BY BothSides, NobodyAssumption DEF Threads
<1>1. /\ pc[c] = "count"
      /\ size' = size - 1
      /\ got' = [got EXCEPT ![c] = Append(@, out[c])]
      /\ headMtx' = Nobody
      /\ Split!Goto(c, "notify")
      /\ UNCHANGED <<stopped, stopPc, tried, produced, consumed, buffer, head,
                     tail, tailMtx, out>>
  BY DEF Split!CountPop, Split!flag
<1>2. Typed(pc', SplitLabels) /\ pc'[c] = "notify" /\ \A u \in Threads \ {c} : pc'[u] = pc[u]
  BY <1>l, <1>t, <1>1, SplitMoves
<1>3. \A u \in Consumers \ {c} : pc[u] \notin Holding
  BY <1>i, <1>1, OneCounts DEF Holding
<1>4. /\ Counting(Consumers) = 1 /\ Counting(Consumers)' = 0
      /\ Counting(Producers)' = Counting(Producers)
  BY <1>t, <1>1, <1>2, <1>3 DEF Counting, Holding
<1>5. Filled' = Filled /\ size > 0
  BY <1>f, <1>i, <1>1, <1>4 DEF Filled, SizesTested
<1>6. out[c] \in Message
  BY <1>i, <1>1 DEF Contents
<1>7. got' \in [Consumers -> Seq(Message)]
  <2>1. got \in [Consumers -> Seq(Message)]
    BY SplitType DEF SplitInv
  <2>2. Append(got[c], out[c]) \in Seq(Message)
    BY <1>6, <2>1
  <2> QED BY <1>1, <2>1, <2>2
<1>8. Split!TypeOK'
  <2>1. size' \in 0..Capacity
    BY <1>f, <1>1, <1>5
  <2> QED BY <1>1, <1>2, <1>7, <2>1, SplitType DEF SplitInv
<1>9. PushesCounted'
  BY <1>i, <1>t, <1>1, <1>2, PushesKept
<1>10. MutexesHeld'
  BY <1>i, <1>t, <1>1, <1>2, <1>3, NobodyAssumption DEF MutexesHeld, Holding
<1>11. SizesTested'
  BY <1>f, <1>i, <1>t, <1>1, <1>2, <1>3 DEF SizesTested, Holding
<1>12. Contents'
  <2>1. \A u \in Consumers : pc'[u] # "count"
    BY <1>t, <1>2, <1>3 DEF Holding
  <2>2. \A p \in Producers : pc'[p] = pc[p]
    BY <1>t, <1>2
  <2> QED BY <1>i, <1>1, <1>5, <2>1, <2>2 DEF Contents, Place
<1> QED BY <1>8, <1>9, <1>10, <1>11, <1>12 DEF SplitInv

\* Notifications, stop and wake-ups move nobody who is between lock and unlock.
LEMMA SplitWakes ==
  ASSUME SplitInv,
         UNCHANGED <<tried, produced, got, members>>,
         stopped => stopped', stopped' \in BOOLEAN,
         stopPc' \in {"idle", "notFull", "notEmpty", "done"}, consumed' \in Nat,
         pc' \in [Threads -> SplitLabels],
         \A t \in Threads :
           \/ pc'[t] = pc[t]
           \/ pc[t] = "wait" /\ pc'[t] = "lock"
           \/ pc[t] = "notify" /\ pc'[t] = "idle"
  PROVE  SplitInv'
<1>i. PushesCounted /\ MutexesHeld /\ SizesTested /\ Contents
  BY DEF SplitInv
<1>t. Producers \subseteq Threads /\ Consumers \subseteq Threads
  BY DEF Threads
<1> USE DEF members
<1>1. Split!TypeOK'
  BY SplitType DEF SplitInv, Typed
<1>2. PushesCounted'
  BY <1>i, <1>t, PushesKept DEF Pushing
<1>3. MutexesHeld' /\ SizesTested'
  BY <1>i, <1>t DEF MutexesHeld, SizesTested, Holding
<1>4. Contents'
  <2>1. \A t \in Threads : pc'[t] = "count" <=> pc[t] = "count"
    OBVIOUS
  <2> QED BY <1>i, <2>1, ContentsKept
<1> QED BY <1>1, <1>2, <1>3, <1>4 DEF SplitInv

LEMMA SplitNotifies ==
  ASSUME SplitInv,
         \/ \E p \in Producers : Split!NotifyNotEmpty(p)
         \/ \E c \in Consumers : Split!NotifyNotFull(c)
  PROVE  SplitInv'
<1>1. PICK t \in Threads, other \in Sides :
        /\ pc[t] = "notify"
        /\ \/ pc' = [pc EXCEPT ![t] = "idle"]
           \/ \E w \in Waiting(other) : pc' = [pc EXCEPT ![t] = "idle", ![w] = "lock"]
        /\ UNCHANGED <<stopped, stopPc, tried, produced, got, members>>
        /\ consumed' \in {consumed, consumed + 1}
  BY BothSides
  DEF Split!NotifyNotEmpty, Split!NotifyNotFull, Split!NotifyOne, Split!flag,
      Split!Waiting, Split!InState, Waiting, InState, Split!Goto,
      Split!members, Split!ring, members
<1>2. /\ Typed(pc, SplitLabels) /\ consumed \in Nat /\ stopped \in BOOLEAN
      /\ stopPc \in {"idle", "notFull", "notEmpty", "done"}
  BY SplitType DEF SplitInv
<1>3. /\ pc' \in [Threads -> SplitLabels]
      /\ \A u \in Threads :
           \/ pc'[u] = pc[u]
           \/ pc[u] = "wait" /\ pc'[u] = "lock"
           \/ pc[u] = "notify" /\ pc'[u] = "idle"
  <2>1. CASE pc' = [pc EXCEPT ![t] = "idle"]
    BY <1>1, <1>2, <2>1 DEF Typed, SplitLabels
  <2>2. CASE \E w \in Waiting(other) : pc' = [pc EXCEPT ![t] = "idle", ![w] = "lock"]
    <3>1. PICK w \in Waiting(other) : pc' = [pc EXCEPT ![t] = "idle", ![w] = "lock"]
      BY <2>2
    <3>2. w \in Threads /\ pc[w] = "wait"
      BY SidesFinite DEF Waiting, InState
    <3> QED BY <1>1, <1>2, <3>1, <3>2 DEF Typed, SplitLabels
  <2> QED BY <1>1, <2>1, <2>2
<1>4. consumed' \in Nat /\ stopped' = stopped /\ stopPc' = stopPc
  BY <1>1, <1>2
<1>5. UNCHANGED <<tried, produced, got, members>>
  BY <1>1
<1> QED BY <1>2, <1>3, <1>4, <1>5, SplitWakes

LEMMA SplitOtherSteps ==
  ASSUME SplitInv,
         \/ Split!SetStopped \/ Split!StopStep
         \/ \E t \in Threads : Split!WakeSpuriously(t)
  PROVE  SplitInv'
<1>1. /\ Typed(pc, SplitLabels) /\ consumed \in Nat /\ stopped \in BOOLEAN
      /\ stopPc \in {"idle", "notFull", "notEmpty", "done"}
  BY SplitType DEF SplitInv
<1> USE DEF members, Split!members, Split!ring, Split!loops, Split!flag
<1>2. CASE Split!SetStopped
  <2>1. /\ stopped' = TRUE /\ stopPc' = "notEmpty"
        /\ UNCHANGED <<pc, tried, produced, got, consumed, members>>
    BY <1>2 DEF Split!SetStopped, Split!BeginStop
  <2> QED BY <1>1, <2>1, SplitWakes DEF Typed
<1>3. CASE Split!StopStep
  <2>1. PICK side \in Sides :
          /\ pc' = [t \in Threads |-> IF t \in Waiting(side) THEN "lock" ELSE pc[t]]
          /\ stopPc' \in {"notFull", "done"}
          /\ UNCHANGED <<stopped, tried, produced, got, consumed, members>>
    BY <1>3, BothSides
    DEF Split!StopStep, Split!StopNotEmpty, Split!StopNotFull, Split!NotifyAll,
        Split!Threads, Threads, Split!Waiting, Split!InState, Waiting, InState
  <2>2. /\ pc' \in [Threads -> SplitLabels]
        /\ \A t \in Threads : pc'[t] = pc[t] \/ (pc[t] = "wait" /\ pc'[t] = "lock")
    BY <1>1, <2>1 DEF Typed, SplitLabels, Waiting, InState
  <2> QED BY <1>1, <2>1, <2>2, SplitWakes
<1>4. ASSUME NEW t \in Threads, Split!WakeSpuriously(t) PROVE SplitInv'
  <2>1. /\ pc[t] = "wait" /\ pc' = [pc EXCEPT ![t] = "lock"]
        /\ UNCHANGED <<stopped, stopPc, tried, produced, got, consumed, members>>
    BY <1>4 DEF Split!WakeSpuriously, Split!Wake, Split!Goto
  <2>2. /\ pc' \in [Threads -> SplitLabels]
        /\ \A u \in Threads : pc'[u] = pc[u] \/ (pc[u] = "wait" /\ pc'[u] = "lock")
    BY <1>1, <2>1 DEF Typed, SplitLabels
  <2> QED BY <1>1, <2>1, <2>2, SplitWakes
<1> QED BY <1>2, <1>3, <1>4

LEMMA SplitNext == ASSUME SplitInv, Split!Next PROVE SplitInv'
<1>1. ASSUME NEW p \in Producers, Split!Push(p) PROVE SplitInv'
  BY <1>1, SplitQuietPush, SplitWrite, SplitCountPush, SplitNotifies DEF Split!Push
<1>2. ASSUME NEW c \in Consumers, Split!Pop(c) PROVE SplitInv'
  BY <1>2, SplitQuietPop, SplitRead, SplitCountPop, SplitNotifies DEF Split!Pop
<1> QED BY <1>1, <1>2, SplitOtherSteps DEF Split!Next, Split!Threads, Threads

-----------------------------------------------------------------------------
(* Both queues *)

IInv == /\ kind \in {"basic", "split"}
        /\ kind = "basic" => BasicInv
        /\ kind = "split" => SplitInv

LEMMA Unchanged == IInv /\ UNCHANGED testVars => IInv'
<1> SUFFICES ASSUME IInv, UNCHANGED testVars PROVE IInv'
  OBVIOUS
<1>1. UNCHANGED <<kind, stopped, stopPc, pc, tried, produced, got, consumed,
                  queue, buffer, size, head, tail, headMtx, tailMtx, out>>
  BY DEF testVars, clients, flag, loops, members
<1>2. CASE kind = "basic"
  <2>1. BasicInv
    BY <1>2 DEF IInv
  <2>2. Basic!TypeOK' /\ Basic!NoThreadForgotten'
    BY <1>1, <2>1, BasicType, BasicCounts DEF BasicInv
  <2>3. PushesCounted' /\ StopNotifies' /\ Len(queue') <= Capacity
    BY <1>1, <2>1 DEF BasicInv, PushesCounted, StopNotifies
  <2> QED BY <1>1, <1>2, <2>2, <2>3 DEF IInv, BasicInv
<1>3. CASE kind = "split"
  <2>1. SplitInv
    BY <1>3 DEF IInv
  <2>2. Split!TypeOK'
    BY <1>1, <2>1, SplitType DEF SplitInv
  <2>3. PushesCounted' /\ MutexesHeld' /\ SizesTested' /\ Contents'
    BY <1>1, <2>1, ContentsKept DEF SplitInv, PushesCounted, MutexesHeld, SizesTested
  <2> QED BY <1>1, <1>3, <2>2, <2>3 DEF IInv, SplitInv
<1> QED BY <1>2, <1>3 DEF IInv

LEMMA Invariance == TestSpec => []IInv
<1>1. TestInit => IInv
  BY BasicInit, SplitInit DEF TestInit, IInv
<1>2. IInv /\ [TestNext]_testVars => IInv'
  <2>1. ASSUME IInv, TestNext PROVE IInv'
    BY <2>1, BasicNext, SplitNext DEF TestNext, IInv
  <2> QED BY <2>1, Unchanged
<1> QED BY <1>1, <1>2, PTL DEF TestSpec

(***************************************************************************)
(* The type invariant of both queues: no push or pop takes the size out of *)
(* its range or an index out of the ring, and only messages are popped.    *)
(***************************************************************************)
THEOREM TypeCorrect == TestSpec => []TypeOK
<1>1. IInv => TypeOK
  BY DEF IInv, BasicInv, SplitInv, TypeOK
<1> QED BY <1>1, Invariance, PTL

(***************************************************************************)
(* No wake-up of a BoundedQueue is lost: whoever sleeps next to a message  *)
(* or a free place is about to be notified or overtaken.                   *)
(***************************************************************************)
THEOREM ThreadsRemembered == TestSpec => []NoThreadForgotten
<1>1. IInv => NoThreadForgotten
  BY DEF IInv, BasicInv, NoThreadForgotten
<1> QED BY <1>1, Invariance, PTL

(***************************************************************************)
(* Once stop() has returned nobody waits on a BoundedQueue, nor will.      *)
(***************************************************************************)
THEOREM NobodyWaitsAfterStop == TestSpec => []StopUnblocks
<1>1. IInv => StopUnblocks
  BY DEF IInv, BasicInv, StopNotifies, StopUnblocks, Basic!StopUnblocks,
         Basic!Waiting, Basic!InState, Basic!Threads
<1> QED BY <1>1, Invariance, PTL

(***************************************************************************)
(* The two mutexes of a SplitLockQueue, and the size each side tests, keep *)
(* a producer and a consumer out of the same slot.                         *)
(***************************************************************************)
THEOREM SidesApart == TestSpec => []SlotsApart
<1>1. IInv => SlotsApart
  <2> SUFFICES ASSUME SplitInv, NEW p \in Producers, NEW c \in Consumers,
                      pc[p] = "access", pc[c] = "access"
               PROVE  head # tail
    BY DEF IInv, SlotsApart, Split!SlotsApart
  <2>1. /\ MutexesHeld /\ size < Capacity /\ size > 0
        /\ tail = Place(Filled)
    BY DEF SplitInv, SizesTested, Contents
  <2>2. Counting(Consumers) = 0 /\ Counting(Producers) = 0
    <3>1. \A u \in Producers : pc[u] # "count"
      BY <2>1 DEF MutexesHeld, Holding
    <3>2. \A u \in Consumers : pc[u] # "count"
      BY <2>1 DEF MutexesHeld, Holding
    <3> QED BY <3>1, <3>2 DEF Counting
  <2>3. Filled = size /\ size \in Nat /\ head \in 0..(Capacity - 1)
    BY <2>2, FilledType DEF Filled
  <2>4. 0 \in Nat /\ 0 < size /\ size < 0 + Capacity
    BY <2>1, CapacityAssumption
  <2> QED BY <2>1, <2>3, <2>4, Places
<1> QED BY <1>1, Invariance, PTL

-----------------------------------------------------------------------------
(* Both implement a bounded FIFO *)

FifoQueue == IF kind = "basic" THEN queue ELSE Split!Queued
Fifos == Fifo!Next \/ UNCHANGED Fifo!vars

LEMMA PutFits ==
  ASSUME NEW p \in Producers, produced[p] < Messages, Len(FifoQueue) < Capacity,
         FifoQueue' = Append(FifoQueue, <<p, produced[p] + 1>>),
         produced' = [produced EXCEPT ![p] = @ + 1], got' = got
  PROVE  Fifos
BY DEF FifoQueue, Fifos, Fifo!Next, Fifo!Put

LEMMA TakeFits ==
  ASSUME NEW c \in Consumers, FifoQueue # <<>>,
         got' = [got EXCEPT ![c] = Append(@, Head(FifoQueue))],
         FifoQueue' = Tail(FifoQueue), produced' = produced
  PROVE  Fifos
BY DEF FifoQueue, Fifos, Fifo!Next, Fifo!Take

LEMMA StutterFits ==
  ASSUME FifoQueue' = FifoQueue, produced' = produced, got' = got
  PROVE  Fifos
BY DEF FifoQueue, Fifos, Fifo!vars

LEMMA BasicFits ==
  ASSUME BasicInv, kind = "basic", kind' = kind, Basic!Next
  PROVE  Fifos
<1>0. FifoQueue = queue /\ FifoQueue' = queue'
  BY DEF FifoQueue
<1>1. ASSUME NEW p \in Producers, Basic!Push(p) PROVE Fifos
  <2>1. /\ pc[p] = "enter" /\ ~stopped /\ Len(queue) < Capacity
        /\ queue' = Append(queue, <<p, produced[p] + 1>>)
        /\ produced' = [produced EXCEPT ![p] = @ + 1]
        /\ got' = got
    BY <1>1 DEF Basic!Push, Basic!PutLast, Basic!MayPush
  <2>2. produced[p] < Messages
    <3>1. produced[p] + 1 <= tried[p]
      BY <2>1 DEF BasicInv, PushesCounted, Pushing
    <3>2. produced[p] \in Nat /\ tried[p] \in Nat /\ tried[p] <= Messages
      BY BasicType, MessagesAssumption DEF BasicInv
    <3> QED BY <3>1, <3>2, MessagesAssumption
  <2> QED BY <1>0, <2>1, <2>2, PutFits
<1>2. ASSUME NEW c \in Consumers, Basic!Pop(c) PROVE Fifos
  BY <1>0, <1>2, TakeFits DEF Basic!Pop, Basic!TakeFirst
<1>3. ASSUME UNCHANGED <<queue, produced, got>> PROVE Fifos
  BY <1>0, <1>3, StutterFits
<1>4. ASSUME NEW p \in Producers, Basic!ProducerStep(p) PROVE Fifos
  BY <1>1, <1>3, <1>4
  DEF Basic!ProducerStep, Basic!CallPush, Basic!BeginPush, Basic!BlockPush,
      Basic!RefusePush, Basic!NotifyNotEmpty, Basic!NotifyOne, Basic!loops
<1>5. ASSUME NEW c \in Consumers, Basic!ConsumerStep(c) PROVE Fifos
  BY <1>2, <1>3, <1>5
  DEF Basic!ConsumerStep, Basic!CallPop, Basic!BeginPop, Basic!BlockPop,
      Basic!RefusePop, Basic!NotifyNotFull, Basic!NotifyOne, Basic!loops
<1>6. ASSUME \/ Basic!SetStopped \/ Basic!StopStep
             \/ \E t \in Threads : Basic!WakeSpuriously(t)
      PROVE  Fifos
  BY <1>3, <1>6
  DEF Basic!SetStopped, Basic!BeginStop, Basic!StopStep, Basic!StopNotFull,
      Basic!StopNotEmpty, Basic!NotifyAll, Basic!WakeSpuriously, Basic!Wake,
      Basic!loops
<1> QED BY <1>4, <1>5, <1>6 DEF Basic!Next, Basic!Threads, Threads

-----------------------------------------------------------------------------
(* What a SplitLockQueue holds, as a function of its members *)

InHand(p) == {c \in Consumers : p[c] = "count"}

QueueFrom(inHand, o, b, h, n) ==
  LET first == IF inHand = {} THEN <<>> ELSE <<o[CHOOSE c \in inHand : TRUE]>>
  IN first \o [k \in 1..(n - Len(first)) |-> b[(h + k - 1) % Capacity]]

QueueOf(p, o, b, h, n) == QueueFrom(InHand(p), o, b, h, n)

LEMMA QueueOfMembers ==
  /\ Split!Queued = QueueOf(pc, out, buffer, head, size)
  /\ Split!Queued' = QueueOf(pc', out', buffer', head', size')
BY DEF QueueOf, QueueFrom, InHand, Split!Queued, Split!InState

LEMMA NothingInHand ==
  ASSUME NEW p, NEW o, NEW b, NEW h, NEW n \in Nat,
         \A c \in Consumers : p[c] # "count"
  PROVE  QueueOf(p, o, b, h, n) = [k \in 1..n |-> b[(h + k - 1) % Capacity]]
<1> DEFINE F == [k \in 1..n |-> b[(h + k - 1) % Capacity]]
<1>1. QueueOf(p, o, b, h, n) = <<>> \o F
  <2>1. {c \in Consumers : p[c] = "count"} = {}
    OBVIOUS
  <2>2. Len(<<>>) = 0 /\ n - 0 = n
    OBVIOUS
  <2> QED BY <2>1, <2>2 DEF QueueOf, QueueFrom, InHand
<1>2. F \in Seq({b[(h + k - 1) % Capacity] : k \in 1..n})
  OBVIOUS
<1> QED BY <1>1, <1>2

LEMMA OneInHand ==
  ASSUME NEW p, NEW o, NEW b, NEW h, NEW n \in Nat, n > 0,
         NEW c \in Consumers, p[c] = "count",
         \A u \in Consumers \ {c} : p[u] # "count"
  PROVE  QueueOf(p, o, b, h, n) =
           [k \in 1..n |-> IF k = 1 THEN o[c] ELSE b[(h + (k - 1) - 1) % Capacity]]
<1> DEFINE F == [k \in 1..(n - 1) |-> b[(h + k - 1) % Capacity]]
           G == [k \in 1..n |-> IF k = 1 THEN o[c] ELSE b[(h + (k - 1) - 1) % Capacity]]
<1>1. QueueOf(p, o, b, h, n) = <<o[c]>> \o F
  <2>1. {u \in Consumers : p[u] = "count"} = {c}
    OBVIOUS
  <2>2. (CHOOSE u \in {c} : TRUE) = c
    OBVIOUS
  <2>3. Len(<<o[c]>>) = 1 /\ {c} # {}
    OBVIOUS
  <2> QED BY <2>1, <2>2, <2>3 DEF QueueOf, QueueFrom, InHand
<1> DEFINE S == {b[(h + k - 1) % Capacity] : k \in 1..(n - 1)}
<1>2. F \in Seq(S) /\ Len(F) = n - 1
      /\ \A k \in 1..(n - 1) : F[k] = b[(h + k - 1) % Capacity]
  <2>1. n - 1 \in Nat /\ F \in [1..(n - 1) -> S]
    OBVIOUS
  <2>2. \A k \in 1..(n - 1) : F[k] = b[(h + k - 1) % Capacity]
    OBVIOUS
  <2> HIDE DEF F, S
  <2> QED BY <2>1, <2>2
<1>3. \A k \in 2..n : k - 1 \in 1..(n - 1) /\ F[k - 1] = G[k]
  BY <1>2
<1> HIDE DEF F, S
<1>4. <<o[c]>> \o F = G
  BY <1>2, <1>3
<1> QED BY <1>1, <1>4

\* The queue is the same when the same thread counts and nothing else changes.
LEMMA SameQueue ==
  ASSUME NEW p, NEW q, NEW o, NEW b, NEW h, NEW n,
         \A c \in Consumers : p[c] = "count" <=> q[c] = "count"
  PROVE  QueueOf(p, o, b, h, n) = QueueOf(q, o, b, h, n)
<1>1. InHand(p) = InHand(q)
  BY DEF InHand
<1> QED BY <1>1 DEF QueueOf

\* The message at place k of the queue, in the ring or in hand.
LEMMA QueuedMessages ==
  ASSUME SplitInv
  PROVE  /\ size \in Nat
         /\ (\A c \in Consumers : pc[c] # "count") =>
              /\ Split!Queued = [k \in 1..size |-> buffer[Place(k - 1)]]
              /\ Split!Queued \in [1..size -> Message]
         /\ \A c \in Consumers : pc[c] = "count" =>
              /\ size > 0
              /\ Split!Queued = [k \in 1..size |->
                                   IF k = 1 THEN out[c] ELSE buffer[Place(k - 2)]]
              /\ Split!Queued \in [1..size -> Message]
<1>1. /\ size \in Nat /\ size <= Capacity /\ head \in Nat
      /\ Counting(Producers) \in {0, 1}
  BY FilledType
<1>2. \A k \in 0..(Filled - 1) : buffer[Place(k)] \in Message
  BY DEF SplitInv, Contents
<1>3. ASSUME \A c \in Consumers : pc[c] # "count"
      PROVE  /\ Split!Queued = [k \in 1..size |-> buffer[Place(k - 1)]]
             /\ Split!Queued \in [1..size -> Message]
  <2>1. Split!Queued = [k \in 1..size |-> buffer[(head + k - 1) % Capacity]]
    <3>1. QueueOf(pc, out, buffer, head, size)
            = [k \in 1..size |-> buffer[(head + k - 1) % Capacity]]
      BY <1>1, <1>3, NothingInHand
    <3> QED BY <3>1, QueueOfMembers
  <2>2. \A k \in 1..size : head + k - 1 = head + (k - 1)
    BY <1>1
  <2>3. Split!Queued = [k \in 1..size |-> buffer[Place(k - 1)]]
    BY <2>1, <2>2 DEF Place
  <2>4. Counting(Consumers) = 0
    BY <1>3 DEF Counting
  <2>5. \A k \in 1..size : k - 1 \in 0..(Filled - 1)
    BY <1>1, <2>4 DEF Filled
  <2> QED BY <1>2, <2>3, <2>5
<1>4. ASSUME NEW c \in Consumers, pc[c] = "count"
      PROVE  /\ size > 0
             /\ Split!Queued = [k \in 1..size |->
                                  IF k = 1 THEN out[c] ELSE buffer[Place(k - 2)]]
             /\ Split!Queued \in [1..size -> Message]
  <2>1. size > 0 /\ out[c] \in Message
    BY <1>4 DEF SplitInv, SizesTested, Contents
  <2>2. \A u \in Consumers \ {c} : pc[u] # "count"
    BY <1>4, OneCounts DEF SplitInv, Holding
  <2>3. Split!Queued = [k \in 1..size |-> IF k = 1 THEN out[c]
                                          ELSE buffer[(head + (k - 1) - 1) % Capacity]]
    BY <1>1, <1>4, <2>1, <2>2, OneInHand, QueueOfMembers
  <2>4. \A k \in 1..size : head + (k - 1) - 1 = head + (k - 2)
    BY <1>1
  <2>5. Split!Queued = [k \in 1..size |->
                          IF k = 1 THEN out[c] ELSE buffer[Place(k - 2)]]
    BY <2>3, <2>4 DEF Place
  <2>6. Counting(Consumers) = 1
    BY <1>4 DEF Counting
  <2>7. \A k \in 1..size : k # 1 => k - 2 \in 0..(Filled - 1)
    BY <1>1, <2>6 DEF Filled
  <2> QED BY <1>2, <2>1, <2>5, <2>7
<1> QED BY <1>1, <1>3, <1>4

\* CountPush is BoundedFifo's Put.
LEMMA CountPushFits ==
  ASSUME SplitInv, SplitInv', kind = "split", kind' = kind,
         NEW p \in Producers, Split!CountPush(p)
  PROVE  Fifos
<1>0. FifoQueue = Split!Queued /\ FifoQueue' = Split!Queued'
  BY DEF FifoQueue
<1>1. /\ pc[p] = "count"
      /\ size' = size + 1
      /\ produced' = [produced EXCEPT ![p] = @ + 1]
      /\ Split!Goto(p, "notify")
      /\ UNCHANGED <<got, buffer, head, out>>
  BY DEF Split!CountPush
<1>2. /\ size \in Nat /\ size < Capacity /\ produced[p] < Messages
  <2>1. produced[p] + 1 <= tried[p]
    BY <1>1 DEF SplitInv, PushesCounted, Pushing
  <2>2. /\ produced[p] \in Nat /\ tried[p] \in Nat /\ tried[p] <= Messages
        /\ size \in Nat
    BY SplitType, MessagesAssumption DEF SplitInv
  <2> QED BY <1>1, <2>1, <2>2, MessagesAssumption DEF SplitInv, SizesTested
<1>3. \A c \in Consumers : pc'[c] = pc[c]
  <2>1. "notify" \in SplitLabels
    BY DEF SplitLabels
  <2> QED BY <1>1, <2>1, SplitMoves, BothSides
<1>4. buffer[Place(Filled - 1)] = <<p, produced[p] + 1>> /\ Counting(Producers) = 1
  BY <1>1 DEF SplitInv, Contents, Counting
<1>5. FifoQueue' = QueueOf(pc, out, buffer, head, size + 1)
  BY <1>0, <1>1, <1>3, SameQueue, QueueOfMembers
<1>6. Len(FifoQueue) = size /\ FifoQueue' = Append(FifoQueue, <<p, produced[p] + 1>>)
  <2> DEFINE F == FifoQueue
             G == QueueOf(pc, out, buffer, head, size + 1)
             S == {F[k] : k \in 1..size} \cup {<<p, produced[p] + 1>>}
  <2>1. CASE \A c \in Consumers : pc[c] # "count"
    <3>1. F = [k \in 1..size |-> buffer[Place(k - 1)]]
      BY <1>0, <2>1, QueuedMessages
    <3>2. G = [k \in 1..(size + 1) |-> buffer[(head + k - 1) % Capacity]]
      BY <1>2, <2>1, NothingInHand
    <3>3. head \in Nat
      BY FilledType
    <3>4. \A k \in 1..(size + 1) : head + k - 1 = head + (k - 1)
      BY <1>2, <3>3
    <3>5. \A k \in 1..(size + 1) : G[k] = buffer[Place(k - 1)]
      BY <3>2, <3>4 DEF Place
    <3>6. Filled - 1 = (size + 1) - 1
      <4>1. Counting(Consumers) = 0
        BY <2>1 DEF Counting
      <4> QED BY <1>2, <1>4, <4>1 DEF Filled
    <3>7. G[size + 1] = <<p, produced[p] + 1>>
      BY <1>2, <1>4, <3>5, <3>6
    <3>8. \A k \in 1..size : G[k] = F[k]
      BY <1>2, <3>1, <3>5
    <3>9. F \in [1..size -> S]
      BY <3>1
    <3>10. G \in [1..(size + 1) -> S]
      <4>1. \A k \in 1..(size + 1) : G[k] \in S
        BY <1>2, <3>7, <3>8
      <4> QED BY <3>2, <4>1
    <3> HIDE DEF F, G, S
    <3>11. Len(F) = size /\ G = Append(F, <<p, produced[p] + 1>>)
      BY <1>2, <3>7, <3>8, <3>9, <3>10, AppendIs
    <3> QED BY <1>5, <3>11 DEF F, G
  <2>2. ASSUME NEW c \in Consumers, pc[c] = "count"
        PROVE  Len(FifoQueue) = size
               /\ FifoQueue' = Append(FifoQueue, <<p, produced[p] + 1>>)
    <3>0. \A u \in Consumers \ {c} : pc[u] # "count"
      BY <2>2, OneCounts DEF SplitInv, Holding
    <3>1. F = [k \in 1..size |-> IF k = 1 THEN out[c] ELSE buffer[Place(k - 2)]]
          /\ size > 0
      BY <1>0, <2>2, QueuedMessages
    <3>2. G = [k \in 1..(size + 1) |->
                 IF k = 1 THEN out[c] ELSE buffer[(head + (k - 1) - 1) % Capacity]]
      BY <1>2, <2>2, <3>0, OneInHand
    <3>3. head \in Nat
      BY FilledType
    <3>4. \A k \in 1..(size + 1) : head + (k - 1) - 1 = head + (k - 2)
      BY <1>2, <3>3
    <3>5. \A k \in 1..(size + 1) :
            G[k] = IF k = 1 THEN out[c] ELSE buffer[Place(k - 2)]
      BY <3>2, <3>4 DEF Place
    <3>6. Filled - 1 = (size + 1) - 2
      <4>1. Counting(Consumers) = 1
        BY <2>2 DEF Counting
      <4> QED BY <1>2, <1>4, <4>1 DEF Filled
    <3>7. G[size + 1] = <<p, produced[p] + 1>>
      BY <1>2, <1>4, <3>1, <3>5, <3>6
    <3>8. \A k \in 1..size : G[k] = F[k]
      BY <1>2, <3>1, <3>5
    <3>9. F \in [1..size -> S]
      BY <3>1
    <3>10. G \in [1..(size + 1) -> S]
      <4>1. \A k \in 1..(size + 1) : G[k] \in S
        BY <1>2, <3>7, <3>8
      <4> QED BY <3>2, <4>1
    <3> HIDE DEF F, G, S
    <3>11. Len(F) = size /\ G = Append(F, <<p, produced[p] + 1>>)
      BY <1>2, <3>7, <3>8, <3>9, <3>10, AppendIs
    <3> QED BY <1>5, <3>11 DEF F, G
  <2> QED BY <2>1, <2>2
<1> QED BY <1>1, <1>2, <1>6, PutFits

\* CountPop is BoundedFifo's Take.
LEMMA CountPopFits ==
  ASSUME SplitInv, kind = "split", kind' = kind,
         NEW c \in Consumers, Split!CountPop(c)
  PROVE  Fifos
<1>0. FifoQueue = Split!Queued /\ FifoQueue' = Split!Queued'
  BY DEF FifoQueue
<1>1. /\ pc[c] = "count"
      /\ size' = size - 1
      /\ got' = [got EXCEPT ![c] = Append(@, out[c])]
      /\ Split!Goto(c, "notify")
      /\ UNCHANGED <<produced, buffer, head, out>>
  BY DEF Split!CountPop
<1>2. \A u \in Consumers : pc'[u] # "count"
  <2>1. \A u \in Consumers \ {c} : pc[u] # "count"
    BY <1>1, OneCounts DEF SplitInv, Holding
  <2>2. "notify" \in SplitLabels
    BY DEF SplitLabels
  <2>3. pc'[c] = "notify" /\ \A u \in Threads \ {c} : pc'[u] = pc[u]
    BY <1>1, <2>2, SplitMoves, BothSides
  <2> QED BY <2>1, <2>3, BothSides
<1> DEFINE F == FifoQueue
           G == QueueOf(pc', out, buffer, head, size - 1)
<1>3. FifoQueue' = G
  BY <1>0, <1>1, QueueOfMembers
<1>4. /\ size \in Nat /\ size > 0 /\ size - 1 \in Nat
      /\ F = [k \in 1..size |-> IF k = 1 THEN out[c] ELSE buffer[Place(k - 2)]]
      /\ F \in [1..size -> Message]
  BY <1>0, <1>1, QueuedMessages
<1>5. G = [k \in 1..(size - 1) |-> buffer[(head + k - 1) % Capacity]]
  BY SMTT(60), <1>2, <1>4, NothingInHand
<1>6. \A k \in 1..(size - 1) : G[k] = F[k + 1]
  <2>1. head \in Nat
    BY FilledType
  <2> TAKE k \in 1..(size - 1)
  <2>2. head + k - 1 = head + ((k + 1) - 2) /\ k + 1 \in 1..size /\ k + 1 # 1
    BY <1>4, <2>1
  <2>3. F[k + 1] = buffer[Place((k + 1) - 2)]
    BY <1>4, <2>2
  <2>4. G[k] = buffer[(head + k - 1) % Capacity]
    BY <1>5
  <2> QED BY <2>2, <2>3, <2>4 DEF Place
<1>7. G \in [1..(size - 1) -> Message]
  <2>1. \A k \in 1..(size - 1) : k + 1 \in 1..size
    BY <1>4
  <2>2. \A k \in 1..(size - 1) : G[k] \in Message
    BY <1>4, <1>6, <2>1
  <2> QED BY <1>5, <2>2
<1>8. F[1] = out[c]
  BY <1>4
<1> HIDE DEF F, G
<1>9. F # <<>> /\ Head(F) = out[c] /\ G = Tail(F)
  <2>1. size \in Nat /\ size > 0 /\ F \in [1..size -> Message]
    BY <1>4
  <2>2. F # <<>> /\ Head(F) = F[1] /\ G = Tail(F)
    BY <2>1, <1>6, <1>7, TailIs
  <2> QED BY <1>8, <2>2
<1> QED BY <1>1, <1>3, <1>9, TakeFits DEF F

\* Write and Read move a message, and the queue is the same.
LEMMA WriteFits ==
  ASSUME SplitInv, kind = "split", kind' = kind,
         NEW p \in Producers, Split!Write(p)
  PROVE  Fifos
<1>0. FifoQueue = Split!Queued /\ FifoQueue' = Split!Queued'
  BY DEF FifoQueue
<1>1. /\ pc[p] = "access"
      /\ buffer' = [buffer EXCEPT ![tail] = <<p, produced[p] + 1>>]
      /\ Split!Goto(p, "count")
      /\ UNCHANGED <<produced, got, size, head, out>>
  BY DEF Split!Write, Split!loops
<1>2. \A c \in Consumers : pc'[c] = pc[c]
  <2>1. "count" \in SplitLabels
    BY DEF SplitLabels
  <2> QED BY <1>1, <2>1, SplitMoves, BothSides
<1>3. FifoQueue' = QueueOf(pc, out, buffer', head, size)
  BY <1>0, <1>1, <1>2, SameQueue, QueueOfMembers
<1>4. /\ size \in Nat /\ size < Capacity /\ Capacity \in Nat
      /\ head \in 0..(Capacity - 1) /\ tail = Place(Filled)
      /\ Filled = size - Counting(Consumers)
  <2>1. \A u \in Producers : pc[u] # "count"
    BY <1>1, OneCounts DEF SplitInv, Holding
  <2>2. Counting(Producers) = 0
    BY <2>1 DEF Counting
  <2>3. /\ size \in Nat /\ Capacity \in Nat /\ head \in 0..(Capacity - 1)
        /\ Counting(Consumers) \in {0, 1}
    BY FilledType
  <2> QED BY <1>1, <2>2, <2>3 DEF SplitInv, SizesTested, Contents, Filled
<1>5. ASSUME NEW k \in 0..(Filled - 1)
      PROVE  buffer'[Place(k)] = buffer[Place(k)]
  <2>1. /\ k \in Nat /\ Filled \in Nat /\ k < Filled /\ Filled < k + Capacity
    BY <1>4, FilledType
  <2>2. Place(k) # Place(Filled) /\ Place(k) \in 0..(Capacity - 1)
    BY <1>4, <2>1, Places
  <2>3. buffer \in [0..(Capacity - 1) -> Message \cup {Nothing}]
    BY SplitType DEF SplitInv
  <2> QED BY <1>1, <1>4, <2>2, <2>3
<1>6. CASE \A c \in Consumers : pc[c] # "count"
  <2>1. FifoQueue = [k \in 1..size |-> buffer[Place(k - 1)]]
    BY <1>0, <1>6, QueuedMessages
  <2>2. FifoQueue' = [k \in 1..size |-> buffer'[(head + k - 1) % Capacity]]
    <3>1. QueueOf(pc, out, buffer', head, size)
            = [k \in 1..size |-> buffer'[(head + k - 1) % Capacity]]
      <4>1. size \in Nat
        BY <1>4
      <4> QED BY <1>6, <4>1, NothingInHand
    <3> QED BY <1>3, <3>1
  <2>3. Filled = size
    BY <1>4, <1>6 DEF Counting
  <2>4. \A k \in 1..size : head + k - 1 = head + (k - 1) /\ k - 1 \in 0..(Filled - 1)
    BY <1>4, <2>3
  <2>5. \A k \in 1..size : buffer'[(head + k - 1) % Capacity] = buffer[Place(k - 1)]
    BY <1>5, <2>4 DEF Place
  <2>6. FifoQueue' = FifoQueue
    BY <2>1, <2>2, <2>5
  <2> QED BY <1>1, <2>6, StutterFits
<1>7. ASSUME NEW c \in Consumers, pc[c] = "count" PROVE Fifos
  <2>0. \A u \in Consumers \ {c} : pc[u] # "count"
    BY <1>7, OneCounts DEF SplitInv, Holding
  <2>1. /\ FifoQueue = [k \in 1..size |-> IF k = 1 THEN out[c] ELSE buffer[Place(k - 2)]]
        /\ size > 0
    BY <1>0, <1>7, QueuedMessages
  <2>2. FifoQueue' = [k \in 1..size |->
          IF k = 1 THEN out[c] ELSE buffer'[(head + (k - 1) - 1) % Capacity]]
    <3>1. QueueOf(pc, out, buffer', head, size)
            = [k \in 1..size |->
                 IF k = 1 THEN out[c] ELSE buffer'[(head + (k - 1) - 1) % Capacity]]
      <4>1. size \in Nat /\ size > 0
        BY <1>4, <2>1
      <4> QED BY <1>7, <2>0, <4>1, OneInHand
    <3> QED BY <1>3, <3>1
  <2>3. Filled = size - 1
    BY <1>4, <1>7 DEF Counting
  <2>4. \A k \in 1..size : k # 1 =>
          head + (k - 1) - 1 = head + (k - 2) /\ k - 2 \in 0..(Filled - 1)
    BY <1>4, <2>3
  <2>5. \A k \in 1..size : k # 1 =>
          buffer'[(head + (k - 1) - 1) % Capacity] = buffer[Place(k - 2)]
    BY <1>5, <2>4 DEF Place
  <2>6. FifoQueue' = FifoQueue
    BY <2>1, <2>2, <2>5
  <2> QED BY <1>1, <2>6, StutterFits
<1> QED BY <1>6, <1>7

LEMMA ReadFits ==
  ASSUME SplitInv, kind = "split", kind' = kind,
         NEW c \in Consumers, Split!Read(c)
  PROVE  Fifos
<1>0. FifoQueue = Split!Queued /\ FifoQueue' = Split!Queued'
  BY DEF FifoQueue
<1>1. /\ pc[c] = "access"
      /\ out' = [out EXCEPT ![c] = buffer[head]]
      /\ buffer' = [buffer EXCEPT ![head] = Nothing]
      /\ head' = Split!NextIndex(head)
      /\ Split!Goto(c, "count")
      /\ UNCHANGED <<produced, got, size>>
  BY DEF Split!Read, Split!loops
<1>2. \A u \in Consumers : pc[u] # "count"
  BY <1>1, OneCounts DEF SplitInv, Holding
<1>3. pc'[c] = "count" /\ \A u \in Consumers \ {c} : pc'[u] # "count"
  <2>1. "count" \in SplitLabels
    BY DEF SplitLabels
  <2> QED BY <1>1, <1>2, <2>1, SplitMoves, BothSides
<1>4. /\ size \in Nat /\ size > 0 /\ size <= Capacity /\ Capacity \in Nat
      /\ head \in 0..(Capacity - 1)
  BY <1>1, FilledType DEF SplitInv, SizesTested
<1>5. FifoQueue = [k \in 1..size |-> buffer[Place(k - 1)]]
  BY <1>0, <1>2, QueuedMessages
<1>6. FifoQueue' = [k \in 1..size |->
        IF k = 1 THEN out'[c] ELSE buffer'[(head' + (k - 1) - 1) % Capacity]]
  <2>1. FifoQueue' = QueueOf(pc', out', buffer', head', size)
    BY <1>0, <1>1, QueueOfMembers
  <2> QED BY <1>3, <1>4, <2>1, OneInHand
<1>7. Place(0) = head /\ out'[c] = buffer[head]
  <2>1. out \in [Consumers -> Message \cup {Nothing}]
    BY SplitType DEF SplitInv
  <2> QED BY <1>1, <1>4, <2>1, Places
<1>8. ASSUME NEW k \in 1..size, k # 1
      PROVE  buffer'[(head' + (k - 1) - 1) % Capacity] = buffer[Place(k - 1)]
  <2>1. /\ k - 2 \in Nat /\ (k - 2) + 1 = k - 1 /\ k - 1 \in Nat
        /\ 0 < k - 1 /\ k - 1 < 0 + Capacity /\ 0 \in Nat
    BY <1>4, <1>8
  <2>2. head' \in Nat
    <3>1. head' = Place(0 + 1)
      BY <1>1, <1>4, <1>7, Places
    <3> QED BY <1>4, <3>1, Places
  <2>3. head' + (k - 1) - 1 = head' + (k - 2)
    BY <1>4, <2>2
  <2>4. (head' + (k - 2)) % Capacity = Place(k - 1)
    BY <1>1, <1>4, <2>1, Places
  <2>5. Place(0) # Place(k - 1) /\ Place(k - 1) \in 0..(Capacity - 1)
    BY <1>4, <2>1, Places
  <2>6. buffer \in [0..(Capacity - 1) -> Message \cup {Nothing}]
    BY SplitType DEF SplitInv
  <2>7. buffer'[Place(k - 1)] = buffer[Place(k - 1)]
    BY <1>1, <1>7, <2>5, <2>6
  <2> QED BY <2>3, <2>4, <2>7
<1>9. \A k \in 1..size :
        (IF k = 1 THEN out'[c] ELSE buffer'[(head' + (k - 1) - 1) % Capacity])
          = buffer[Place(k - 1)]
  <2>1. Place(1 - 1) = head
    BY <1>7
  <2> QED BY <1>7, <1>8, <2>1
<1>10. FifoQueue' = FifoQueue
  BY <1>5, <1>6, <1>9
<1> QED BY <1>1, <1>10, StutterFits

\* Every other step.
LEMMA QuietFits ==
  ASSUME kind = "split", kind' = kind,
         UNCHANGED <<produced, got, out, buffer, head, size>>,
         \A c \in Consumers : pc[c] = "count" <=> pc'[c] = "count"
  PROVE  Fifos
<1>1. FifoQueue' = FifoQueue
  BY SameQueue, QueueOfMembers DEF FifoQueue
<1> QED BY <1>1, StutterFits

LEMMA SplitFits ==
  ASSUME SplitInv, SplitInv', kind = "split", kind' = kind, Split!Next
  PROVE  Fifos
<1>l. {"lock", "test", "check", "sleep", "wait", "idle", "access"} \subseteq SplitLabels
  BY DEF SplitLabels
<1>c. Consumers \subseteq Threads /\ Producers \subseteq Threads
  BY DEF Threads
<1> USE DEF Split!members, Split!ring, Split!loops, Split!flag
<1>1. ASSUME UNCHANGED <<produced, got, out, buffer, head, size>>,
             NEW t \in Threads, pc[t] # "count",
             NEW label \in SplitLabels \ {"count"}, Split!Goto(t, label)
      PROVE  Fifos
  <2>1. \A c \in Consumers : pc[c] = "count" <=> pc'[c] = "count"
    BY <1>c, <1>1, SplitMoves
  <2> QED BY <1>1, <2>1, QuietFits
<1>2. ASSUME NEW p \in Producers,
             \/ Split!CallPush(p) \/ Split!LockTail(p) \/ Split!TestNotFull(p)
             \/ Split!SleepNotFull(p) \/ Split!RefusePush(p) \/ Split!AcceptPush(p)
      PROVE  Fifos
  <2>1. /\ UNCHANGED <<produced, got, out, buffer, head, size>>
        /\ pc[p] # "count"
        /\ \E label \in {"lock", "test", "check", "sleep", "wait", "idle", "access"} :
             Split!Goto(p, label)
    BY <1>2
    DEF Split!CallPush, Split!BeginPush, Split!LockTail, Split!TestNotFull,
        Split!SleepNotFull, Split!RefusePush, Split!AcceptPush
  <2> QED BY <1>l, <1>c, <1>1, <2>1
<1>3. ASSUME NEW c \in Consumers,
             \/ Split!CallPop(c) \/ Split!LockHead(c) \/ Split!TestNotEmpty(c)
             \/ Split!SleepNotEmpty(c) \/ Split!RefusePop(c) \/ Split!AcceptPop(c)
      PROVE  Fifos
  <2>1. /\ UNCHANGED <<produced, got, out, buffer, head, size>>
        /\ pc[c] # "count"
        /\ \E label \in {"lock", "test", "check", "sleep", "wait", "idle", "access"} :
             Split!Goto(c, label)
    BY <1>3
    DEF Split!CallPop, Split!BeginPop, Split!LockHead, Split!TestNotEmpty,
        Split!SleepNotEmpty, Split!RefusePop, Split!AcceptPop
  <2> QED BY <1>l, <1>c, <1>1, <2>1
<1>4. Typed(pc, SplitLabels)
  BY SplitType DEF SplitInv
<1>5. ASSUME \/ \E p \in Producers : Split!NotifyNotEmpty(p)
             \/ \E c \in Consumers : Split!NotifyNotFull(c)
      PROVE  Fifos
  <2>1. PICK t \in Threads, other \in Sides :
          /\ pc[t] = "notify"
          /\ \/ pc' = [pc EXCEPT ![t] = "idle"]
             \/ \E w \in Waiting(other) : pc' = [pc EXCEPT ![t] = "idle", ![w] = "lock"]
          /\ UNCHANGED <<produced, got, out, buffer, head, size>>
    BY <1>5, BothSides
    DEF Split!NotifyNotEmpty, Split!NotifyNotFull, Split!NotifyOne,
        Split!Waiting, Split!InState, Waiting, InState, Split!Goto
  <2>2. \A c \in Consumers : pc[c] = "count" <=> pc'[c] = "count"
    <3>1. CASE pc' = [pc EXCEPT ![t] = "idle"]
      BY <1>4, <1>c, <2>1, <3>1 DEF Typed
    <3>2. CASE \E w \in Waiting(other) : pc' = [pc EXCEPT ![t] = "idle", ![w] = "lock"]
      <4>1. PICK w \in Waiting(other) : pc' = [pc EXCEPT ![t] = "idle", ![w] = "lock"]
        BY <3>2
      <4>2. w \in Threads /\ pc[w] = "wait"
        BY SidesFinite DEF Waiting, InState
      <4> QED BY <1>4, <1>c, <2>1, <4>1, <4>2 DEF Typed
    <3> QED BY <2>1, <3>1, <3>2
  <2> QED BY <2>1, <2>2, QuietFits
<1>6. CASE Split!SetStopped
  BY <1>6, QuietFits DEF Split!SetStopped, Split!BeginStop
<1>7. CASE Split!StopStep
  <2>1. /\ UNCHANGED <<produced, got, out, buffer, head, size>>
        /\ \E side \in Sides :
             pc' = [t \in Threads |-> IF t \in Waiting(side) THEN "lock" ELSE pc[t]]
    BY <1>7, BothSides
    DEF Split!StopStep, Split!StopNotEmpty, Split!StopNotFull, Split!NotifyAll,
        Split!Threads, Threads, Split!Waiting, Split!InState, Waiting, InState
  <2>2. \A c \in Consumers : pc[c] = "count" <=> pc'[c] = "count"
    BY <1>c, <2>1 DEF Waiting, InState
  <2> QED BY <2>1, <2>2, QuietFits
<1>8. ASSUME NEW t \in Threads, Split!WakeSpuriously(t) PROVE Fifos
  BY <1>l, <1>1, <1>8 DEF Split!WakeSpuriously, Split!Wake
<1>9. ASSUME NEW p \in Producers, Split!Push(p) PROVE Fifos
  BY <1>2, <1>5, <1>9, WriteFits, CountPushFits DEF Split!Push
<1>10. ASSUME NEW c \in Consumers, Split!Pop(c) PROVE Fifos
  BY <1>3, <1>5, <1>10, ReadFits, CountPopFits DEF Split!Pop
<1> QED BY <1>6, <1>7, <1>8, <1>9, <1>10 DEF Split!Next, Split!Threads, Threads

(***************************************************************************)
(* Both queues implement a bounded FIFO: what is popped is what was        *)
(* pushed, in order, once each, and never more than the capacity is        *)
(* queued.                                                                 *)
(***************************************************************************)
THEOREM Implementation == TestSpec => ImplementsFifo
<1>1. TestInit => Fifo!Init
  <2> SUFFICES ASSUME TestInit PROVE Fifo!Init
    OBVIOUS
  <2>1. /\ produced = [p \in Producers |-> 0] /\ got = [c \in Consumers |-> <<>>]
        /\ queue = <<>> /\ size = 0 /\ \A c \in Consumers : pc[c] # "count"
    BY DEF TestInit, Basic!Constructed, Basic!Init, Split!Constructed, Split!Init,
           Split!Threads
  <2>2. Split!Queued = <<>>
    <3>1. QueueOf(pc, out, buffer, head, 0)
            = [k \in 1..0 |-> buffer[(head + k - 1) % Capacity]]
      BY <2>1, NothingInHand
    <3> QED BY <2>1, <3>1, QueueOfMembers
  <2> QED BY <2>1, <2>2 DEF Fifo!Init
<1>2. IInv /\ IInv' /\ [TestNext]_testVars => [Fifo!Next]_(Fifo!vars)
  <2> SUFFICES ASSUME IInv, IInv', TestNext \/ UNCHANGED testVars PROVE Fifos
    BY DEF Fifos
  <2>1. CASE TestNext
    <3>1. kind' = kind
      BY <2>1 DEF TestNext
    <3>2. CASE kind = "basic" /\ Basic!Next
      BY <3>1, <3>2, BasicFits DEF IInv
    <3>3. CASE kind = "split" /\ Split!Next
      BY <3>1, <3>3, SplitFits DEF IInv
    <3> QED BY <2>1, <3>2, <3>3 DEF TestNext
  <2>2. CASE UNCHANGED testVars
    <3>1. UNCHANGED <<kind, queue, produced, got, pc, out, buffer, head, size>>
      BY <2>2 DEF testVars, clients, loops, members
    <3>2. FifoQueue' = FifoQueue
      BY <3>1, QueueOfMembers DEF FifoQueue
    <3> QED BY <3>1, <3>2, StutterFits
  <2> QED BY <2>1, <2>2
<1> QED BY <1>1, <1>2, Invariance, PTL DEF TestSpec, ImplementsFifo, Fifo!Spec

=============================================================================
