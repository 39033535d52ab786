------------------------- MODULE SynchronizerProofs -------------------------
(***************************************************************************)
(* Proofs about the three semaphores and the barrier, for any number of    *)
(* threads, permits and rounds.                                            *)
(***************************************************************************)
EXTENDS MCSynchronizers, FiniteSetTheorems, TLAPS

-----------------------------------------------------------------------------
(* Counting the threads at some labels *)

At(p, labels) == {t \in Callers : p[t] \in labels}
N(p, labels) == Cardinality(At(p, labels))
In(label, labels) == IF label \in labels THEN 1 ELSE 0

LEMMA CountType ==
  ASSUME NEW p, NEW labels
  PROVE  IsFiniteSet(At(p, labels)) /\ N(p, labels) \in Nat
<1>1. IsFiniteSet(Callers)
  BY ThreadsAssumption, FS_AddElement DEF Callers
<1> QED BY <1>1, FS_Subset, FS_CardinalityType DEF At, N

\* A thread that is there counts.
LEMMA CountPositive ==
  ASSUME NEW p, NEW labels, NEW t \in Callers, p[t] \in labels
  PROVE  N(p, labels) > 0
<1>1. At(p, labels) # {}
  BY DEF At
<1> QED BY <1>1, CountType, FS_EmptySet DEF N

\* More threads count if more of them are there.
LEMMA CountMonotone ==
  ASSUME NEW p, NEW q, NEW labels, NEW more,
         \A t \in Callers : p[t] \in labels => q[t] \in more
  PROVE  N(p, labels) <= N(q, more)
<1>1. At(p, labels) \subseteq At(q, more)
  BY DEF At
<1> QED BY <1>1, CountType, FS_Subset DEF N

\* The count changes by what the one thread that moves adds to it.
LEMMA CountMove ==
  ASSUME NEW p, NEW q, NEW labels, NEW t \in Callers,
         \A u \in Callers \ {t} : q[u] = p[u]
  PROVE  N(q, labels) = N(p, labels) + In(q[t], labels) - In(p[t], labels)
<1> DEFINE rest == At(p, labels) \ {t}
<1>1. IsFiniteSet(rest) /\ Cardinality(rest) \in Nat /\ t \notin rest
  BY CountType, FS_Subset, FS_CardinalityType
<1>2. ASSUME NEW r, \A u \in Callers \ {t} : r[u] = p[u]
      PROVE  N(r, labels) = Cardinality(rest) + In(r[t], labels)
  <2>1. CASE r[t] \in labels
    <3>1. At(r, labels) = rest \cup {t}
      BY <1>2, <2>1 DEF At
    <3> QED BY <1>1, <2>1, <3>1, FS_AddElement DEF N, In
  <2>2. CASE r[t] \notin labels
    <3>1. At(r, labels) = rest
      BY <1>2, <2>2 DEF At
    <3> QED BY <1>1, <2>2, <3>1 DEF N, In
  <2> QED BY <2>1, <2>2
<1>3. N(p, labels) = Cardinality(rest) + In(p[t], labels)
  BY <1>2
<1>4. N(q, labels) = Cardinality(rest) + In(q[t], labels)
  BY <1>2
<1> QED BY <1>1, <1>3, <1>4 DEF In

\* The same of the two threads of a notification.
LEMMA CountTwoMoves ==
  ASSUME NEW p, NEW q, NEW labels, NEW t \in Callers, NEW w \in Callers, t # w,
         \A u \in Callers \ {t, w} : q[u] = p[u]
  PROVE  N(q, labels) = N(p, labels) + In(q[t], labels) - In(p[t], labels)
                                     + In(q[w], labels) - In(p[w], labels)
<1> DEFINE r == [u \in Callers |-> IF u = t THEN q[t] ELSE p[u]]
<1>1. N(r, labels) = N(p, labels) + In(r[t], labels) - In(p[t], labels)
  BY CountMove
<1>2. N(q, labels) = N(r, labels) + In(q[w], labels) - In(r[w], labels)
  BY CountMove
<1>3. N(p, labels) \in Nat /\ N(q, labels) \in Nat /\ N(r, labels) \in Nat
  BY CountType
<1>4. r[t] = q[t] /\ r[w] = p[w]
  OBVIOUS
<1> HIDE DEF r
<1> QED BY <1>1, <1>2, <1>3, <1>4 DEF In

LEMMA CountOfNobody ==
  ASSUME NEW p, NEW labels, \A t \in Callers : p[t] \notin labels
  PROVE  N(p, labels) = 0
<1>1. At(p, labels) = {}
  BY DEF At
<1> QED BY <1>1, FS_EmptySet DEF N

-----------------------------------------------------------------------------
(* What every semaphore's steps do to its threads' labels *)

Typed(p, Labels) == p \in [Callers -> Labels]

LEMMA Goes ==
  ASSUME NEW Labels, Typed(pc, Labels),
         NEW t \in Callers, NEW label \in Labels, Goto(t, label)
  PROVE  /\ Typed(pc', Labels)
         /\ pc'[t] = label
         /\ \A u \in Callers \ {t} : pc'[u] = pc[u]
         /\ \A labels : N(pc', labels) =
              N(pc, labels) + In(label, labels) - In(pc[t], labels)
<1>1. /\ Typed(pc', Labels)
      /\ pc'[t] = label
      /\ \A u \in Callers \ {t} : pc'[u] = pc[u]
  BY DEF Goto, Typed
<1>2. \A labels : N(pc', labels) =
                     N(pc, labels) + In(label, labels) - In(pc[t], labels)
  <2> TAKE labels
  <2>1. N(pc', labels) = N(pc, labels) + In(pc'[t], labels) - In(pc[t], labels)
    BY <1>1, CountMove
  <2> QED BY <1>1, <2>1
<1> QED BY <1>1, <1>2

\* One thread goes and one comes: the count is the same.
LEMMA CountExchange ==
  ASSUME NEW p, NEW q, NEW labels, NEW t \in Callers, NEW w \in Callers, t # w,
         \A u \in Callers \ {t, w} : q[u] = p[u],
         p[t] \in labels, q[t] \notin labels, p[w] \notin labels, q[w] \in labels
  PROVE  N(q, labels) = N(p, labels)
<1>1. N(q, labels) = N(p, labels) + In(q[t], labels) - In(p[t], labels)
                                  + In(q[w], labels) - In(p[w], labels)
  BY CountTwoMoves
<1>2. N(p, labels) \in Nat
  BY CountType
<1> QED BY <1>1, <1>2 DEF In

\* A notification wakes a sleeper, who goes on at label, if there is one.
Wakes(t, label) ==
  \/ /\ \A u \in Callers : pc[u] # "wait"
     /\ pc' = [pc EXCEPT ![t] = "idle"]
  \/ \E w \in Callers : /\ pc[w] = "wait"
                        /\ pc' = [pc EXCEPT ![t] = "idle", ![w] = label]

LEMMA Notified ==
  ASSUME NEW Labels, Typed(pc, Labels),
         NEW t \in Callers, NEW label \in Labels, "idle" \in Labels,
         label # "wait", pc[t] = "notify", Wakes(t, label)
  PROVE  /\ Typed(pc', Labels)
         /\ pc'[t] = "idle"
         /\ \A u \in Callers \ {t} :
              pc'[u] = pc[u] \/ (pc[u] = "wait" /\ pc'[u] = label)
         /\ \/ \A u \in Callers : pc'[u] # "wait"
            \/ \A labels : "notify" \in labels /\ label \in labels
                             /\ "idle" \notin labels /\ "wait" \notin labels
                             => N(pc', labels) = N(pc, labels)
<1>1. CASE /\ \A u \in Callers : pc[u] # "wait"
           /\ pc' = [pc EXCEPT ![t] = "idle"]
  <2>1. /\ Typed(pc', Labels) /\ pc'[t] = "idle"
        /\ \A u \in Callers \ {t} : pc'[u] = pc[u]
    BY <1>1 DEF Typed
  <2>2. \A u \in Callers : pc'[u] # "wait"
    BY <1>1, <2>1
  <2> QED BY <2>1, <2>2
<1>2. CASE \E w \in Callers : /\ pc[w] = "wait"
                              /\ pc' = [pc EXCEPT ![t] = "idle", ![w] = label]
  <2>1. PICK w \in Callers : /\ pc[w] = "wait"
                             /\ pc' = [pc EXCEPT ![t] = "idle", ![w] = label]
    BY <1>2
  <2>2. /\ Typed(pc', Labels) /\ t # w /\ pc[w] = "wait"
        /\ pc'[t] = "idle" /\ pc'[w] = label
        /\ \A u \in Callers \ {t, w} : pc'[u] = pc[u]
    BY <2>1 DEF Typed
  <2>3. ASSUME NEW labels, "notify" \in labels, label \in labels,
               "idle" \notin labels, "wait" \notin labels
        PROVE  N(pc', labels) = N(pc, labels)
    <3>1. /\ pc[t] \in labels /\ pc'[t] \notin labels
          /\ pc[w] \notin labels /\ pc'[w] \in labels
      BY <2>2, <2>3
    <3> QED BY <2>2, <3>1, CountExchange
  <2>4. \A u \in Callers \ {t} :
          pc'[u] = pc[u] \/ (pc[u] = "wait" /\ pc'[u] = label)
    BY <2>1, <2>2
  <2> QED BY <2>2, <2>3, <2>4
<1> QED BY <1>1, <1>2 DEF Wakes

\* Two counts of the same threads are the same.
LEMMA CountSame ==
  ASSUME NEW p, NEW q, NEW labels,
         \A t \in Callers : p[t] \in labels <=> q[t] \in labels
  PROVE  N(p, labels) = N(q, labels)
<1>1. At(p, labels) = At(q, labels)
  BY DEF At
<1> QED BY <1>1 DEF N

-----------------------------------------------------------------------------
(* The semaphore with a mutex *)

MutexInv == Mutex!TypeOK /\ Mutex!PermitsConserved /\ Mutex!NoWaiterForgotten

LEMMA MutexNumber ==
  \A labels : /\ Mutex!Number(labels) = N(pc, labels)
              /\ Mutex!Number(labels)' = N(pc', labels)
BY DEF Mutex!Number, Mutex!Callers, Callers, N, At, Mutex!Cardinality, Cardinality

\* The invariant in terms of the counts.
LEMMA MutexCounts ==
  /\ Mutex!PermitsConserved <=> count + N(pc, {"inside"}) = Initial + granted
  /\ Mutex!PermitsConserved' <=> count' + N(pc', {"inside"}) = Initial + granted'
  /\ Mutex!NoWaiterForgotten <=>
       ((\E t \in Callers : pc[t] = "wait") => count <= N(pc, {"enter", "notify"}))
  /\ Mutex!NoWaiterForgotten' <=>
       ((\E t \in Callers : pc'[t] = "wait") => count' <= N(pc', {"enter", "notify"}))
BY MutexNumber
DEF Mutex!PermitsConserved, Mutex!NoWaiterForgotten, Mutex!InState,
    Mutex!Callers, Callers

MutexLabels == {"idle", "enter", "wait", "inside", "notify"}

\* What the steps do to the two counts.
LEMMA MutexGoes ==
  ASSUME Mutex!TypeOK, NEW t \in Callers, NEW label \in MutexLabels,
         t = Main => label \in {"idle", "notify"}, Mutex!Goto(t, label)
  PROVE  /\ Typed(pc', MutexLabels)
         /\ pc'[Main] \in {"idle", "notify"}
         /\ pc'[t] = label
         /\ \A u \in Callers \ {t} : pc'[u] = pc[u]
         /\ \A labels : N(pc', labels) =
              N(pc, labels) + In(label, labels) - In(pc[t], labels)
<1>1. Goto(t, label) /\ Typed(pc, MutexLabels)
  BY DEF Mutex!TypeOK, Mutex!Goto, Goto, Mutex!Callers, Callers, MutexLabels, Typed
<1>2. Main \in Callers /\ pc[Main] \in {"idle", "notify"}
  BY DEF Mutex!TypeOK, Callers
<1> QED BY <1>1, <1>2, Goes

LEMMA MutexNotify ==
  ASSUME MutexInv, NEW t \in Callers, Mutex!NotifyOne(t) PROVE MutexInv'
<1> USE DEF MutexInv
<1>1. /\ pc[t] = "notify" /\ Typed(pc, MutexLabels)
      /\ UNCHANGED <<count, old, rounds, granted>>
  BY DEF Mutex!NotifyOne, Mutex!Notify, Mutex!TypeOK, Mutex!Callers, Callers, MutexLabels, Typed
<1>2. Wakes(t, "enter")
  BY DEF Mutex!NotifyOne, Mutex!Notify, Mutex!InState, Mutex!Goto,
         Mutex!Callers, Callers, Wakes
<1>3. "idle" \in MutexLabels /\ "enter" \in MutexLabels
  BY DEF MutexLabels
<1>4. /\ Typed(pc', MutexLabels)
      /\ pc'[t] = "idle"
      /\ \A u \in Callers \ {t} :
           pc'[u] = pc[u] \/ (pc[u] = "wait" /\ pc'[u] = "enter")
      /\ \/ \A u \in Callers : pc'[u] # "wait"
         \/ N(pc', {"enter", "notify"}) = N(pc, {"enter", "notify"})
  <2> DEFINE labels == {"enter", "notify"}
  <2>1. /\ "notify" \in labels /\ "enter" \in labels
        /\ "idle" \notin labels /\ "wait" \notin labels
    OBVIOUS
  <2> HIDE DEF labels
  <2> SUFFICES /\ Typed(pc', MutexLabels)
               /\ pc'[t] = "idle"
               /\ \A u \in Callers \ {t} :
                    pc'[u] = pc[u] \/ (pc[u] = "wait" /\ pc'[u] = "enter")
               /\ \/ \A u \in Callers : pc'[u] # "wait"
                  \/ N(pc', labels) = N(pc, labels)
    BY DEF labels
  <2> QED BY <1>1, <1>2, <1>3, <2>1, Notified
<1>5. Mutex!TypeOK'
  BY <1>1, <1>4 DEF Mutex!TypeOK, Mutex!Callers, Callers, MutexLabels, Typed
<1>6. N(pc', {"inside"}) = N(pc, {"inside"})
  BY <1>1, <1>4, CountSame
<1> QED BY <1>1, <1>4, <1>5, <1>6, MutexCounts

LEMMA MutexGrant == ASSUME MutexInv, Mutex!Grant PROVE MutexInv'
<1> USE DEF MutexInv
<1>1. /\ Main \in Callers /\ Mutex!Goto(Main, "notify") /\ pc[Main] = "idle"
      /\ count' = count + 1 /\ granted' = granted + 1 /\ granted < Extra
      /\ UNCHANGED <<old, rounds>>
  BY DEF Mutex!Grant, Mutex!CallGrant, Callers
<1>2. /\ count \in Nat /\ Initial \in Nat /\ granted \in Nat
      /\ \A labels : N(pc, labels) \in Nat /\ N(pc', labels) \in Nat
  BY CountType, CountsAssumption DEF Mutex!TypeOK
<1>3. Mutex!TypeOK'
  BY <1>1, <1>2, MutexGoes, CountsAssumption
  DEF Mutex!TypeOK, Mutex!Callers, Callers, MutexLabels, Typed
<1>4. /\ N(pc', {"inside"}) = N(pc, {"inside"})
      /\ N(pc', {"enter", "notify"}) = N(pc, {"enter", "notify"}) + 1
  BY <1>1, <1>2, MutexGoes DEF In, MutexLabels
<1>5. \A t \in Callers : pc'[t] = "wait" => pc[t] = "wait"
  BY <1>1, MutexGoes DEF MutexLabels
<1>6. Mutex!PermitsConserved'
  <2>1. count + N(pc, {"inside"}) = Initial + granted
    BY MutexCounts
  <2>2. count' + N(pc', {"inside"}) = Initial + granted'
    BY <1>1, <1>2, <1>4, <2>1
  <2> QED BY <2>2, MutexCounts
<1>7. Mutex!NoWaiterForgotten'
  <2> SUFFICES ASSUME NEW t \in Callers, pc'[t] = "wait"
               PROVE  count' <= N(pc', {"enter", "notify"})
    BY MutexCounts
  <2>1. count <= N(pc, {"enter", "notify"})
    BY <1>5, MutexCounts
  <2> QED BY <1>1, <1>2, <1>4, <2>1
<1> QED BY <1>3, <1>6, <1>7

LEMMA MutexStep ==
  ASSUME MutexInv, NEW t \in Threads, Mutex!Step(t) \/ Mutex!WakeUp(t)
  PROVE  MutexInv'
<1> USE DEF MutexInv
<1>1. t \in Callers /\ t # Main
  BY ThreadsAssumption DEF Callers
<1>2. /\ count \in Nat /\ Initial \in Nat /\ granted \in Nat
      /\ \A labels : N(pc, labels) \in Nat /\ N(pc', labels) \in Nat
  BY CountType, CountsAssumption DEF Mutex!TypeOK
<1>3. CASE Mutex!CallAcquire(t)
  <2>1. /\ pc[t] = "idle" /\ Mutex!Goto(t, "enter")
        /\ count' = count /\ granted' = granted
    BY <1>3 DEF Mutex!CallAcquire, Mutex!Call
  <2>2. Mutex!TypeOK'
    BY <1>1, <1>3, <2>1, MutexGoes, CountsAssumption
    DEF Mutex!CallAcquire, Mutex!Call, Mutex!TypeOK, Mutex!Callers, Callers, MutexLabels, Typed
  <2> QED BY <1>1, <1>2, <2>1, <2>2, MutexGoes, MutexCounts DEF In, MutexLabels
<1>4. CASE Mutex!Block(t)
  <2>1. /\ count = 0 /\ Mutex!Goto(t, "wait") /\ pc[t] = "enter"
        /\ UNCHANGED <<count, old, rounds, granted>>
    BY <1>2, <1>4 DEF Mutex!Block
  <2>2. Mutex!TypeOK'
    BY <1>1, <2>1, MutexGoes DEF Mutex!TypeOK, Mutex!Callers, Callers, MutexLabels, Typed
  <2> QED BY <1>1, <1>2, <2>1, <2>2, MutexGoes, MutexCounts DEF In, MutexLabels
<1>5. CASE Mutex!Acquire(t)
  <2>1. /\ count > 0 /\ Mutex!Goto(t, "inside") /\ pc[t] = "enter"
        /\ count' = count - 1
        /\ UNCHANGED <<old, rounds, granted>>
    BY <1>5 DEF Mutex!Acquire
  <2>2. Mutex!TypeOK'
    BY <1>1, <1>2, <2>1, MutexGoes DEF Mutex!TypeOK, Mutex!Callers, Callers, MutexLabels, Typed
  <2> QED BY <1>1, <1>2, <2>1, <2>2, MutexGoes, MutexCounts DEF In, MutexLabels
<1>6. CASE Mutex!Release(t)
  <2>1. /\ Mutex!Goto(t, "notify") /\ pc[t] = "inside"
        /\ count' = count + 1
        /\ UNCHANGED <<old, rounds, granted>>
    BY <1>6 DEF Mutex!Release
  <2>2. Mutex!TypeOK'
    BY <1>1, <1>2, <2>1, MutexGoes DEF Mutex!TypeOK, Mutex!Callers, Callers, MutexLabels, Typed
  <2> QED BY <1>1, <1>2, <2>1, <2>2, MutexGoes, MutexCounts DEF In, MutexLabels
<1>7. CASE Mutex!WakeUp(t)
  <2>1. /\ Mutex!Goto(t, "enter") /\ pc[t] = "wait"
        /\ UNCHANGED <<count, old, rounds, granted>>
    BY <1>7 DEF Mutex!WakeUp, Mutex!WakeSpuriously
  <2>2. Mutex!TypeOK'
    BY <1>1, <2>1, MutexGoes DEF Mutex!TypeOK, Mutex!Callers, Callers, MutexLabels, Typed
  <2> QED BY <1>1, <1>2, <2>1, <2>2, MutexGoes, MutexCounts DEF In, MutexLabels
<1> QED
  BY <1>1, <1>3, <1>4, <1>5, <1>6, <1>7, MutexNotify DEF Mutex!Step

LEMMA MutexNext ==
  ASSUME MutexInv, Mutex!Next \/ UNCHANGED vars PROVE MutexInv'
<1>1. ASSUME UNCHANGED vars PROVE MutexInv'
  BY <1>1 DEF vars, MutexInv, Mutex!TypeOK, Mutex!PermitsConserved,
              Mutex!NoWaiterForgotten, Mutex!InState, Mutex!Number
<1>2. Mutex!vars = vars
  BY DEF Mutex!vars, vars
<1> QED
  BY <1>1, <1>2, MutexStep, MutexNotify, MutexGrant
  DEF Mutex!Next, Mutex!MainStep, Mutex!Joined, vars, Mutex!vars, Callers

LEMMA MutexInit == ASSUME Init PROVE MutexInv
<1> USE DEF Init
<1>1. Mutex!TypeOK
  BY CountsAssumption DEF Mutex!TypeOK, Mutex!Callers, Callers, MutexLabels, Typed
<1>2. N(pc, {"inside"}) = 0 /\ \A t \in Callers : pc[t] # "wait"
  BY CountOfNobody
<1> QED BY <1>1, <1>2, MutexCounts, CountsAssumption DEF MutexInv

-----------------------------------------------------------------------------
(* The semaphore with an atomic *)

AtomicInv ==
  Atomic!TypeOK /\ Atomic!PermitsConserved /\ Atomic!NoWaiterForgotten

AtomicLabels == {"idle", "load", "test", "look", "wait", "inside", "notify"}
OnItsWay == {"load", "test", "look", "notify"}

LEMMA AtomicNumber ==
  \A labels : /\ Atomic!Number(labels) = N(pc, labels)
              /\ Atomic!Number(labels)' = N(pc', labels)
BY DEF Atomic!Number, Atomic!Callers, Callers, N, At, Atomic!Cardinality, Cardinality

\* The invariant in terms of the counts.
LEMMA AtomicCounts ==
  /\ Atomic!PermitsConserved <=> count + N(pc, {"inside"}) = Initial + granted
  /\ Atomic!PermitsConserved' <=> count' + N(pc', {"inside"}) = Initial + granted'
  /\ Atomic!NoWaiterForgotten <=>
       ((\E t \in Callers : pc[t] = "wait") => count <= N(pc, OnItsWay))
  /\ Atomic!NoWaiterForgotten' <=>
       ((\E t \in Callers : pc'[t] = "wait") => count' <= N(pc', OnItsWay))
BY AtomicNumber
DEF Atomic!PermitsConserved, Atomic!NoWaiterForgotten, Atomic!InState,
    Atomic!Callers, Callers, OnItsWay

LEMMA AtomicTyped ==
  Atomic!TypeOK <=> /\ count \in 0..(Initial + Extra)
                    /\ old \in [Callers -> 0..(Initial + Extra)]
                    /\ Typed(pc, AtomicLabels)
                    /\ rounds \in [Threads -> 0..Rounds]
                    /\ granted \in 0..Extra
BY DEF Atomic!TypeOK, Atomic!Callers, Callers, Typed, AtomicLabels

LEMMA AtomicTypedPrime ==
  Atomic!TypeOK' <=> /\ count' \in 0..(Initial + Extra)
                     /\ old' \in [Callers -> 0..(Initial + Extra)]
                     /\ Typed(pc', AtomicLabels)
                     /\ rounds' \in [Threads -> 0..Rounds]
                     /\ granted' \in 0..Extra
BY DEF Atomic!TypeOK, Atomic!Callers, Callers, Typed, AtomicLabels

(***************************************************************************)
(* A step of one thread keeps the invariant if it moves the permit along   *)
(* with the thread, puts the thread to sleep only when there is no permit, *)
(* and adds no permit without somebody on the way to it.                   *)
(***************************************************************************)
LEMMA AtomicGoes ==
  ASSUME AtomicInv, NEW t \in Callers, NEW label \in AtomicLabels,
         Atomic!Goto(t, label),
         old' \in [Callers -> 0..(Initial + Extra)],
         rounds' \in [Threads -> 0..Rounds], granted' \in 0..Extra,
         count' \in Nat,
         count' + In(label, {"inside"}) + granted =
           count + In(pc[t], {"inside"}) + granted',
         label = "wait" => count' = 0,
         count' = 0 \/ count' + In(pc[t], OnItsWay) <= count + In(label, OnItsWay)
  PROVE  AtomicInv'
<1>1. Goto(t, label) /\ Typed(pc, AtomicLabels)
  BY AtomicTyped DEF Atomic!Goto, Goto, AtomicInv
<1>2. /\ Typed(pc', AtomicLabels)
      /\ pc'[t] = label
      /\ \A u \in Callers \ {t} : pc'[u] = pc[u]
      /\ \A labels : N(pc', labels) =
           N(pc, labels) + In(label, labels) - In(pc[t], labels)
  BY <1>1, Goes
<1>3. /\ count \in Nat /\ granted \in Nat /\ granted' \in Nat
      /\ Initial \in Nat /\ Extra \in Nat
      /\ \A labels : N(pc, labels) \in Nat /\ N(pc', labels) \in Nat
      /\ \A a, labels : In(a, labels) \in {0, 1}
  BY CountType, CountsAssumption, AtomicTyped DEF AtomicInv, In
<1>4. count' + N(pc', {"inside"}) = Initial + granted'
  <2>1. count + N(pc, {"inside"}) = Initial + granted
    BY AtomicCounts DEF AtomicInv
  <2>2. N(pc', {"inside"}) = N(pc, {"inside"}) + In(label, {"inside"}) - In(pc[t], {"inside"})
    BY <1>2
  <2> QED BY <1>3, <2>1, <2>2
<1>5. count' \in 0..(Initial + Extra)
  BY <1>3, <1>4
<1>6. ASSUME NEW u \in Callers, pc'[u] = "wait" PROVE count' <= N(pc', OnItsWay)
  <2>1. CASE u = t
    BY <1>2, <1>3, <1>6, <2>1
  <2>2. CASE u # t
    <3>1. count <= N(pc, OnItsWay)
      BY <1>2, <1>6, <2>2, AtomicCounts DEF AtomicInv
    <3>2. N(pc', OnItsWay) = N(pc, OnItsWay) + In(label, OnItsWay) - In(pc[t], OnItsWay)
      BY <1>2
    <3>3. CASE count' = 0
      BY <1>3, <3>3
    <3>4. CASE count' + In(pc[t], OnItsWay) <= count + In(label, OnItsWay)
      BY <1>3, <3>1, <3>2, <3>4
    <3> QED BY <3>3, <3>4
  <2> QED BY <2>1, <2>2
<1> QED
  BY <1>2, <1>4, <1>5, <1>6, AtomicCounts, AtomicTypedPrime DEF AtomicInv

LEMMA AtomicNotify ==
  ASSUME AtomicInv, NEW t \in Callers, Atomic!NotifyOne(t) PROVE AtomicInv'
<1>1. /\ pc[t] = "notify" /\ Typed(pc, AtomicLabels)
      /\ UNCHANGED <<count, old, rounds, granted>>
  BY AtomicTyped DEF AtomicInv, Atomic!NotifyOne, Atomic!Notify
<1>2. Wakes(t, "look")
  BY DEF Atomic!NotifyOne, Atomic!Notify, Atomic!InState, Atomic!Goto,
         Atomic!Callers, Callers, Wakes
<1>3. /\ "idle" \in AtomicLabels /\ "look" \in AtomicLabels
      /\ "look" \in OnItsWay /\ "notify" \in OnItsWay
      /\ "idle" \notin OnItsWay /\ "wait" \notin OnItsWay
  BY DEF AtomicLabels, OnItsWay
<1>4. /\ Typed(pc', AtomicLabels)
      /\ pc'[t] = "idle"
      /\ \A u \in Callers \ {t} :
           pc'[u] = pc[u] \/ (pc[u] = "wait" /\ pc'[u] = "look")
      /\ \/ \A u \in Callers : pc'[u] # "wait"
         \/ N(pc', OnItsWay) = N(pc, OnItsWay)
  BY <1>1, <1>2, <1>3, Notified
<1>5. Atomic!TypeOK'
  BY <1>1, <1>4, AtomicTyped, AtomicTypedPrime DEF AtomicInv
<1>6. N(pc', {"inside"}) = N(pc, {"inside"})
  BY <1>1, <1>4, CountSame
<1> QED BY <1>1, <1>4, <1>5, <1>6, AtomicCounts DEF AtomicInv

LEMMA AtomicStep ==
  ASSUME AtomicInv, NEW t \in Threads, Atomic!Step(t) \/ Atomic!WakeUp(t)
  PROVE  AtomicInv'
<1>1. t \in Callers
  BY DEF Callers
<1>2. /\ count \in 0..(Initial + Extra) /\ count \in Nat
      /\ old \in [Callers -> 0..(Initial + Extra)]
      /\ rounds \in [Threads -> 0..Rounds]
      /\ granted \in 0..Extra /\ granted \in Nat /\ Initial + Extra \in Nat
  BY CountsAssumption, AtomicTyped DEF AtomicInv
<1> USE <1>1, <1>2 DEF AtomicLabels, OnItsWay, In
<1>3. CASE Atomic!CallAcquire(t)
  <2>1. rounds' \in [Threads -> 0..Rounds]
    BY <1>3, CountsAssumption DEF Atomic!CallAcquire, Atomic!Call
  <2> QED
    BY <1>3, <2>1, AtomicGoes DEF Atomic!CallAcquire, Atomic!Call
<1>4. CASE Atomic!Load(t)
  <2>1. old' \in [Callers -> 0..(Initial + Extra)]
    BY <1>4 DEF Atomic!Load
  <2> QED BY <1>4, <2>1, AtomicGoes DEF Atomic!Load
<1>5. CASE Atomic!StartWait(t)
  BY <1>5, AtomicGoes DEF Atomic!StartWait
<1>6. CASE Atomic!Sleep(t)
  BY <1>6, AtomicGoes DEF Atomic!Sleep
<1>7. CASE Atomic!EndWait(t)
  BY <1>7, AtomicGoes DEF Atomic!EndWait
<1>8. CASE Atomic!Take(t)
  <2>1. /\ old' \in [Callers -> 0..(Initial + Extra)]
        /\ count' = count - 1 /\ count > 0
    BY <1>8 DEF Atomic!Take, Atomic!Forget
  <2>2. /\ pc[t] = "test" /\ Atomic!Goto(t, "inside")
        /\ UNCHANGED <<rounds, granted>>
    BY <1>8 DEF Atomic!Take
  <2> QED BY <2>1, <2>2, AtomicGoes
<1>9. CASE Atomic!MissTake(t)
  <2>1. /\ old' \in [Callers -> 0..(Initial + Extra)]
        /\ UNCHANGED <<count, pc, rounds, granted>>
    BY <1>9 DEF Atomic!MissTake
  <2> QED BY <2>1, AtomicTyped, AtomicTypedPrime, AtomicCounts DEF AtomicInv
<1>10. CASE Atomic!Release(t)
  BY <1>10, AtomicGoes DEF Atomic!Release
<1>11. CASE Atomic!WakeUp(t)
  BY <1>11, AtomicGoes DEF Atomic!WakeUp, Atomic!WakeSpuriously
<1> QED
  BY <1>3, <1>4, <1>5, <1>6, <1>7, <1>8, <1>9, <1>10, <1>11, AtomicNotify
  DEF Atomic!Step

LEMMA AtomicNext ==
  ASSUME AtomicInv, Atomic!Next \/ UNCHANGED vars PROVE AtomicInv'
<1>1. CASE UNCHANGED vars
  BY <1>1, AtomicTyped, AtomicTypedPrime, AtomicCounts DEF vars, AtomicInv
<1>2. CASE Atomic!Grant
  <2>1. /\ Main \in Callers /\ Atomic!Goto(Main, "notify") /\ pc[Main] = "idle"
        /\ count' = count + 1 /\ granted' = granted + 1 /\ granted < Extra
        /\ UNCHANGED <<old, rounds>>
    BY <1>2 DEF Atomic!Grant, Atomic!CallGrant, Callers
  <2>2. /\ count \in Nat /\ granted \in Nat /\ granted' \in 0..Extra
        /\ old \in [Callers -> 0..(Initial + Extra)]
        /\ rounds \in [Threads -> 0..Rounds]
    BY <2>1, CountsAssumption, AtomicTyped DEF AtomicInv
  <2> QED BY <2>1, <2>2, AtomicGoes DEF AtomicLabels, OnItsWay, In
<1>3. Atomic!vars = vars
  BY DEF Atomic!vars, vars
<1> QED
  BY <1>1, <1>2, <1>3, AtomicStep, AtomicNotify
  DEF Atomic!Next, Atomic!MainStep, Atomic!Joined, Callers, vars, Atomic!vars

LEMMA AtomicInit == ASSUME Init PROVE AtomicInv
<1> USE DEF Init
<1>1. Atomic!TypeOK
  BY CountsAssumption DEF Atomic!TypeOK, Atomic!Callers, Callers
<1>2. N(pc, {"inside"}) = 0 /\ \A t \in Callers : pc[t] # "wait"
  BY CountOfNobody
<1>3. count + N(pc, {"inside"}) = Initial + granted
  BY <1>2, CountsAssumption
<1> QED BY <1>1, <1>2, <1>3, AtomicCounts DEF AtomicInv

-----------------------------------------------------------------------------
(* The semaphore with a fast path and a slow path *)

FastLabels == {"idle", "fast", "lock", "wait", "sub", "inside", "give", "notify"}
Holding == {"inside", "give"}
OnSlowPath == {"lock", "sub", "notify"}

(***************************************************************************)
(* The mutex lets one thread at a time between the test and the fetch_sub  *)
(* of the slow path, and what was tested there can be taken by the fast    *)
(* path, but not more than that.                                           *)
(***************************************************************************)
OneSubtracts ==
  /\ \A t, u \in Callers : pc[t] = "sub" /\ pc[u] = "sub" => t = u
  /\ (\E t \in Callers : pc[t] = "sub") => count >= 0

(***************************************************************************)
(* The releases that are about to be dropped: their thread has read a full *)
(* count.  When it did, the count and the threads in release were above    *)
(* the threshold, and what they were above it is enough for all of them.   *)
(***************************************************************************)
Dropping == [t \in Callers |-> IF pc[t] = "give" /\ old[t] >= Initial
                               THEN "dropping" ELSE "not"]
Drops == {"dropping"}

\* What the drop takes off the permits.
Excess(t) == IF pc[t] = "give" /\ old[t] >= Initial THEN 1 ELSE 0
DropsCovered == Initial + N(Dropping, Drops) <= count + N(pc, Holding)

\* No permit comes from nowhere.
NoneAdded == count + N(pc, Holding) <= Initial + granted

FastInv == /\ Fast!TypeOK /\ Fast!NoWaiterForgotten
           /\ OneSubtracts /\ DropsCovered /\ NoneAdded

LEMMA FastNumber ==
  \A labels : /\ Fast!Number(labels) = N(pc, labels)
              /\ Fast!Number(labels)' = N(pc', labels)
BY DEF Fast!Number, Fast!Callers, Callers, N, At, Fast!Cardinality, Cardinality

\* The invariant in terms of the counts.
LEMMA FastCounts ==
  /\ Fast!NoWaiterForgotten <=>
       ((\E t \in Callers : pc[t] = "wait") => count <= N(pc, OnSlowPath))
  /\ Fast!NoWaiterForgotten' <=>
       ((\E t \in Callers : pc'[t] = "wait") => count' <= N(pc', OnSlowPath))
BY FastNumber
DEF Fast!NoWaiterForgotten, Fast!InState, Fast!Callers, Callers, OnSlowPath

LEMMA FastTyped ==
  Fast!TypeOK <=> /\ count \in -1..Initial
                  /\ old \in [Callers -> -1..Initial]
                  /\ Typed(pc, FastLabels)
                  /\ pc[Main] \in {"idle", "give", "notify"}
                  /\ rounds \in [Threads -> 0..Rounds]
                  /\ granted \in 0..Extra
BY DEF Fast!TypeOK, Fast!Threshold, Fast!Callers, Callers, Typed, FastLabels

LEMMA FastTypedPrime ==
  Fast!TypeOK' <=> /\ count' \in -1..Initial
                   /\ old' \in [Callers -> -1..Initial]
                   /\ Typed(pc', FastLabels)
                   /\ pc'[Main] \in {"idle", "give", "notify"}
                   /\ rounds' \in [Threads -> 0..Rounds]
                   /\ granted' \in 0..Extra
BY DEF Fast!TypeOK, Fast!Threshold, Fast!Callers, Callers, Typed, FastLabels

\* Who drops a release is in release.
LEMMA DropsHold ==
  /\ N(Dropping, Drops) \in Nat /\ N(Dropping, Drops) <= N(pc, Holding)
  /\ N(Dropping', Drops) \in Nat /\ N(Dropping', Drops) <= N(pc', Holding)
<1>1. \A t \in Callers : Dropping[t] \in Drops => pc[t] \in Holding
  BY DEF Dropping, Drops, Holding
<1>2. \A t \in Callers : Dropping'[t] \in Drops => pc'[t] \in Holding
  BY DEF Dropping, Drops, Holding
<1> QED BY <1>1, <1>2, CountMonotone, CountType

\* What a step of one thread has to respect to keep the invariant.
LEMMA FastGoes ==
  ASSUME FastInv, NEW t \in Callers, NEW label \in FastLabels,
         Fast!Goto(t, label), t = Main => label \in {"idle", "give", "notify"},
         old' \in [Callers -> -1..Initial],
         \A u \in Callers \ {t} : old'[u] = old[u],
         rounds' \in [Threads -> 0..Rounds],
         granted' \in 0..Extra,
         count' \in -1..Initial,
         count' + In(label, Holding) - granted'
           <= count + In(pc[t], Holding) - granted,
         \/ count' >= Initial
         \/ /\ count' + In(label, Holding) + Excess(t) >= count + In(pc[t], Holding)
            /\ label = "give" => ~(old'[t] >= Initial),
         label = "wait" => count' <= 0,
         count' <= 0 \/ count' + In(pc[t], OnSlowPath) <= count + In(label, OnSlowPath),
         label = "sub" => count' >= 0 /\ \A u \in Callers : pc[u] # "sub",
         count' >= 0 \/ count' = count \/ pc[t] = "sub"
  PROVE  FastInv'
<1>1. Goto(t, label) /\ Typed(pc, FastLabels)
  BY FastTyped DEF Fast!Goto, Goto, FastInv
<1>2. /\ Typed(pc', FastLabels)
      /\ pc'[t] = label
      /\ \A u \in Callers \ {t} : pc'[u] = pc[u]
      /\ \A labels : N(pc', labels) =
           N(pc, labels) + In(label, labels) - In(pc[t], labels)
  BY <1>1, Goes
<1>3. /\ count \in Int /\ count' \in Int /\ granted \in Nat /\ granted' \in Nat
      /\ Initial \in Nat /\ Extra \in Nat
      /\ \A labels : N(pc, labels) \in Nat /\ N(pc', labels) \in Nat
      /\ \A a, labels : In(a, labels) \in {0, 1}
  BY CountType, CountsAssumption, FastTyped DEF FastInv, In
<1>4. Fast!TypeOK'
  BY <1>2, FastTyped, FastTypedPrime DEF FastInv, Callers
<1>5. NoneAdded'
  <2>1. N(pc', Holding) = N(pc, Holding) + In(label, Holding) - In(pc[t], Holding)
    BY <1>2
  <2> QED BY <1>3, <2>1 DEF NoneAdded, FastInv
<1>6. ASSUME NEW u \in Callers, pc'[u] = "wait" PROVE count' <= N(pc', OnSlowPath)
  <2>1. CASE count' <= 0
    BY <1>3, <2>1
  <2>2. CASE ~(count' <= 0)
    <3>1. u # t /\ pc[u] = "wait"
      BY <1>2, <1>6, <2>2
    <3>2. count <= N(pc, OnSlowPath)
      BY <3>1, FastCounts DEF FastInv
    <3>3. N(pc', OnSlowPath) = N(pc, OnSlowPath) + In(label, OnSlowPath) - In(pc[t], OnSlowPath)
      BY <1>2
    <3> QED BY <1>3, <2>2, <3>2, <3>3
  <2> QED BY <2>1, <2>2
<1>7. OneSubtracts'
  BY <1>2, <1>3 DEF OneSubtracts, FastInv
<1>8. DropsCovered'
  <2>1. CASE count' >= Initial
    BY <1>3, <2>1, DropsHold DEF DropsCovered
  <2>2. CASE /\ count' + In(label, Holding) + Excess(t) >= count + In(pc[t], Holding)
             /\ label = "give" => ~(old'[t] >= Initial)
    <3>1. \A u \in Callers \ {t} : Dropping'[u] = Dropping[u]
      BY <1>2 DEF Dropping
    <3>2. N(Dropping', Drops) = N(Dropping, Drops)
                                + In(Dropping'[t], Drops) - In(Dropping[t], Drops)
      BY <3>1, CountMove
    <3>3. N(Dropping, Drops) \in Nat /\ N(Dropping', Drops) \in Nat
      BY CountType
    <3>4. N(pc', Holding) = N(pc, Holding) + In(label, Holding) - In(pc[t], Holding)
      BY <1>2
    <3>5. Initial + N(Dropping, Drops) <= count + N(pc, Holding)
      BY DEF DropsCovered, FastInv
    <3>6. In(Dropping[t], Drops) = Excess(t) /\ Excess(t) \in {0, 1}
      BY DEF Dropping, Drops, Excess, In
    <3>7. In(Dropping'[t], Drops) = 0
      BY <1>2, <2>2 DEF Dropping, Drops, In
    <3> QED BY <1>3, <2>2, <3>2, <3>3, <3>4, <3>5, <3>6, <3>7 DEF DropsCovered
  <2> QED BY <2>1, <2>2
<1> QED BY <1>4, <1>5, <1>6, <1>7, <1>8, FastCounts DEF FastInv

LEMMA FastNotify ==
  ASSUME FastInv, NEW t \in Callers, Fast!NotifyOne(t) PROVE FastInv'
<1>1. /\ pc[t] = "notify" /\ Typed(pc, FastLabels)
      /\ UNCHANGED <<count, old, rounds, granted>>
  BY FastTyped DEF FastInv, Fast!NotifyOne, Fast!Notify
<1>2. Wakes(t, "lock")
  BY DEF Fast!NotifyOne, Fast!Notify, Fast!InState, Fast!Goto,
         Fast!Callers, Callers, Wakes
<1>3. /\ "idle" \in FastLabels /\ "lock" \in FastLabels
      /\ "lock" \in OnSlowPath /\ "notify" \in OnSlowPath
      /\ "idle" \notin OnSlowPath /\ "wait" \notin OnSlowPath
  BY DEF FastLabels, OnSlowPath
<1>4. /\ Typed(pc', FastLabels)
      /\ pc'[t] = "idle"
      /\ \A u \in Callers \ {t} :
           pc'[u] = pc[u] \/ (pc[u] = "wait" /\ pc'[u] = "lock")
      /\ \/ \A u \in Callers : pc'[u] # "wait"
         \/ N(pc', OnSlowPath) = N(pc, OnSlowPath)
  BY <1>1, <1>2, <1>3, Notified
<1>5. Fast!TypeOK'
  <2>1. pc[Main] \in {"idle", "give", "notify"} /\ Main \in Callers
    BY FastTyped DEF FastInv, Callers
  <2>2. pc'[Main] \in {"idle", "give", "notify"}
    BY <1>4, <2>1
  <2> QED BY <1>1, <1>4, <2>2, FastTyped, FastTypedPrime DEF FastInv
<1>6. N(pc', Holding) = N(pc, Holding)
  BY <1>1, <1>4, CountSame DEF Holding
<1>7. OneSubtracts'
  BY <1>1, <1>4 DEF OneSubtracts, FastInv
<1>8. Dropping' = Dropping
  BY <1>1, <1>4 DEF Dropping
<1>9. DropsCovered' /\ NoneAdded'
  BY <1>1, <1>6, <1>8 DEF DropsCovered, NoneAdded, FastInv
<1> QED BY <1>1, <1>4, <1>5, <1>7, <1>9, FastCounts DEF FastInv

LEMMA FastRelease ==
  ASSUME FastInv, NEW t \in Callers, Fast!Release(t) PROVE FastInv'
<1>1. /\ count \in -1..Initial /\ count \in Int /\ Initial \in Nat
      /\ old \in [Callers -> -1..Initial]
      /\ pc[Main] \in {"idle", "give", "notify"}
      /\ rounds \in [Threads -> 0..Rounds]
      /\ granted \in 0..Extra /\ granted \in Nat
  BY CountsAssumption, FastTyped DEF FastInv
<1>2. t \in Callers
  OBVIOUS
<1> USE <1>1, <1>2 DEF FastLabels, Holding, OnSlowPath, Excess, In
<1>3. CASE Fast!DropRelease(t)
  <2>1. /\ old' \in [Callers -> -1..Initial]
        /\ \A u \in Callers \ {t} : old'[u] = old[u]
        /\ pc[t] = "give" /\ old[t] >= Initial /\ Fast!Goto(t, "idle")
        /\ UNCHANGED <<count, rounds, granted>>
    BY <1>3 DEF Fast!DropRelease, Fast!Forget, Fast!Threshold
  <2> QED BY <2>1, FastGoes
<1>4. CASE Fast!Give(t)
  <2>1. /\ old' \in [Callers -> -1..Initial]
        /\ \A u \in Callers \ {t} : old'[u] = old[u]
        /\ pc[t] = "give" /\ ~(old[t] >= Initial) /\ Fast!Goto(t, "notify")
        /\ count' = count + 1 /\ count < Initial
        /\ UNCHANGED <<rounds, granted>>
    BY <1>4 DEF Fast!Give, Fast!Forget, Fast!Threshold
  <2> QED BY <2>1, FastGoes
<1>5. CASE Fast!MissGive(t)
  <2>1. /\ old' \in [Callers -> -1..Initial]
        /\ \A u \in Callers \ {t} : old'[u] = old[u]
        /\ old'[t] = count /\ pc[t] = "give" /\ ~(old[t] >= Initial)
        /\ UNCHANGED <<count, pc, rounds, granted>>
    BY <1>5 DEF Fast!MissGive, Fast!Threshold
  <2>2. Fast!Goto(t, "give")
    BY <2>1, FastTyped DEF FastInv, Typed, Fast!Goto
  <2> QED BY <2>1, <2>2, FastGoes
<1> QED BY <1>3, <1>4, <1>5, FastNotify DEF Fast!Release

LEMMA FastStep ==
  ASSUME FastInv, NEW t \in Threads, Fast!Step(t) \/ Fast!WakeUp(t)
  PROVE  FastInv'
<1>1. /\ count \in -1..Initial /\ count \in Int /\ Initial \in Nat
      /\ old \in [Callers -> -1..Initial]
      /\ rounds \in [Threads -> 0..Rounds]
      /\ granted \in 0..Extra /\ granted \in Nat
  BY CountsAssumption, FastTyped DEF FastInv
<1>2. t \in Callers /\ t # Main
  BY ThreadsAssumption DEF Callers
<1> USE <1>1, <1>2 DEF FastLabels, Holding, OnSlowPath, Excess, In
<1>3. CASE Fast!CallAcquire(t)
  <2>1. /\ old' \in [Callers -> -1..Initial]
        /\ \A u \in Callers \ {t} : old'[u] = old[u]
        /\ pc[t] = "idle" /\ Fast!Goto(t, "fast")
        /\ rounds' \in [Threads -> 0..Rounds]
        /\ UNCHANGED <<count, granted>>
    BY <1>3, CountsAssumption DEF Fast!CallAcquire, Fast!Call
  <2> QED BY <2>1, FastGoes
<1>4. CASE Fast!FastTake(t)
  <2>1. /\ old' \in [Callers -> -1..Initial]
        /\ \A u \in Callers \ {t} : old'[u] = old[u]
        /\ pc[t] = "fast" /\ Fast!Goto(t, "inside")
        /\ count' = count - 1 /\ count > 0
        /\ UNCHANGED <<rounds, granted>>
    BY <1>4 DEF Fast!FastTake, Fast!Forget
  <2> QED BY <2>1, FastGoes
<1>5. CASE Fast!FastMiss(t)
  <2>1. /\ old' \in [Callers -> -1..Initial]
        /\ \A u \in Callers \ {t} : old'[u] = old[u]
        /\ pc[t] = "fast"
        /\ UNCHANGED <<count, pc, rounds, granted>>
    BY <1>5 DEF Fast!FastMiss
  <2>2. Fast!Goto(t, "fast")
    BY <2>1, FastTyped DEF FastInv, Typed, Fast!Goto
  <2> QED BY <2>1, <2>2, FastGoes
<1>6. CASE Fast!GoSlow(t)
  <2>1. /\ old' \in [Callers -> -1..Initial]
        /\ \A u \in Callers \ {t} : old'[u] = old[u]
        /\ pc[t] = "fast" /\ Fast!Goto(t, "lock")
        /\ UNCHANGED <<count, rounds, granted>>
    BY <1>6 DEF Fast!GoSlow, Fast!Forget
  <2> QED BY <2>1, FastGoes
<1>7. CASE Fast!SlowWait(t)
  BY <1>7, FastGoes DEF Fast!SlowWait
<1>8. CASE Fast!SlowPass(t)
  <2>1. \A u \in Callers : pc[u] # "sub"
    BY <1>8 DEF Fast!SlowPass, Fast!MutexFree, Fast!InState, Fast!Callers, Callers
  <2> QED BY <1>8, <2>1, FastGoes DEF Fast!SlowPass
<1>9. CASE Fast!SlowTake(t)
  <2>1. /\ pc[t] = "sub" /\ Fast!Goto(t, "inside")
        /\ count' = count - 1
        /\ UNCHANGED <<old, rounds, granted>>
    BY <1>9 DEF Fast!SlowTake
  <2>2. count >= 0
    BY <2>1 DEF FastInv, OneSubtracts
  <2> QED BY <2>1, <2>2, FastGoes
<1>10. CASE Fast!CallRelease(t)
  <2>1. /\ old' \in [Callers -> -1..Initial]
        /\ \A u \in Callers \ {t} : old'[u] = old[u]
        /\ old'[t] = count /\ pc[t] = "inside" /\ Fast!Goto(t, "give")
        /\ UNCHANGED <<count, rounds, granted>>
    BY <1>10 DEF Fast!CallRelease
  <2> QED BY <2>1, FastGoes
<1>11. CASE Fast!WakeUp(t)
  BY <1>11, FastGoes DEF Fast!WakeUp, Fast!WakeSpuriously
<1> QED
  BY <1>3, <1>4, <1>5, <1>6, <1>7, <1>8, <1>9, <1>10, <1>11, FastRelease
  DEF Fast!Step, Fast!Acquire

LEMMA FastNext ==
  ASSUME FastInv, Fast!Next \/ UNCHANGED vars PROVE FastInv'
<1>1. CASE UNCHANGED vars
  <2>1. UNCHANGED <<count, old, pc, rounds, granted>>
    BY <1>1 DEF vars
  <2>2. OneSubtracts' /\ DropsCovered' /\ NoneAdded'
    BY <2>1 DEF OneSubtracts, DropsCovered, Dropping, NoneAdded, FastInv
  <2> QED BY <2>1, <2>2, FastTyped, FastTypedPrime, FastCounts DEF FastInv
<1>2. CASE Fast!Grant
  <2>1. /\ Main \in Callers /\ Fast!Goto(Main, "give") /\ pc[Main] = "idle"
        /\ old' = [old EXCEPT ![Main] = count]
        /\ granted' = granted + 1 /\ granted < Extra
        /\ UNCHANGED <<count, rounds>>
    BY <1>2 DEF Fast!Grant, Fast!CallGrant, Callers
  <2>2. /\ count \in -1..Initial /\ count \in Int
        /\ granted \in Nat /\ granted' \in 0..Extra
        /\ old \in [Callers -> -1..Initial]
        /\ rounds \in [Threads -> 0..Rounds]
    BY <2>1, CountsAssumption, FastTyped DEF FastInv
  <2>3. /\ old' \in [Callers -> -1..Initial]
        /\ \A u \in Callers \ {Main} : old'[u] = old[u]
    BY <2>1, <2>2
  <2> QED
    BY <2>1, <2>2, <2>3, CountsAssumption, FastGoes
    DEF FastLabels, Holding, OnSlowPath, Excess, In
<1>3. Fast!vars = vars
  BY DEF Fast!vars, vars
<1> QED
  BY <1>1, <1>2, <1>3, FastStep, FastRelease
  DEF Fast!Next, Fast!MainStep, Fast!Joined, Callers, vars, Fast!vars

LEMMA FastInit == ASSUME Fast!Constructed PROVE FastInv
<1> USE DEF Fast!Constructed, Fast!Init, Fast!Callers, Callers
<1>1. Fast!TypeOK
  BY CountsAssumption DEF Fast!TypeOK, Fast!Threshold
<1>2. N(pc, Holding) = 0 /\ \A t \in Callers : pc[t] = "idle"
  BY CountOfNobody DEF Holding
<1>3. N(Dropping, Drops) = 0
  BY <1>2, CountOfNobody DEF Dropping, Drops
<1>4. OneSubtracts /\ DropsCovered /\ NoneAdded
  BY <1>2, <1>3, CountsAssumption DEF OneSubtracts, DropsCovered, NoneAdded
<1> QED BY <1>1, <1>2, <1>4, FastCounts DEF FastInv

LEMMA FastPermits == ASSUME FastInv PROVE Fast!PermitsBounded
<1>1. /\ count \in Int /\ -1 <= count /\ granted \in Nat /\ Initial \in Nat
      /\ N(pc, Holding) \in Nat /\ N(Dropping, Drops) \in Nat
  BY CountsAssumption, CountType, FastTyped DEF FastInv
<1>2. Fast!Taken = N(pc, Holding)
  BY FastNumber DEF Fast!Taken, Holding
<1> QED
  BY <1>1, <1>2
  DEF FastInv, DropsCovered, NoneAdded, Fast!PermitsBounded, Fast!Threshold

-----------------------------------------------------------------------------
(* The barrier *)

BarrierLabels == {"idle", "wait", "test", "callback", "running", "notify"}

\* The labels of the thread that has arrived last.
LastLabels == {"callback", "running", "notify"}
Users == Participants \cup Observers

\* A thread is in one call at most.
InOneCall(t) == arrived[t] = IF pc[t] = "idle" THEN passed[t] ELSE passed[t] + 1

(***************************************************************************)
(* A participant is never more than one round behind: outside, and until   *)
(* it has notified the others, it has arrived for the completed rounds;    *)
(* asleep, for those, or for the next one as well.                         *)
(***************************************************************************)
InStep(t) ==
  /\ pc[t] \in {"idle"} \cup LastLabels => arrived[t] = generation
  /\ pc[t] \in {"wait", "test"} => /\ arrived[t] = gen[t] + 1
                                   /\ gen[t] \in {generation - 1, generation}

\* The participants that have arrived for the round that is not complete.
Here == {t \in Participants : arrived[t] = generation + 1}
ArrivalsCounted == count + Cardinality(Here) = Cardinality(Participants)

OneLast ==
  \A t, u \in Users : pc[t] \in LastLabels /\ pc[u] \in LastLabels => t = u

CallbackPending ==
  \/ callbacks = generation /\ \A t \in Users : pc[t] # "callback"
  \/ callbacks + 1 = generation /\ \E t \in Users : pc[t] = "callback"

SleepersRemembered ==
  (\E t \in Users : pc[t] = "wait" /\ gen[t] # generation)
    => \E t \in Users : pc[t] \in LastLabels

BarrierTypeOK ==
  /\ count \in 1..Cardinality(Participants)
  /\ generation \in Nat
  /\ pc \in [Users -> BarrierLabels]
  /\ \A o \in Observers : pc[o] \in {"idle", "wait", "test"}
  /\ gen \in [Users -> Nat]
  /\ arrived \in [Users -> 0..Laps]
  /\ passed \in [Users -> 0..Laps]
  /\ callbacks \in Nat

BarrierInv == /\ BarrierTypeOK
              /\ \A t \in Users : InOneCall(t)
              /\ \A t \in Participants : InStep(t)
              /\ ArrivalsCounted
              /\ OneLast
              /\ CallbackPending
              /\ SleepersRemembered

LEMMA HereFinite ==
  /\ IsFiniteSet(Here) /\ Cardinality(Here) \in Nat
  /\ Cardinality(Participants) \in Nat \ {0}
<1>1. Here \subseteq Participants
  BY DEF Here
<1>2. Cardinality(Participants) # 0
  BY ParticipantsAssumption, FS_EmptySet
<1> QED BY <1>1, <1>2, ParticipantsAssumption, FS_Subset, FS_CardinalityType

\* The last one to arrive is the one that was missing.
LEMMA EverybodyElseIsHere ==
  ASSUME BarrierInv, NEW t \in Participants, pc[t] = "idle", count = 1
  PROVE  Here = Participants \ {t}
<1>1. t \notin Here
  BY DEF BarrierInv, InStep, Here, BarrierTypeOK
<1>2. Here \subseteq Participants \ {t}
  BY <1>1 DEF Here
<1>3. /\ IsFiniteSet(Participants \ {t})
      /\ Cardinality(Participants \ {t}) = Cardinality(Participants) - 1
  BY ParticipantsAssumption, FS_RemoveElement
<1>4. Cardinality(Here) = Cardinality(Participants) - 1
  BY HereFinite DEF BarrierInv, ArrivalsCounted
<1> QED BY <1>2, <1>3, <1>4, FS_Subset

LEMMA ArriveStep ==
  ASSUME BarrierInv, NEW t \in Participants, Reusable!Arrive(t)
  PROVE  BarrierInv'
<1> USE DEF BarrierInv
<1>1. /\ t \in Users /\ pc[t] = "idle" /\ arrived[t] < Laps
      /\ arrived' = [arrived EXCEPT ![t] = @ + 1]
      /\ gen' = [gen EXCEPT ![t] = generation]
      /\ pc' = [pc EXCEPT ![t] = "wait"]
      /\ count - 1 # 0 /\ count' = count - 1
      /\ UNCHANGED <<generation, passed, callbacks>>
  BY DEF Reusable!Arrive, Reusable!Call, Reusable!Goto, Users
<1>2. BarrierTypeOK'
  BY <1>1, HereFinite, LapsAssumption, ParticipantsAssumption
  DEF BarrierTypeOK, BarrierLabels, Users
<1>3. \A u \in Users : InOneCall(u)'
  BY <1>1 DEF InOneCall, BarrierTypeOK
<1>4. \A u \in Participants : InStep(u)'
  BY <1>1 DEF InStep, BarrierTypeOK, LastLabels, Users
<1>5. ArrivalsCounted'
  <2>1. t \notin Here
    BY <1>1 DEF InStep, Here, BarrierTypeOK
  <2>2. Here' = Here \cup {t}
    BY <1>1 DEF Here, InStep, BarrierTypeOK, Users
  <2>3. Cardinality(Here') = Cardinality(Here) + 1
    BY <2>1, <2>2, HereFinite, FS_AddElement
  <2> QED BY <1>1, <2>3, HereFinite DEF ArrivalsCounted, BarrierTypeOK
<1>6. OneLast' /\ CallbackPending' /\ SleepersRemembered'
  BY <1>1 DEF OneLast, CallbackPending, SleepersRemembered, BarrierTypeOK, LastLabels
<1> QED BY <1>2, <1>3, <1>4, <1>5, <1>6

LEMMA ArriveLastStep ==
  ASSUME BarrierInv, NEW t \in Participants, Reusable!ArriveLast(t)
  PROVE  BarrierInv'
<1> USE DEF BarrierInv
<1>1. /\ t \in Users /\ pc[t] = "idle" /\ arrived[t] < Laps
      /\ arrived' = [arrived EXCEPT ![t] = @ + 1]
      /\ gen' = [gen EXCEPT ![t] = generation]
      /\ pc' = [pc EXCEPT ![t] = "callback"]
      /\ count - 1 = 0 /\ count \in Nat
      /\ generation' = generation + 1
      /\ UNCHANGED <<passed, callbacks>>
  BY HereFinite
  DEF Reusable!ArriveLast, Reusable!Call, Reusable!Goto, Users, BarrierTypeOK
<1>2. count' = Cardinality(Participants)
  BY DEF Reusable!ArriveLast, Reusable!FullCount, Reusable!Threshold,
         Reusable!Cardinality, Cardinality
<1>3. Here = Participants \ {t}
  BY <1>1, EverybodyElseIsHere
<1>4. ASSUME NEW u \in Participants, u # t
      PROVE  /\ arrived[u] = generation + 1 /\ gen[u] = generation
             /\ pc[u] \in {"wait", "test"}
  <2>1. arrived[u] = generation + 1
    BY <1>3, <1>4 DEF Here
  <2>2. u \in Users /\ pc[u] \in BarrierLabels /\ generation \in Nat /\ gen[u] \in Nat
    BY DEF Users, BarrierTypeOK
  <2> QED BY <2>1, <2>2 DEF InStep, LastLabels, BarrierLabels
<1>5. BarrierTypeOK'
  BY <1>1, <1>2, HereFinite, LapsAssumption, ParticipantsAssumption
  DEF BarrierTypeOK, BarrierLabels, Users
<1>6. \A u \in Users : InOneCall(u)'
  BY <1>1 DEF InOneCall, BarrierTypeOK
<1>7. \A u \in Participants : InStep(u)'
  BY <1>1, <1>4 DEF InStep, BarrierTypeOK, LastLabels, Users
<1>8. ArrivalsCounted'
  <2>1. Here' = {}
    BY <1>1, <1>4 DEF Here, InStep, BarrierTypeOK, Users
  <2> QED BY <1>2, <2>1, HereFinite, FS_EmptySet DEF ArrivalsCounted
<1>9. \A u \in Users \ {t} : pc[u] \notin LastLabels /\ pc'[u] = pc[u]
  BY <1>1, <1>4 DEF BarrierTypeOK, LastLabels, Users
<1>10. OneLast' /\ CallbackPending' /\ SleepersRemembered'
  BY <1>1, <1>9
  DEF OneLast, CallbackPending, SleepersRemembered, BarrierTypeOK, LastLabels
<1> QED BY <1>5, <1>6, <1>7, <1>8, <1>10

\* The steps after the arrival change no round, and no arrival.
LEMMA ArrivalsKept ==
  ASSUME ArrivalsCounted, UNCHANGED <<count, arrived, generation>>
  PROVE  ArrivalsCounted'
<1>1. Here' = Here
  BY DEF Here
<1> QED BY <1>1 DEF ArrivalsCounted

LEMMA CallbackStep ==
  ASSUME BarrierInv, NEW t \in Participants,
         Reusable!StartCallback(t) \/ Reusable!EndCallback(t)
  PROVE  BarrierInv'
<1> USE DEF BarrierInv
<1>1. /\ t \in Users /\ pc[t] \in LastLabels
      /\ \/ pc[t] = "callback" /\ callbacks' = callbacks + 1
            /\ pc' = [pc EXCEPT ![t] = "running"]
         \/ pc[t] = "running" /\ callbacks' = callbacks
            /\ pc' = [pc EXCEPT ![t] = "notify"]
      /\ UNCHANGED <<count, generation, gen, arrived, passed>>
  BY DEF Reusable!StartCallback, Reusable!EndCallback, Reusable!Goto, Users,
         LastLabels
<1>2. BarrierTypeOK'
  BY <1>1, ParticipantsAssumption DEF BarrierTypeOK, BarrierLabels, Users
<1>3. \A u \in Users : InOneCall(u)'
  BY <1>1 DEF InOneCall, BarrierTypeOK
<1>4. \A u \in Participants : InStep(u)'
  BY <1>1 DEF InStep, BarrierTypeOK, LastLabels, Users
<1>5. ArrivalsCounted'
  BY <1>1, ArrivalsKept
<1>6. \A u \in Users \ {t} : pc[u] \notin LastLabels /\ pc'[u] = pc[u]
  BY <1>1 DEF BarrierTypeOK, OneLast
<1>7. OneLast' /\ CallbackPending' /\ SleepersRemembered'
  BY <1>1, <1>6
  DEF OneLast, CallbackPending, SleepersRemembered, BarrierTypeOK, LastLabels
<1> QED BY <1>2, <1>3, <1>4, <1>5, <1>7

LEMMA NotifyAllStep ==
  ASSUME BarrierInv, NEW t \in Participants, Reusable!NotifyAll(t)
  PROVE  BarrierInv'
<1> USE DEF BarrierInv
<1>1. /\ t \in Users /\ pc[t] = "notify"
      /\ passed' = [passed EXCEPT ![t] = @ + 1]
      /\ pc' = [s \in Users |-> IF s = t THEN "idle"
                                ELSE IF pc[s] = "wait" THEN "test" ELSE pc[s]]
      /\ UNCHANGED <<count, generation, gen, arrived, callbacks>>
  BY DEF Reusable!NotifyAll, Reusable!Users, Users
<1>2. arrived[t] = passed[t] + 1
  BY <1>1 DEF InOneCall
<1>3. BarrierTypeOK'
  BY <1>1, <1>2, LapsAssumption, ParticipantsAssumption
  DEF BarrierTypeOK, BarrierLabels, Users
<1>4. \A u \in Users : InOneCall(u)'
  BY <1>1, <1>2 DEF InOneCall, BarrierTypeOK
<1>5. \A u \in Participants : InStep(u)'
  BY <1>1 DEF InStep, BarrierTypeOK, LastLabels, Users
<1>6. ArrivalsCounted'
  BY <1>1, ArrivalsKept
<1>7. OneLast' /\ CallbackPending' /\ SleepersRemembered'
  BY <1>1
  DEF OneLast, CallbackPending, SleepersRemembered, BarrierTypeOK, LastLabels
<1> QED BY <1>3, <1>4, <1>5, <1>6, <1>7

LEMMA LeaveStep ==
  ASSUME BarrierInv, NEW t \in Users, Reusable!Leave(t)
  PROVE  BarrierInv'
<1> USE DEF BarrierInv
<1>1. /\ pc[t] = "test" /\ gen[t] # generation
      /\ passed' = [passed EXCEPT ![t] = @ + 1]
      /\ pc' = [pc EXCEPT ![t] = "idle"]
      /\ UNCHANGED <<count, generation, gen, arrived, callbacks>>
  BY DEF Reusable!Leave, Reusable!RoundOver, Reusable!Goto
<1>2. arrived[t] = passed[t] + 1
  BY <1>1 DEF InOneCall
<1>3. BarrierTypeOK'
  BY <1>1, <1>2, LapsAssumption DEF BarrierTypeOK, BarrierLabels, Users
<1>4. \A u \in Users : InOneCall(u)'
  BY <1>1, <1>2 DEF InOneCall, BarrierTypeOK
<1>5. \A u \in Participants : InStep(u)'
  BY <1>1 DEF InStep, BarrierTypeOK, LastLabels, Users
<1>6. ArrivalsCounted'
  BY <1>1, ArrivalsKept
<1>7. OneLast' /\ CallbackPending' /\ SleepersRemembered'
  BY <1>1
  DEF OneLast, CallbackPending, SleepersRemembered, BarrierTypeOK, LastLabels
<1> QED BY <1>3, <1>4, <1>5, <1>6, <1>7

LEMMA LookStep ==
  ASSUME BarrierInv, NEW t \in Users,
         Reusable!SleepAgain(t) \/ Reusable!WakeSpuriously(t)
  PROVE  BarrierInv'
<1> USE DEF BarrierInv
<1>1. /\ \/ /\ pc[t] = "test" /\ gen[t] = generation
            /\ pc' = [pc EXCEPT ![t] = "wait"]
         \/ /\ pc[t] = "wait"
            /\ pc' = [pc EXCEPT ![t] = "test"]
      /\ UNCHANGED <<count, generation, gen, arrived, passed, callbacks>>
  BY DEF Reusable!SleepAgain, Reusable!WakeSpuriously, Reusable!RoundOver,
         Reusable!Goto
<1>2. BarrierTypeOK'
  BY <1>1 DEF BarrierTypeOK, BarrierLabels, Users
<1>3. \A u \in Users : InOneCall(u)'
  BY <1>1 DEF InOneCall, BarrierTypeOK
<1>4. \A u \in Participants : InStep(u)'
  BY <1>1 DEF InStep, BarrierTypeOK, LastLabels, Users
<1>5. ArrivalsCounted'
  BY <1>1, ArrivalsKept
<1>6. OneLast' /\ CallbackPending' /\ SleepersRemembered'
  BY <1>1
  DEF OneLast, CallbackPending, SleepersRemembered, BarrierTypeOK, LastLabels
<1> QED BY <1>2, <1>3, <1>4, <1>5, <1>6

LEMMA WaitStep ==
  ASSUME BarrierInv, NEW o \in Observers, Reusable!Wait(o)
  PROVE  BarrierInv'
<1> USE DEF BarrierInv
<1>1. /\ o \in Users /\ o \notin Participants
      /\ pc[o] = "idle" /\ arrived[o] < Laps
      /\ arrived' = [arrived EXCEPT ![o] = @ + 1]
      /\ gen' = [gen EXCEPT ![o] = generation]
      /\ pc' = [pc EXCEPT ![o] = "wait"]
      /\ UNCHANGED <<count, generation, passed, callbacks>>
  BY ParticipantsAssumption
  DEF Reusable!Wait, Reusable!Call, Reusable!Goto, Users
<1>2. BarrierTypeOK'
  BY <1>1, LapsAssumption DEF BarrierTypeOK, BarrierLabels, Users
<1>3. \A u \in Users : InOneCall(u)'
  BY <1>1 DEF InOneCall, BarrierTypeOK
<1>4. \A u \in Participants : InStep(u)'
  BY <1>1 DEF InStep, BarrierTypeOK, LastLabels, Users
<1>5. ArrivalsCounted'
  <2>1. Here' = Here
    BY <1>1 DEF Here, BarrierTypeOK, Users
  <2> QED BY <1>1, <2>1 DEF ArrivalsCounted
<1>6. OneLast' /\ CallbackPending' /\ SleepersRemembered'
  BY <1>1
  DEF OneLast, CallbackPending, SleepersRemembered, BarrierTypeOK, LastLabels
<1> QED BY <1>2, <1>3, <1>4, <1>5, <1>6

LEMMA BarrierNext ==
  ASSUME BarrierInv, Reusable!Next \/ UNCHANGED <<vars, ofBarrier>>
  PROVE  BarrierInv'
<1>1. CASE UNCHANGED <<vars, ofBarrier>>
  <2>1. UNCHANGED <<count, generation, pc, gen, arrived, passed, callbacks>>
    BY <1>1 DEF vars, ofBarrier
  <2>2. ArrivalsCounted'
    BY <2>1, ArrivalsKept DEF BarrierInv
  <2> QED
    BY <2>1, <2>2
    DEF BarrierInv, BarrierTypeOK, InOneCall, InStep, OneLast, CallbackPending,
        SleepersRemembered
<1>2. Participants \subseteq Users /\ Observers \subseteq Users /\ Reusable!Users = Users
  BY DEF Users, Reusable!Users
<1> QED
  BY <1>1, <1>2, ArriveStep, ArriveLastStep, CallbackStep, NotifyAllStep,
     LeaveStep, LookStep, WaitStep
  DEF Reusable!Next, Reusable!Participate, Reusable!Observe

LEMMA BarrierStart == ASSUME Reusable!Init PROVE BarrierInv
<1> USE DEF Reusable!Init, Reusable!Users, Users
<1>1. count = Cardinality(Participants)
  BY DEF Reusable!Threshold, Reusable!Cardinality, Cardinality
<1>2. Here = {}
  BY DEF Here
<1>3. BarrierTypeOK
  BY <1>1, HereFinite, LapsAssumption DEF BarrierTypeOK, BarrierLabels
<1>4. ArrivalsCounted
  BY <1>1, <1>2, HereFinite, FS_EmptySet DEF ArrivalsCounted
<1> QED
  BY <1>3, <1>4
  DEF BarrierInv, InOneCall, InStep, OneLast, CallbackPending,
      SleepersRemembered, LastLabels

\* What the invariant says in the barrier's own words.
LEMMA BarrierFacts ==
  ASSUME BarrierInv
  PROVE  /\ Reusable!TypeOK
         /\ Reusable!NoEarlyRelease
         /\ Reusable!OneCallbackPerRound
         /\ Reusable!NoSleeperForgotten
<1> USE DEF BarrierInv
<1>1. Reusable!TypeOK
  BY DEF BarrierTypeOK, Reusable!TypeOK, Reusable!Users, Users, BarrierLabels,
         Reusable!Threshold, Reusable!Cardinality, Cardinality
<1>2. ASSUME NEW t \in Participants
      PROVE  passed[t] <= generation /\ generation <= arrived[t]
  <2>1. /\ t \in Users /\ generation \in Nat /\ gen[t] \in Nat
        /\ pc[t] \in BarrierLabels /\ passed[t] \in Nat /\ arrived[t] \in Nat
    BY LapsAssumption DEF BarrierTypeOK, Users
  <2> QED BY <2>1 DEF InStep, InOneCall, LastLabels, BarrierLabels
<1>3. Reusable!NoEarlyRelease
  <2> SUFFICES ASSUME NEW s \in Participants, NEW t \in Participants
               PROVE  passed[t] <= arrived[s]
    BY DEF Reusable!NoEarlyRelease
  <2>1. passed[t] \in Nat /\ arrived[s] \in Nat /\ generation \in Nat
    BY LapsAssumption DEF BarrierTypeOK, Users
  <2> QED BY <1>2, <2>1
<1> DEFINE calling == {t \in Users : pc[t] = "callback"}
           last == calling \cup {t \in Users : pc[t] = "running"}
<1>4. /\ callbacks + Cardinality(calling) = generation
      /\ Cardinality(last) <= 1
  <2>1. callbacks \in Nat /\ generation \in Nat
    BY DEF BarrierTypeOK
  <2>2. callbacks + Cardinality(calling) = generation
    <3>1. CASE callbacks = generation /\ \A t \in Users : pc[t] # "callback"
      <4>1. calling = {}
        BY <3>1
      <4> QED BY <2>1, <3>1, <4>1, FS_EmptySet
    <3>2. CASE callbacks + 1 = generation /\ \E t \in Users : pc[t] = "callback"
      <4>1. PICK t \in Users : pc[t] = "callback"
        BY <3>2
      <4>2. calling = {t}
        BY <4>1 DEF OneLast, LastLabels
      <4> QED BY <2>1, <3>2, <4>2, FS_Singleton
    <3> QED BY <3>1, <3>2 DEF CallbackPending
  <2>3. Cardinality(last) <= 1
    <3>1. CASE last = {}
      BY <3>1, FS_EmptySet
    <3>2. CASE last # {}
      <4>1. PICK t \in last : TRUE
        BY <3>2
      <4>2. last = {t}
        BY <4>1 DEF OneLast, LastLabels
      <4> QED BY <4>2, FS_Singleton
    <3> QED BY <3>1, <3>2
  <2> QED BY <2>2, <2>3
<1>5. Reusable!OneCallbackPerRound
  BY <1>4 DEF Reusable!OneCallbackPerRound, Reusable!InState, Reusable!Users,
              Users, Reusable!Cardinality, Cardinality
<1>6. Reusable!NoSleeperForgotten
  BY DEF SleepersRemembered, Reusable!NoSleeperForgotten, Reusable!InState,
         Reusable!RoundOver, Reusable!Users, Users, LastLabels
<1> QED BY <1>1, <1>3, <1>5, <1>6

-----------------------------------------------------------------------------
(* The theorems *)

IInv == \/ kind = "mutex" /\ MutexInv
        \/ kind = "atomic" /\ AtomicInv
        \/ kind = "fast" /\ FastInv
        \/ kind = "barrier" /\ BarrierInv

LEMMA InvariantHolds == TestSpec => []IInv
<1>1. ASSUME SemaphoreInit \/ BarrierInit PROVE IInv
  BY <1>1, MutexInit, AtomicInit, FastInit, BarrierStart
  DEF SemaphoreInit, BarrierInit, IInv
<1>2. ASSUME IInv, [TestNext]_testVars PROVE IInv'
  <2>1. CASE OfSemaphore("mutex", Mutex!Next)
    BY <1>2, <2>1, MutexNext DEF IInv, OfSemaphore
  <2>2. CASE OfSemaphore("atomic", Atomic!Next)
    BY <1>2, <2>2, AtomicNext DEF IInv, OfSemaphore
  <2>3. CASE OfSemaphore("fast", Fast!Next)
    BY <1>2, <2>3, FastNext DEF IInv, OfSemaphore
  <2>4. CASE OfBarrier(Reusable!Next \/ BarrierDone)
    BY <1>2, <2>4, BarrierNext DEF IInv, OfBarrier, BarrierDone
  <2>5. CASE UNCHANGED testVars
    <3>1. UNCHANGED vars /\ UNCHANGED <<vars, ofBarrier>> /\ kind' = kind
      BY <2>5 DEF testVars
    <3> QED
      BY <1>2, <3>1, MutexNext, AtomicNext, FastNext, BarrierNext DEF IInv
  <2> QED BY <1>2, <2>1, <2>2, <2>3, <2>4, <2>5 DEF TestNext
<1> QED BY <1>1, <1>2, PTL DEF TestSpec

(***************************************************************************)
(* Every variable has its type; in particular the fast semaphore's count   *)
(* is never below -1.                                                      *)
(***************************************************************************)
THEOREM TypeCorrect == TestSpec => []TypeOK
<1>1. IInv => TypeOK
  BY BarrierFacts DEF IInv, TypeOK, MutexInv, AtomicInv, FastInv
<1> QED BY <1>1, InvariantHolds, PTL

(***************************************************************************)
(* The first two semaphores keep the number of their permits; the third    *)
(* never drops more of them than Main has added, adds none by itself, and  *)
(* lets in at most one thread too many.                                    *)
(***************************************************************************)
THEOREM PermitsKept == TestSpec => []PermitsAccounted
<1>1. IInv => PermitsAccounted
  BY FastPermits DEF IInv, PermitsAccounted, MutexInv, AtomicInv
<1> QED BY <1>1, InvariantHolds, PTL

(***************************************************************************)
(* While a thread sleeps on a semaphore, no permit is there without a      *)
(* thread or a notification on its way; and nobody sleeps at the barrier   *)
(* after the end of the round without somebody who will notify.            *)
(***************************************************************************)
THEOREM WaitersRemembered == TestSpec => []NoWaiterForgotten
<1>1. IInv => NoWaiterForgotten
  BY BarrierFacts DEF IInv, NoWaiterForgotten, MutexInv, AtomicInv, FastInv
<1> QED BY <1>1, InvariantHolds, PTL

\* Nobody leaves the barrier before everybody has arrived for the round.
THEOREM ReleaseInTime == TestSpec => []NoEarlyRelease
<1>1. IInv => NoEarlyRelease
  BY BarrierFacts DEF IInv, NoEarlyRelease
<1> QED BY <1>1, InvariantHolds, PTL

\* Each completed round has its one callback, and no two callbacks overlap.
THEOREM CallbacksApart == TestSpec => []OneCallbackPerRound
<1>1. IInv => OneCallbackPerRound
  BY BarrierFacts DEF IInv, OneCallbackPerRound
<1> QED BY <1>1, InvariantHolds, PTL

-----------------------------------------------------------------------------
(* The first two semaphores implement PermitPool *)

Inside == IF kind \in {"mutex", "atomic"} THEN InState("inside") ELSE {}

LEMMA SamePermitCardinality ==
  ASSUME NEW S PROVE Permits!Cardinality(S) = Cardinality(S)
BY DEF Permits!Cardinality, Cardinality

LEMMA InsideCounted ==
  ASSUME kind \in {"mutex", "atomic"} PROVE Cardinality(Inside) = N(pc, {"inside"})
<1>1. Inside = At(pc, {"inside"})
  BY DEF Inside, InState, At
<1> QED BY <1>1 DEF N

\* A thread that gets a permit gets one that nobody has.
LEMMA AcquireRefines ==
  ASSUME kind \in {"mutex", "atomic"}, kind' = kind,
         NEW t \in Threads, pc[t] # "inside", NEW Labels, pc \in [Callers -> Labels],
         pc' = [pc EXCEPT ![t] = "inside"], granted' = granted,
         count > 0, count \in Nat, granted \in Nat,
         count + N(pc, {"inside"}) = Initial + granted
  PROVE  Permits!Acquire(t)
<1>1. Cardinality(Inside) < Initial + granted
  BY CountType, CountsAssumption, InsideCounted
<1>2. t \notin Inside /\ Inside' = Inside \cup {t}
  BY DEF Inside, InState, Callers
<1> QED BY <1>1, <1>2, SamePermitCardinality DEF Permits!Acquire, Inside

LEMMA ReleaseRefines ==
  ASSUME kind \in {"mutex", "atomic"}, kind' = kind,
         NEW t \in Threads, pc[t] = "inside", NEW Labels, pc \in [Callers -> Labels],
         pc' = [pc EXCEPT ![t] = "notify"], granted' = granted
  PROVE  Permits!Release(t)
<1>1. t \in Inside /\ Inside' = Inside \ {t}
  BY DEF Inside, InState, Callers
<1> QED BY <1>1 DEF Permits!Release, Inside

\* Nobody goes in or out.
LEMMA NobodyMoves ==
  ASSUME kind' = kind,
         kind \in {"mutex", "atomic"} =>
           \A t \in Callers : pc'[t] = "inside" <=> pc[t] = "inside"
  PROVE  Inside' = Inside
BY DEF Inside, InState

LEMMA GrantRefines ==
  ASSUME Inside' = Inside, granted < Extra, granted' = granted + 1
  PROVE  Permits!Grant
BY DEF Inside, Permits!Grant

LEMMA StutterRefines ==
  ASSUME Inside' = Inside, granted' = granted
  PROVE  UNCHANGED Permits!vars
BY DEF Inside, Permits!vars

Permitted == Permits!Next \/ UNCHANGED Permits!vars

\* A thread's step outside acquires' and releases' decisive ones.
LEMMA ElsewhereRefines ==
  ASSUME kind' = kind, granted' = granted, NEW Labels, pc \in [Callers -> Labels],
         NEW t \in Callers, NEW label, pc[t] # "inside", label # "inside",
         pc' = [pc EXCEPT ![t] = label]
  PROVE  Permitted
<1>1. Inside' = Inside
  BY NobodyMoves
<1> QED BY <1>1, StutterRefines DEF Permitted

LEMMA WakesRefines ==
  ASSUME kind' = kind, granted' = granted, NEW Labels, pc \in [Callers -> Labels],
         NEW t \in Callers, NEW label, label # "inside", pc[t] = "notify",
         Wakes(t, label)
  PROVE  Permitted
<1>1. \A u \in Callers : pc'[u] = "inside" <=> pc[u] = "inside"
  BY DEF Wakes
<1> QED BY <1>1, NobodyMoves, StutterRefines DEF Permitted

LEMMA MutexRefines ==
  ASSUME MutexInv, kind = "mutex", kind' = kind, Mutex!Next PROVE Permitted
<1>1. /\ count \in Nat /\ granted \in Nat /\ pc \in [Callers -> MutexLabels]
      /\ pc[Main] \in {"idle", "notify"}
      /\ count + N(pc, {"inside"}) = Initial + granted
  <2>1. Mutex!TypeOK /\ Mutex!PermitsConserved
    BY DEF MutexInv
  <2>2. count \in Nat /\ granted \in Nat /\ pc \in [Callers -> MutexLabels]
    BY <2>1, CountsAssumption
    DEF Mutex!TypeOK, Mutex!Callers, Callers, MutexLabels
  <2>3. pc[Main] \in {"idle", "notify"}
    BY <2>1 DEF Mutex!TypeOK
  <2>4. count + N(pc, {"inside"}) = Initial + granted
    BY <2>1, MutexCounts
  <2> QED BY <2>2, <2>3, <2>4
<1>2. Threads \subseteq Callers /\ Main \in Callers
  BY DEF Callers
<1>3. ASSUME NEW t \in Callers, Mutex!NotifyOne(t) PROVE Permitted
  <2>1. /\ Wakes(t, "enter") /\ pc[t] = "notify" /\ granted' = granted
    BY <1>3 DEF Mutex!NotifyOne, Mutex!Notify, Mutex!InState, Mutex!Goto,
                Mutex!Callers, Callers, Wakes
  <2> QED BY <1>1, <2>1, WakesRefines
<1>4. ASSUME NEW t \in Threads, Mutex!Acquire(t) PROVE Permitted
  <2>1. Permits!Acquire(t)
    BY <1>1, <1>4, AcquireRefines DEF Mutex!Acquire, Mutex!Goto
  <2> QED BY <2>1 DEF Permitted, Permits!Next
<1>5. ASSUME NEW t \in Threads, Mutex!Release(t) PROVE Permitted
  <2>1. Permits!Release(t)
    BY <1>1, <1>5, ReleaseRefines DEF Mutex!Release, Mutex!Goto
  <2> QED BY <2>1 DEF Permitted, Permits!Next
<1>6. ASSUME NEW t \in Threads,
             Mutex!CallAcquire(t) \/ Mutex!Block(t) \/ Mutex!WakeUp(t)
      PROVE  Permitted
  <2>1. PICK label \in {"enter", "wait"} : pc' = [pc EXCEPT ![t] = label]
    BY <1>6 DEF Mutex!CallAcquire, Mutex!Call, Mutex!Block, Mutex!WakeUp,
                Mutex!WakeSpuriously, Mutex!Goto
  <2>2. pc[t] # "inside" /\ granted' = granted
    BY <1>6 DEF Mutex!CallAcquire, Mutex!Call, Mutex!Block, Mutex!WakeUp,
                Mutex!WakeSpuriously
  <2> QED BY <1>1, <1>2, <2>1, <2>2, ElsewhereRefines
<1>7. CASE Mutex!Grant
  <2>1. /\ pc[Main] = "idle" /\ pc' = [pc EXCEPT ![Main] = "notify"]
        /\ granted < Extra /\ granted' = granted + 1
    BY <1>7 DEF Mutex!Grant, Mutex!CallGrant, Mutex!Goto
  <2>2. Inside' = Inside
    BY <1>1, <1>2, <2>1, NobodyMoves
  <2> QED BY <2>1, <2>2, GrantRefines DEF Permitted, Permits!Next
<1>8. CASE Mutex!Joined
  BY <1>8, NobodyMoves, StutterRefines DEF Mutex!Joined, Mutex!vars, Permitted
<1> QED
  BY <1>2, <1>3, <1>4, <1>5, <1>6, <1>7, <1>8
  DEF Mutex!Next, Mutex!MainStep, Mutex!Step

LEMMA AtomicRefines ==
  ASSUME AtomicInv, kind = "atomic", kind' = kind, Atomic!Next PROVE Permitted
<1>1. /\ count \in Nat /\ granted \in Nat /\ pc \in [Callers -> AtomicLabels]
      /\ old \in [Callers -> 0..(Initial + Extra)]
      /\ count + N(pc, {"inside"}) = Initial + granted
  <2>1. Atomic!TypeOK /\ Atomic!PermitsConserved
    BY DEF AtomicInv
  <2>2. count \in Nat /\ granted \in Nat
    BY <2>1, CountsAssumption DEF Atomic!TypeOK
  <2>3. /\ pc \in [Callers -> AtomicLabels]
        /\ old \in [Callers -> 0..(Initial + Extra)]
    BY <2>1 DEF Atomic!TypeOK, Atomic!Callers, Callers, AtomicLabels
  <2>4. count + N(pc, {"inside"}) = Initial + granted
    BY <2>1, AtomicCounts
  <2> QED BY <2>2, <2>3, <2>4
<1>2. Threads \subseteq Callers /\ Main \in Callers
  BY DEF Callers
<1>3. ASSUME NEW t \in Callers, Atomic!NotifyOne(t) PROVE Permitted
  <2>1. /\ Wakes(t, "look") /\ pc[t] = "notify" /\ granted' = granted
    BY <1>3 DEF Atomic!NotifyOne, Atomic!Notify, Atomic!InState, Atomic!Goto,
                Atomic!Callers, Callers, Wakes
  <2> QED BY <1>1, <2>1, WakesRefines
<1>4. ASSUME NEW t \in Threads, Atomic!Take(t) PROVE Permitted
  <2>1. /\ count > 0 /\ pc[t] # "inside" /\ granted' = granted
        /\ pc' = [pc EXCEPT ![t] = "inside"]
    BY <1>1, <1>2, <1>4 DEF Atomic!Take, Atomic!Goto
  <2>2. Permits!Acquire(t)
    BY <1>1, <2>1, AcquireRefines
  <2> QED BY <2>2 DEF Permitted, Permits!Next
<1>5. ASSUME NEW t \in Threads, Atomic!Release(t) PROVE Permitted
  <2>1. Permits!Release(t)
    BY <1>1, <1>5, ReleaseRefines DEF Atomic!Release, Atomic!Goto
  <2> QED BY <2>1 DEF Permitted, Permits!Next
<1>6. ASSUME NEW t \in Threads,
             \/ Atomic!CallAcquire(t) \/ Atomic!Load(t) \/ Atomic!StartWait(t)
             \/ Atomic!Sleep(t) \/ Atomic!EndWait(t) \/ Atomic!WakeUp(t)
      PROVE  Permitted
  <2> USE DEF Atomic!CallAcquire, Atomic!Call, Atomic!Load, Atomic!StartWait,
              Atomic!Sleep, Atomic!EndWait, Atomic!WakeUp, Atomic!WakeSpuriously
  <2>1. PICK label \in {"load", "test", "look", "wait"} :
          pc' = [pc EXCEPT ![t] = label]
    BY <1>6 DEF Atomic!Goto
  <2>2. pc[t] # "inside" /\ granted' = granted
    BY <1>6
  <2> QED BY <1>1, <1>2, <2>1, <2>2, ElsewhereRefines
<1>7. ASSUME NEW t \in Threads, Atomic!MissTake(t) PROVE Permitted
  BY <1>7, NobodyMoves, StutterRefines DEF Atomic!MissTake, Permitted
<1>8. CASE Atomic!Grant
  <2>1. /\ pc[Main] = "idle" /\ pc' = [pc EXCEPT ![Main] = "notify"]
        /\ granted < Extra /\ granted' = granted + 1
    BY <1>8 DEF Atomic!Grant, Atomic!CallGrant, Atomic!Goto
  <2>2. Inside' = Inside
    BY <1>1, <1>2, <2>1, NobodyMoves
  <2> QED BY <2>1, <2>2, GrantRefines DEF Permitted, Permits!Next
<1>9. CASE Atomic!Joined
  BY <1>9, NobodyMoves, StutterRefines DEF Atomic!Joined, Atomic!vars, Permitted
<1> QED
  BY <1>2, <1>3, <1>4, <1>5, <1>6, <1>7, <1>8, <1>9
  DEF Atomic!Next, Atomic!MainStep, Atomic!Step

\* Of the third only what Main grants is held against PermitPool.
LEMMA FastRefines ==
  ASSUME kind = "fast", kind' = kind, Fast!Next PROVE Permitted
<1>1. Inside' = Inside
  BY NobodyMoves
<1>2. CASE Fast!Grant
  BY <1>1, <1>2, GrantRefines
  DEF Fast!Grant, Fast!CallGrant, Permitted, Permits!Next
<1>3. CASE granted' = granted
  BY <1>1, <1>3, StutterRefines DEF Permitted
<1> QED
  BY <1>2, <1>3
  DEF Fast!Next, Fast!MainStep, Fast!Step, Fast!Acquire, Fast!Release,
      Fast!CallAcquire, Fast!Call, Fast!FastTake, Fast!FastMiss, Fast!GoSlow,
      Fast!SlowWait, Fast!SlowPass, Fast!SlowTake, Fast!CallRelease,
      Fast!DropRelease, Fast!Give, Fast!MissGive, Fast!NotifyOne, Fast!Notify,
      Fast!WakeUp, Fast!WakeSpuriously, Fast!Joined, Fast!vars

(***************************************************************************)
(* The semaphore with a mutex and the one with an atomic never let more    *)
(* threads in than there are permits, in whatever order they wake up.      *)
(***************************************************************************)
THEOREM Implementation == TestSpec => ImplementsPermits
<1>1. ASSUME SemaphoreInit \/ BarrierInit PROVE Permits!Init
  <2>1. granted = 0
    BY <1>1 DEF SemaphoreInit, BarrierInit, Init, Fast!Constructed, Fast!Init
  <2>2. Inside = {}
    BY <1>1 DEF SemaphoreInit, BarrierInit, Init, Inside, InState
  <2> QED BY <2>1, <2>2 DEF Permits!Init, Inside
<1>2. ASSUME IInv, [TestNext]_testVars PROVE [Permits!Next]_(Permits!vars)
  <2>1. CASE OfSemaphore("mutex", Mutex!Next)
    BY <1>2, <2>1, MutexRefines DEF IInv, OfSemaphore, Permitted
  <2>2. CASE OfSemaphore("atomic", Atomic!Next)
    BY <1>2, <2>2, AtomicRefines DEF IInv, OfSemaphore, Permitted
  <2>3. CASE OfSemaphore("fast", Fast!Next)
    BY <2>3, FastRefines DEF OfSemaphore, Permitted
  <2>4. CASE OfBarrier(Reusable!Next \/ BarrierDone)
    BY <2>4, NobodyMoves, StutterRefines DEF OfBarrier, ofSemaphores
  <2>5. CASE UNCHANGED testVars
    BY <2>5, NobodyMoves, StutterRefines DEF testVars, vars
  <2> QED BY <1>2, <2>1, <2>2, <2>3, <2>4, <2>5 DEF TestNext
<1> QED
  BY <1>1, <1>2, InvariantHolds, PTL DEF TestSpec, ImplementsPermits, Permits!Spec
=============================================================================
