----------------------------- MODULE LockProofs ------------------------------
(***************************************************************************)
(* Mutual exclusion of the four locks, for any number of threads and of    *)
(* rounds; for the ticket lock also that its numbers may wrap around, as   *)
(* long as the threads do not outnumber the values of a ticket.  Then all  *)
(* of this for the threads of MCLocks, and that the mutexes that put       *)
(* threads to sleep forget none of them.                                   *)
(***************************************************************************)
EXTENDS MCLocks, RingArithmetic, FiniteSetTheorems

\* The initial states are typed.
LEMMA TypeInit == Init => TypeOK
BY RoundsAssumption DEF Init, TypeOK

\* The steps that all locks share keep the types.
LEMMA TypeShared ==
  ASSUME TypeOK, NEW t \in Threads,
         Increment(t) \/ WakeSpuriously(t) \/ WakeOne(t) \/ Joined
  PROVE  TypeOK'
<1>1. CASE Load(t)
  BY <1>1 DEF TypeOK, Load, At, Goto, ticketing
<1>2. CASE Store(t)
  <2>1. loaded[t] + 1 \in Nat
    BY DEF TypeOK
  <2>2. done[t] \in 0..Rounds /\ done[t] < Rounds
    BY <1>2 DEF TypeOK, Store, At
  <2>3. done[t] + 1 \in 0..Rounds
    BY <2>2, RoundsAssumption
  <2>4. /\ counter' \in Nat
        /\ loaded' \in [Threads -> Nat]
        /\ done' \in [Threads -> 0..Rounds]
    BY <1>2, <2>1, <2>3 DEF Store, TypeOK
  <2>5. \A u \in Threads \ {t} : done'[u] = done[u] /\ pc'[u] = pc[u]
    BY <1>2 DEF Store, Goto, TypeOK
  <2>6. pc'[t] = "unlock"
    BY <1>2 DEF Store, Goto, TypeOK
  <2> QED BY <1>2, <2>4, <2>5, <2>6 DEF TypeOK, Store, At, Goto, ticketing
<1>3. CASE WakeSpuriously(t)
  BY <1>3 DEF TypeOK, WakeSpuriously, ticketing, work
<1>4. CASE WakeOne(t)
  BY <1>4 DEF TypeOK, WakeOne, At, Goto, ticketing, work
<1>5. CASE Joined
  BY <1>5 DEF TypeOK, Joined, vars, ticketing, work
<1> QED BY <1>1, <1>2, <1>3, <1>4, <1>5 DEF Increment

-----------------------------------------------------------------------------
(* The locks that spin on a flag.                                          *)

LEMMA SpinInvariantInit == Init => SpinInv
BY TypeInit DEF Init, SpinInv, MutualExclusion, Inside

LEMMA SpinInvariantNext == SpinInv /\ [SpinNext]_vars => SpinInv'
<1> SUFFICES ASSUME SpinInv, [SpinNext]_vars PROVE SpinInv'
  OBVIOUS
<1> USE DEF SpinInv, Inside, MutualExclusion
<1>1. ASSUME NEW t \in Threads, NEW label \in {"lock", "exchange"},
             Exchange(t, label)
      PROVE  SpinInv'
  <2>1. TypeOK'
    BY <1>1 DEF Exchange, TypeOK, At, Goto, ticketing, work
  <2> QED BY <1>1, <2>1 DEF Exchange, TypeOK, Goto
<1>2. ASSUME NEW t \in Threads, Look(t) PROVE SpinInv'
  <2>1. TypeOK'
    BY <1>2 DEF Look, TypeOK, At, Goto, ticketing, work
  <2> QED BY <1>2, <2>1 DEF Look, TypeOK, Goto
<1>3. ASSUME NEW t \in Threads, MissExchange(t) PROVE SpinInv'
  <2>1. TypeOK'
    BY <1>3 DEF MissExchange, TypeOK, At, Goto, ticketing, work
  <2> QED BY <1>3, <2>1 DEF MissExchange, TypeOK, Goto
<1>4. ASSUME NEW t \in Threads, SpinUnlock(t) PROVE SpinInv'
  <2>1. TypeOK'
    BY <1>4 DEF SpinUnlock, TypeOK, At, Goto, ticketing, work
  <2> QED BY <1>4, <2>1 DEF SpinUnlock, TypeOK, At, Goto
<1>5. ASSUME NEW t \in Threads, Increment(t) PROVE SpinInv'
  <2>1. TypeOK'
    BY <1>5, TypeShared
  <2>2. \A u \in Threads : Inside(u)' <=> Inside(u)
    BY <1>5 DEF Increment, Load, Store, TypeOK, At, Goto
  <2>3. word' = word
    BY <1>5 DEF Increment, Load, Store
  <2> QED BY <2>1, <2>2, <2>3
<1>6. CASE UNCHANGED vars
  BY <1>6 DEF vars, ticketing, work, TypeOK
<1> QED
  BY <1>1, <1>2, <1>3, <1>4, <1>5, <1>6
     DEF SpinNext, SpinStep, LookingStep, SetFlag, LookAndLock, Joined

(***************************************************************************)
(* The locks of SpinLock.cpp let in one thread at a time, whether a thread *)
(* looks first or not.                                                     *)
(***************************************************************************)
THEOREM SpinLockExcludes == SpinSpec => []MutualExclusion
<1>1. SpinInv => MutualExclusion
  BY DEF SpinInv
<1> QED BY <1>1, SpinInvariantInit, SpinInvariantNext, PTL DEF SpinSpec

-----------------------------------------------------------------------------
(* OnByteMutex.                                                            *)

LEMMA ByteInvariantInit == Init => ByteInv
BY TypeInit DEF Init, ByteInv, MutualExclusion, Inside, Unlocked

LEMMA ByteInvariantNext == ByteInv /\ [ByteNext]_vars => ByteInv'
<1> SUFFICES ASSUME ByteInv, [ByteNext]_vars PROVE ByteInv'
  OBVIOUS
<1> USE DEF ByteInv, Inside, MutualExclusion, Unlocked, Locked, Sleeper
<1>1. ASSUME NEW t \in Threads, TryLock(t) PROVE ByteInv'
  <2>1. TypeOK'
    BY <1>1 DEF TryLock, ExchangeState, TypeOK, At, Goto, ticketing, work
  <2> QED BY <1>1, <2>1 DEF TryLock, ExchangeState, TypeOK, At, Goto
<1>2. ASSUME NEW t \in Threads, LockAsSleeper(t) PROVE ByteInv'
  <2>1. TypeOK'
    BY <1>2 DEF LockAsSleeper, ExchangeState, TypeOK, At, Goto, ticketing, work
  <2> QED BY <1>2, <2>1 DEF LockAsSleeper, ExchangeState, TypeOK, At, Goto
<1>3. ASSUME NEW t \in Threads, Sleep(t) PROVE ByteInv'
  BY <1>3 DEF Sleep, TypeOK, ticketing, work
<1>4. ASSUME NEW t \in Threads, EndWait(t) PROVE ByteInv'
  <2>1. TypeOK'
    BY <1>4 DEF EndWait, TypeOK, At, Goto, ticketing, work
  <2> QED BY <1>4, <2>1 DEF EndWait, TypeOK, Goto
<1>5. ASSUME NEW t \in Threads, ByteUnlock(t) PROVE ByteInv'
  <2>1. TypeOK'
    BY <1>5 DEF ByteUnlock, TypeOK, At, Goto, ticketing, work
  <2> QED BY <1>5, <2>1 DEF ByteUnlock, TypeOK, At, Goto
<1>6. ASSUME NEW t \in Threads, Increment(t) PROVE ByteInv'
  <2>1. TypeOK'
    BY <1>6, TypeShared
  <2>2. \A u \in Threads : Inside(u)' <=> Inside(u)
    BY <1>6 DEF Increment, Load, Store, TypeOK, At, Goto
  <2>3. word' = word
    BY <1>6 DEF Increment, Load, Store
  <2> QED BY <2>1, <2>2, <2>3
<1>7. ASSUME NEW t \in Threads, WakeOne(t) \/ WakeSpuriously(t) PROVE ByteInv'
  <2>1. TypeOK'
    BY <1>7, TypeShared
  <2>2. \A u \in Threads : Inside(u)' <=> Inside(u)
    BY <1>7 DEF WakeOne, WakeSpuriously, TypeOK, At, Goto
  <2>3. word' = word
    BY <1>7 DEF WakeOne, WakeSpuriously
  <2> QED BY <2>1, <2>2, <2>3
<1>8. CASE UNCHANGED vars
  BY <1>8 DEF vars, ticketing, work, TypeOK
<1> QED
  BY <1>1, <1>2, <1>3, <1>4, <1>5, <1>6, <1>7, <1>8
     DEF ByteNext, ByteStep, ByteLock, NotifyOne, Joined

(***************************************************************************)
(* OnByteMutex lets in one thread at a time.                               *)
(***************************************************************************)
THEOREM ByteMutexExcludes == ByteSpec => []MutualExclusion
<1>1. ByteInv => MutualExclusion
  BY DEF ByteInv
<1> QED BY <1>1, ByteInvariantInit, ByteInvariantNext, PTL DEF ByteSpec

-----------------------------------------------------------------------------
(* FutexMutex.                                                             *)

LEMMA FutexInvariantInit == Init => FutexInv
BY TypeInit DEF Init, FutexInv, Owns, Inside

LEMMA FutexInvariantNext == FutexInv /\ [FutexNext]_vars => FutexInv'
<1> SUFFICES ASSUME FutexInv, [FutexNext]_vars PROVE FutexInv'
  OBVIOUS
<1> USE DEF FutexInv, Owns, Inside
<1>1. ASSUME NEW t \in Threads, FastPath(t) PROVE FutexInv'
  <2>1. TypeOK'
    BY <1>1 DEF FastPath, CompareExchange, TypeOK, At, Goto, ticketing, work
  <2> QED BY <1>1, <2>1 DEF FastPath, CompareExchange, TypeOK, At, Goto
<1>2. ASSUME NEW t \in Threads, Mark(t) PROVE FutexInv'
  <2>1. TypeOK'
    BY <1>2 DEF Mark, CompareExchange, TypeOK, At, Goto, ticketing, work
  <2> QED BY <1>2, <2>1 DEF Mark, CompareExchange, TypeOK, At, Goto
<1>3. ASSUME NEW t \in Threads, Take(t) PROVE FutexInv'
  <2>1. TypeOK'
    BY <1>3 DEF Take, CompareExchange, TypeOK, At, Goto, ticketing, work
  <2> QED BY <1>3, <2>1 DEF Take, CompareExchange, TypeOK, At, Goto
<1>4. ASSUME NEW t \in Threads, FutexWait(t) PROVE FutexInv'
  <2>1. TypeOK'
    BY <1>4 DEF FutexWait, TypeOK, At, Goto, ticketing, work
  <2> QED BY <1>4, <2>1 DEF FutexWait, TypeOK, At, Goto
<1>5. ASSUME NEW t \in Threads, Decrement(t) PROVE FutexInv'
  <2>1. Owns(t)
    BY <1>5 DEF Decrement, At
  <2>2. TypeOK'
    BY <1>5, <2>1 DEF Decrement, TypeOK, At, Goto, ticketing, work
  <2>3. \A u \in Threads : Owns(u) => u = t
    BY <2>1
  <2>4. \A u \in Threads : Owns(u)' => u = t /\ word # 1
    BY <1>5, <2>3 DEF Decrement, TypeOK, At, Goto
  <2>5. word' \in {0, 1} /\ (word # 1 => word' = 1)
    BY <1>5, <2>1 DEF Decrement
  <2> QED BY <2>2, <2>4, <2>5
<1>6. ASSUME NEW t \in Threads, Clear(t) PROVE FutexInv'
  <2>1. TypeOK'
    BY <1>6 DEF Clear, TypeOK, At, Goto, ticketing, work
  <2> QED BY <1>6, <2>1 DEF Clear, TypeOK, At, Goto
<1>7. ASSUME NEW t \in Threads, Increment(t) PROVE FutexInv'
  <2>1. TypeOK'
    BY <1>7, TypeShared
  <2>2. \A u \in Threads : Owns(u)' <=> Owns(u)
    BY <1>7 DEF Increment, Load, Store, TypeOK, At, Goto
  <2>3. word' = word
    BY <1>7 DEF Increment, Load, Store
  <2> QED BY <2>1, <2>2, <2>3
<1>8. ASSUME NEW t \in Threads, WakeOne(t) \/ WakeSpuriously(t) PROVE FutexInv'
  <2>1. TypeOK'
    BY <1>8, TypeShared
  <2>2. \A u \in Threads : Owns(u)' <=> Owns(u)
    BY <1>8 DEF WakeOne, WakeSpuriously, TypeOK, At, Goto
  <2>3. word' = word
    BY <1>8 DEF WakeOne, WakeSpuriously
  <2> QED BY <2>1, <2>2, <2>3
<1>9. CASE UNCHANGED vars
  BY <1>9 DEF vars, ticketing, work, TypeOK
<1> QED
  BY <1>1, <1>2, <1>3, <1>4, <1>5, <1>6, <1>7, <1>8, <1>9
     DEF FutexNext, FutexStep, FutexLock, FutexUnlock, FutexWake, Joined

(***************************************************************************)
(* FutexMutex lets in one thread at a time, although unlock writes twice.  *)
(***************************************************************************)
THEOREM FutexMutexExcludes == FutexSpec => []MutualExclusion
<1>1. FutexInv => MutualExclusion
  BY DEF FutexInv, Owns, MutualExclusion
<1> QED BY <1>1, FutexInvariantInit, FutexInvariantNext, PTL DEF FutexSpec

-----------------------------------------------------------------------------
(* FairSpinLock.                                                           *)

LEMMA RangePositive ==
  /\ TicketRange \in Nat \ {0}
  /\ 0 % TicketRange = 0
BY TicketAssumption, FirstLap

\* No thread is twice in the queue: it is no longer than there are tickets.
LEMMA QueueFits == TicketInv => Len(queue) <= TicketRange
<1> SUFFICES ASSUME TicketInv PROVE Len(queue) <= TicketRange
  OBVIOUS
<1>1. queue \in Seq(Threads) /\ Len(queue) \in Nat
  BY DEF TicketInv, TypeOK
<1>2. queue \in [1..Len(queue) -> Threads]
  BY <1>1
<1>3. queue \in Injection(1..Len(queue), Threads)
  BY <1>2 DEF TicketInv, Injection, IsInjective
<1>4. Cardinality(1..Len(queue)) <= Cardinality(Threads)
  BY <1>3, TicketAssumption, FS_Injection
<1>5. Cardinality(1..Len(queue)) = Len(queue)
  <2> DEFINE n == Len(queue)
  <2>1. n \in Nat /\ n \in Int /\ 1 \in Int
    BY <1>1
  <2> HIDE DEF n
  <2>2. Cardinality(1..n) = IF 1 > n THEN 0 ELSE n - 1 + 1
    BY <2>1, FS_Interval
  <2>3. Cardinality(1..n) = n
    BY <2>1, <2>2
  <2> QED BY <2>3 DEF n
<1>6. Cardinality(Threads) \in Nat
  BY TicketAssumption, FS_CardinalityType
<1> QED BY <1>1, <1>4, <1>5, <1>6, TicketAssumption

\* Only the first in the queue has the ticket that is served.
LEMMA ServedIsFirst ==
  ASSUME TicketInv, NEW t \in Threads, pc[t] = "spin", serving = mine[t]
  PROVE  queue[1] = t
<1>1. PICK i \in 1..Len(queue) : queue[i] = t
  BY DEF TicketInv, HasTicket
<1>2. mine[t] = (serving + i - 1) % TicketRange
  BY <1>1 DEF TicketInv
<1>3. serving % TicketRange = serving
  <2>1. serving \in 0..(TicketRange - 1)
    BY RangePositive DEF TicketInv, TypeOK
  <2> QED BY <2>1, RangePositive, FirstLap
<1>4. i - 1 < TicketRange
  <2>1. Len(queue) \in Nat /\ TicketRange \in Nat
    BY RangePositive DEF TicketInv, TypeOK
  <2> QED BY <1>1, <2>1, QueueFits
<1>5. ~(serving < serving + (i - 1))
  <2>1. SUFFICES ASSUME serving < serving + (i - 1) PROVE FALSE
    OBVIOUS
  <2>2. serving \in Nat /\ serving + (i - 1) \in Nat
    <3>1. i - 1 \in Nat /\ serving \in Nat
      BY <1>1 DEF TicketInv, TypeOK
    <3> QED BY <3>1
  <2>3. (serving + (i - 1)) % TicketRange = serving % TicketRange
    BY <1>2, <1>3, <2>2
  <2>4. serving + (i - 1) >= serving + TicketRange
    BY <2>1, <2>2, <2>3, RangePositive, SameCellLapApart
  <2> QED BY <1>4, <2>2, <2>4, RangePositive
<1>6. i = 1
  BY <1>1, <1>5 DEF TicketInv, TypeOK
<1> QED BY <1>1, <1>6

LEMMA TicketInvariantInit == Init => TicketInv
BY TypeInit, RangePositive DEF Init, TicketInv, HasTicket, Inside

LEMMA DrawTicketInvariant ==
  ASSUME TicketInv, NEW t \in Threads, DrawTicket(t)
  PROVE  TicketInv'
<1> DEFINE n == Len(queue)
<1>1. TypeOK /\ serving \in Nat /\ n \in Nat
  BY DEF TicketInv, TypeOK
<1>2. TypeOK'
  <2>1. (word + 1) % TicketRange \in Nat
    BY <1>1, RangePositive, CellInRing DEF TypeOK
  <2> QED BY <1>1, <2>1 DEF DrawTicket, TypeOK, At, Goto, work
<1>3. \A i \in 1..n : queue[i] # t
  BY DEF DrawTicket, At, TicketInv, HasTicket, Inside
<1>4. /\ Len(queue') = n + 1
      /\ queue'[n + 1] = t
      /\ \A i \in 1..n : queue'[i] = queue[i]
  BY <1>1 DEF DrawTicket, TypeOK
<1>5. \A i, j \in 1..Len(queue') : queue'[i] = queue'[j] => i = j
  <2> TAKE i, j \in 1..Len(queue')
  <2>1. HAVE queue'[i] = queue'[j]
  <2>2. i \in 1..n \/ i = n + 1
    BY <1>1, <1>4
  <2>3. j \in 1..n \/ j = n + 1
    BY <1>1, <1>4
  <2>4. \A k, m \in 1..n : queue[k] = queue[m] => k = m
    BY DEF TicketInv
  <2> HIDE DEF n
  <2> QED BY <1>3, <1>4, <2>1, <2>2, <2>3, <2>4
<1>6. \A u \in Threads : HasTicket(u)' <=> \E i \in 1..Len(queue') : queue'[i] = u
  <2> TAKE u \in Threads
  <2>1. CASE u = t
    BY <1>1, <1>4, <2>1 DEF DrawTicket, Goto, TypeOK, HasTicket
  <2>2. CASE u # t
    <3>1. HasTicket(u)' <=> HasTicket(u)
      BY <1>1, <2>2 DEF DrawTicket, Goto, TypeOK, HasTicket, Inside
    <3>2. (\E i \in 1..n : queue[i] = u) <=> \E i \in 1..Len(queue') : queue'[i] = u
      BY <1>1, <1>4, <2>2
    <3> QED BY <3>1, <3>2 DEF TicketInv
  <2> QED BY <2>1, <2>2
<1>7. word' = (serving' + Len(queue')) % TicketRange
  <2>1. word = (serving + n) % TicketRange /\ serving + n \in Nat
    BY <1>1 DEF TicketInv
  <2>2. (word + 1) % TicketRange = (serving + n + 1) % TicketRange
    BY <2>1, RangePositive, WrapThenAdd
  <2>3. serving + n + 1 = serving + (n + 1)
    BY <1>1
  <2> QED BY <1>4, <2>2, <2>3 DEF DrawTicket
<1>8. \A i \in 1..Len(queue') : mine'[queue'[i]] = (serving' + i - 1) % TicketRange
  <2> TAKE i \in 1..Len(queue')
  <2>1. CASE i = n + 1
    <3>1. mine'[t] = word /\ serving' = serving
      BY DEF DrawTicket, TicketInv, TypeOK
    <3>2. word = (serving + n) % TicketRange
      BY DEF TicketInv
    <3>3. serving + n = serving + i - 1
      BY <1>1, <2>1
    <3> QED BY <1>4, <2>1, <3>1, <3>2, <3>3
  <2>2. CASE i \in 1..n
    <3>1. queue[i] # t /\ queue[i] \in Threads
      <4>1. queue \in Seq(Threads)
        BY <1>1 DEF TypeOK
      <4> QED BY <1>3, <2>2, <4>1
    <3>2. mine'[queue[i]] = mine[queue[i]] /\ serving' = serving
      BY <1>1, <3>1 DEF DrawTicket, TypeOK
    <3> QED BY <1>4, <2>2, <3>2 DEF TicketInv
  <2> QED BY <1>1, <1>4, <2>1, <2>2
<1>9. \A u \in Threads : Inside(u)' => queue'[1] = u
  <2> TAKE u \in Threads
  <2>1. HAVE Inside(u)'
  <2>2. Inside(u)
    BY <1>1, <2>1 DEF DrawTicket, Goto, TypeOK, Inside
  <2>3. 1 \in 1..n /\ queue[1] = u
    BY <1>1, <2>2 DEF TicketInv, HasTicket
  <2> QED BY <1>4, <2>3
<1> QED BY <1>2, <1>5, <1>6, <1>7, <1>8, <1>9 DEF TicketInv, DrawTicket

LEMMA TicketUnlockInvariant ==
  ASSUME TicketInv, NEW t \in Threads, TicketUnlock(t)
  PROVE  TicketInv'
<1> DEFINE n == Len(queue)
           next == (serving + 1) % TicketRange
<1>1. TypeOK /\ serving \in Nat /\ n \in Nat
  BY DEF TicketInv, TypeOK
<1>2. n >= 1 /\ queue[1] = t
  BY <1>1 DEF TicketUnlock, At, TicketInv, HasTicket, Inside
<1>3. next \in 0..(TicketRange - 1)
  BY <1>1, RangePositive, CellInRing
<1>4. /\ Len(queue') = n - 1
      /\ \A i \in 1..(n - 1) : queue'[i] = queue[i + 1]
      /\ queue' \in Seq(Threads)
  BY <1>1, <1>2 DEF TicketUnlock, TypeOK
<1>5. TypeOK'
  <2>1. serving' \in Nat
    BY <1>3, RangePositive DEF TicketUnlock
  <2>2. mine' \in [Threads -> Nat]
    BY <1>1 DEF TicketUnlock, TypeOK
  <2>3. /\ pc'[t] = "lock"
        /\ \A u \in Threads \ {t} : pc'[u] = pc[u]
        /\ pc' \in [Threads -> {"lock", "load", "store", "unlock", "spin", "exchange",
                               "mark", "take", "wait", "clear", "wake"}]
    BY <1>1 DEF TicketUnlock, TypeOK, Goto
  <2> HIDE DEF next, n
  <2> QED BY <1>1, <1>4, <2>1, <2>2, <2>3 DEF TicketUnlock, TypeOK, work
<1>6. \A i \in 1..(n - 1) : queue[i + 1] # t /\ queue[i + 1] \in Threads
  <2> TAKE i \in 1..(n - 1)
  <2>1. i + 1 \in 1..n /\ 1 \in 1..n /\ i + 1 # 1
    BY <1>1, <1>2
  <2>2. queue[i + 1] # queue[1]
    BY <2>1 DEF TicketInv
  <2>3. queue[i + 1] \in Threads
    <3>1. queue \in Seq(Threads)
      BY <1>1 DEF TypeOK
    <3> QED BY <2>1, <3>1
  <2> QED BY <1>2, <2>2, <2>3
<1>7. \A i, j \in 1..Len(queue') : queue'[i] = queue'[j] => i = j
  <2> TAKE i, j \in 1..Len(queue')
  <2>1. HAVE queue'[i] = queue'[j]
  <2>2. i \in 1..(n - 1) /\ j \in 1..(n - 1) /\ i + 1 \in 1..n /\ j + 1 \in 1..n
    BY <1>1, <1>4
  <2>3. queue[i + 1] = queue[j + 1]
    BY <1>4, <2>1, <2>2
  <2>4. \A k, m \in 1..n : queue[k] = queue[m] => k = m
    BY DEF TicketInv
  <2>5. i + 1 = j + 1
    <3> HIDE DEF n
    <3> QED BY <2>2, <2>3, <2>4
  <2> QED BY <2>2, <2>5
<1>8. \A u \in Threads : HasTicket(u)' <=> \E i \in 1..Len(queue') : queue'[i] = u
  <2> TAKE u \in Threads
  <2>1. CASE u = t
    BY <1>1, <1>4, <1>6, <2>1 DEF TicketUnlock, Goto, TypeOK, HasTicket, Inside
  <2>2. CASE u # t
    <3>1. HasTicket(u)' <=> HasTicket(u)
      BY <1>1, <2>2 DEF TicketUnlock, Goto, TypeOK, HasTicket, Inside
    <3>2. ASSUME NEW i \in 1..n, queue[i] = u
          PROVE  \E j \in 1..Len(queue') : queue'[j] = u
      <4>1. i - 1 \in 1..(n - 1) /\ (i - 1) + 1 = i
        BY <1>1, <1>2, <2>2, <3>2
      <4> QED BY <1>4, <3>2, <4>1
    <3>3. ASSUME NEW j \in 1..Len(queue'), queue'[j] = u
          PROVE  \E i \in 1..n : queue[i] = u
      <4>1. j \in 1..(n - 1) /\ j + 1 \in 1..n
        BY <1>1, <1>4
      <4> QED BY <1>4, <3>3, <4>1
    <3> QED BY <3>1, <3>2, <3>3 DEF TicketInv
  <2> QED BY <2>1, <2>2
<1>9. \A k \in Nat : k >= 1 => (next + (k - 1)) % TicketRange = (serving + k) % TicketRange
  <2> TAKE k \in Nat
  <2>1. HAVE k >= 1
  <2>2. serving + 1 \in Nat /\ k - 1 \in Nat /\ (serving + 1) + (k - 1) = serving + k
    BY <1>1, <2>1
  <2>3. (next + (k - 1)) % TicketRange = ((serving + 1) + (k - 1)) % TicketRange
    BY <2>2, RangePositive, WrapThenAdd
  <2> QED BY <2>2, <2>3
<1>10. serving' = next /\ word' = word
  BY DEF TicketUnlock
<1> HIDE DEF next
<1>11. word' = (serving' + Len(queue')) % TicketRange
  <2>1. word = (serving + n) % TicketRange
    BY DEF TicketInv
  <2>2. (next + (n - 1)) % TicketRange = (serving + n) % TicketRange
    BY <1>1, <1>2, <1>9
  <2> QED BY <1>4, <1>10, <2>1, <2>2
<1>12. \A i \in 1..Len(queue') : mine'[queue'[i]] = (serving' + i - 1) % TicketRange
  <2> TAKE i \in 1..Len(queue')
  <2>1. i \in 1..(n - 1) /\ i + 1 \in 1..n /\ i \in Nat /\ i >= 1
    BY <1>1, <1>4
  <2>2. mine'[queue[i + 1]] = mine[queue[i + 1]]
    BY <1>1, <1>6, <2>1 DEF TicketUnlock, TypeOK
  <2>3. mine[queue[i + 1]] = (serving + (i + 1) - 1) % TicketRange
    BY <2>1 DEF TicketInv
  <2>4. serving + (i + 1) - 1 = serving + i /\ next + i - 1 = next + (i - 1)
    BY <1>1, <1>3, <2>1
  <2>5. (next + (i - 1)) % TicketRange = (serving + i) % TicketRange
    BY <1>9, <2>1
  <2> QED BY <1>4, <1>10, <2>1, <2>2, <2>3, <2>4, <2>5
<1>13. \A u \in Threads : ~Inside(u)'
  <2> SUFFICES ASSUME NEW u \in Threads, Inside(u)' PROVE FALSE
    OBVIOUS
  <2>1. u # t /\ Inside(u)
    BY <1>1 DEF TicketUnlock, Goto, TypeOK, Inside
  <2> QED BY <1>2, <2>1 DEF TicketInv
<1>14. (serving < TicketRange)'
  BY <1>3, <1>10, RangePositive
<1> QED BY <1>5, <1>7, <1>8, <1>11, <1>12, <1>13, <1>14 DEF TicketInv

LEMMA TicketInvariantNext == TicketInv /\ [TicketNext]_vars => TicketInv'
<1> SUFFICES ASSUME TicketInv, [TicketNext]_vars PROVE TicketInv'
  OBVIOUS
<1>1. ASSUME NEW t \in Threads, DrawTicket(t) PROVE TicketInv'
  BY <1>1, DrawTicketInvariant
<1>2. ASSUME NEW t \in Threads, SeeServing(t) PROVE TicketInv'
  <2>1. TypeOK'
    BY <1>2 DEF SeeServing, TicketInv, TypeOK, At, Goto, ticketing, work
  <2>2. queue[1] = t
    BY <1>2, ServedIsFirst DEF SeeServing, IsServed, At
  <2>3. \A u \in Threads : /\ HasTicket(u)' <=> HasTicket(u)
                           /\ Inside(u)' => Inside(u) \/ u = t
    BY <1>2 DEF SeeServing, TicketInv, TypeOK, At, Goto, HasTicket, Inside
  <2>4. /\ queue' = queue /\ mine' = mine /\ serving' = serving /\ word' = word
    BY <1>2 DEF SeeServing, ticketing
  <2>5. \A u \in Threads : Inside(u)' => queue'[1] = u
    <3> TAKE u \in Threads
    <3>1. HAVE Inside(u)'
    <3>2. u = t \/ Inside(u)
      BY <2>3, <3>1
    <3>3. Inside(u) => queue[1] = u
      BY DEF TicketInv
    <3> QED BY <2>2, <2>4, <3>2, <3>3
  <2>6. \A u \in Threads : HasTicket(u)' <=> \E i \in 1..Len(queue') : queue'[i] = u
    <3> TAKE u \in Threads
    <3>1. HasTicket(u) <=> \E i \in 1..Len(queue) : queue[i] = u
      BY DEF TicketInv
    <3> QED BY <2>3, <2>4, <3>1
  <2> QED BY <2>1, <2>4, <2>5, <2>6 DEF TicketInv
<1>3. ASSUME NEW t \in Threads, TicketUnlock(t) PROVE TicketInv'
  BY <1>3, TicketUnlockInvariant
<1>4. ASSUME NEW t \in Threads, Increment(t) PROVE TicketInv'
  <2>1. TypeOK'
    BY <1>4, TypeShared DEF TicketInv
  <2>2. \A u \in Threads : (HasTicket(u)' <=> HasTicket(u)) /\ (Inside(u)' <=> Inside(u))
    <3> TAKE u \in Threads
    <3>1. pc \in [Threads -> {"lock", "load", "store", "unlock", "spin", "exchange",
                              "mark", "take", "wait", "clear", "wake"}]
      BY DEF TicketInv, TypeOK
    <3> QED BY <1>4, <3>1 DEF Increment, Load, Store, At, Goto, HasTicket, Inside
  <2>3. /\ queue' = queue /\ mine' = mine /\ serving' = serving /\ word' = word
    BY <1>4 DEF Increment, Load, Store, ticketing
  <2> QED BY <2>1, <2>2, <2>3 DEF TicketInv
<1>5. CASE UNCHANGED vars
  BY <1>5 DEF vars, ticketing, work, TicketInv, TypeOK, HasTicket, Inside
<1> QED BY <1>1, <1>2, <1>3, <1>4, <1>5
        DEF TicketNext, TicketStep, DrawAndWait, Joined

(***************************************************************************)
(* FairSpinLock lets in one thread at a time, however often its numbers    *)
(* have wrapped around.                                                    *)
(***************************************************************************)
THEOREM TicketLockExcludes == TicketSpec => []MutualExclusion
<1>1. TicketInv => MutualExclusion
  BY DEF TicketInv, MutualExclusion
<1> QED BY <1>1, TicketInvariantInit, TicketInvariantNext, PTL DEF TicketSpec

(***************************************************************************)
(* FairSpinLock is fair: who enters is first in the queue of the threads   *)
(* that have drawn a ticket.                                               *)
(***************************************************************************)
THEOREM TicketLockInTurn == TicketSpec => [][EntersInTurn]_vars
<1>1. TicketInv /\ [TicketNext]_vars => [EntersInTurn]_vars
  <2> SUFFICES ASSUME TicketInv, TicketNext,
                      NEW t \in Threads, Inside(t)', ~Inside(t)
               PROVE  t = queue[1]
    BY DEF EntersInTurn
  <2>1. SeeServing(t)
    BY DEF TicketNext, TicketStep, DrawAndWait, DrawTicket, SeeServing, TicketUnlock,
           Increment, Load, Store, Joined, vars, At, Goto, Inside, TicketInv, TypeOK
  <2> QED BY <2>1, ServedIsFirst DEF SeeServing, IsServed, At
<1> QED BY <1>1, TicketInvariantInit, TicketInvariantNext, PTL DEF TicketSpec

-----------------------------------------------------------------------------
(* The sleepers of OnByteMutex and FutexMutex.                             *)

\* Where threads sleep, and that a state other than unlocked has an owner.
ByteOwned == /\ \A t \in asleep : pc[t] = "wait"
             /\ word # Unlocked => \E t \in Threads : Inside(t)

FutexOwned == /\ \A t \in asleep : pc[t] = "take"
              /\ word # 0 => \E t \in Threads : Owns(t)

LEMMA ByteOwnedNext ==
  ASSUME ByteInv, ByteOwned,
         NEW t \in Threads, ByteStep(t) \/ WakeSpuriously(t)
  PROVE  ByteOwned'
<1> USE DEF ByteOwned, ByteInv, TypeOK, Inside, Unlocked, Locked, Sleeper
<1>1. CASE TryLock(t)
  BY <1>1 DEF TryLock, ExchangeState, At, Goto
<1>2. CASE LockAsSleeper(t)
  BY <1>2 DEF LockAsSleeper, ExchangeState, At, Goto
<1>3. CASE Sleep(t)
  BY <1>3 DEF Sleep, At
<1>4. CASE EndWait(t)
  BY <1>4 DEF EndWait, At, Goto
<1>5. CASE ByteUnlock(t)
  BY <1>5 DEF ByteUnlock, At, Goto
<1>6. CASE Increment(t)
  BY <1>6 DEF Increment, Load, Store, At, Goto
<1>7. CASE WakeOne(t)
  BY <1>7 DEF WakeOne, At, Goto
<1>8. CASE WakeSpuriously(t)
  BY <1>8 DEF WakeSpuriously
<1> QED BY <1>1, <1>2, <1>3, <1>4, <1>5, <1>6, <1>7, <1>8
        DEF ByteStep, ByteLock, NotifyOne

LEMMA ByteSleepersNext ==
  ASSUME ByteInv, ByteOwned, ByteSleeperNotForgotten,
         NEW t \in Threads, ByteStep(t) \/ WakeSpuriously(t)
  PROVE  ByteSleeperNotForgotten'
<1> USE DEF ByteOwned, ByteInv, ByteSleeperNotForgotten, TypeOK, Inside,
            Unlocked, Locked, Sleeper
<1>1. CASE TryLock(t)
  BY <1>1 DEF TryLock, ExchangeState, At, Goto
<1>2. CASE LockAsSleeper(t)
  BY <1>2 DEF LockAsSleeper, ExchangeState, At, Goto
<1>3. CASE Sleep(t)
  <2>1. PICK u \in Threads : Inside(u)
    BY <1>3 DEF Sleep
  <2>2. u \notin asleep' /\ pc' = pc /\ word' = word /\ word = Sleeper
    BY <1>3, <2>1 DEF Sleep, At
  <2> QED BY <2>1, <2>2
<1>4. CASE EndWait(t)
  BY <1>4 DEF EndWait, At, Goto
<1>5. CASE ByteUnlock(t)
  BY <1>5 DEF ByteUnlock, At, Goto
<1>6. CASE Increment(t)
  BY <1>6 DEF Increment, Load, Store, At, Goto
<1>7. CASE WakeOne(t)
  BY <1>7 DEF WakeOne, At, Goto
<1>8. CASE WakeSpuriously(t)
  BY <1>8 DEF WakeSpuriously
<1> QED BY <1>1, <1>2, <1>3, <1>4, <1>5, <1>6, <1>7, <1>8
        DEF ByteStep, ByteLock, NotifyOne

LEMMA FutexOwnedNext ==
  ASSUME FutexInv, FutexOwned,
         NEW t \in Threads, FutexStep(t) \/ WakeSpuriously(t)
  PROVE  FutexOwned'
<1> USE DEF FutexOwned, FutexInv, TypeOK, Owns, Inside
<1>1. CASE FastPath(t)
  BY <1>1 DEF FastPath, CompareExchange, At, Goto
<1>2. CASE Mark(t)
  BY <1>2 DEF Mark, CompareExchange, At, Goto
<1>3. CASE Take(t)
  BY <1>3 DEF Take, CompareExchange, At, Goto
<1>4. CASE FutexWait(t)
  BY <1>4 DEF FutexWait, At, Goto
<1>5. CASE Decrement(t)
  BY <1>5 DEF Decrement, At, Goto
<1>6. CASE Clear(t)
  BY <1>6 DEF Clear, At, Goto
<1>7. CASE Increment(t)
  BY <1>7 DEF Increment, Load, Store, At, Goto
<1>8. CASE WakeOne(t)
  BY <1>8 DEF WakeOne, At, Goto
<1>9. CASE WakeSpuriously(t)
  BY <1>9 DEF WakeSpuriously
<1> QED BY <1>1, <1>2, <1>3, <1>4, <1>5, <1>6, <1>7, <1>8, <1>9
        DEF FutexStep, FutexLock, FutexUnlock, FutexWake

LEMMA FutexSleepersNext ==
  ASSUME FutexInv, FutexOwned, FutexSleeperNotForgotten,
         NEW t \in Threads, FutexStep(t) \/ WakeSpuriously(t)
  PROVE  FutexSleeperNotForgotten'
<1> USE DEF FutexOwned, FutexInv, FutexSleeperNotForgotten, TypeOK, Owns, Inside
<1>1. CASE FastPath(t)
  BY <1>1 DEF FastPath, CompareExchange, At, Goto
<1>2. CASE Mark(t)
  BY <1>2 DEF Mark, CompareExchange, At, Goto
<1>3. CASE Take(t)
  BY <1>3 DEF Take, CompareExchange, At, Goto
<1>4. CASE FutexWait(t)
  BY <1>4 DEF FutexWait, At, Goto
<1>5. CASE Decrement(t)
  BY <1>5 DEF Decrement, At, Goto
<1>6. CASE Clear(t)
  BY <1>6 DEF Clear, At, Goto
<1>7. CASE Increment(t)
  BY <1>7 DEF Increment, Load, Store, At, Goto
<1>8. CASE WakeOne(t)
  BY <1>8 DEF WakeOne, At, Goto
<1>9. CASE WakeSpuriously(t)
  BY <1>9 DEF WakeSpuriously
<1> QED BY <1>1, <1>2, <1>3, <1>4, <1>5, <1>6, <1>7, <1>8, <1>9
        DEF FutexStep, FutexLock, FutexUnlock, FutexWake

-----------------------------------------------------------------------------
(* The threads of MCLocks with the lock they have chosen.                  *)

LocksInv ==
  /\ kind \in {"flag", "look first"} => SpinInv
  /\ kind = "ticket" => TicketInv
  /\ kind = "byte" => ByteInv /\ ByteOwned /\ ByteSleeperNotForgotten
  /\ kind = "futex" => FutexInv /\ FutexOwned /\ FutexSleeperNotForgotten
  /\ kind \in {"flag", "look first", "ticket", "byte", "futex"}

LEMMA LocksInit == TestInit => LocksInv
<1> SUFFICES ASSUME TestInit PROVE LocksInv
  OBVIOUS
<1>1. SpinInv /\ TicketInv /\ ByteInv /\ FutexInv
  BY SpinInvariantInit, TicketInvariantInit, ByteInvariantInit, FutexInvariantInit
     DEF TestInit
<1>2. asleep = {} /\ word = 0
  BY DEF TestInit, Init
<1>3. ByteOwned /\ ByteSleeperNotForgotten /\ FutexOwned /\ FutexSleeperNotForgotten
  BY <1>2 DEF ByteOwned, ByteSleeperNotForgotten, FutexOwned,
              FutexSleeperNotForgotten, Unlocked
<1> QED BY <1>1, <1>3 DEF LocksInv, TestInit

\* A wake-up changes nothing that the locks without sleepers speak of.
LEMMA WakeKeeps ==
  ASSUME NEW t \in Threads, WakeSpuriously(t)
  PROVE  (SpinInv => SpinInv') /\ (TicketInv => TicketInv')
<1>1. TypeOK => TypeOK'
  BY TypeShared
<1>2. /\ word' = word /\ serving' = serving /\ mine' = mine /\ queue' = queue
      /\ pc' = pc
  BY DEF WakeSpuriously, ticketing
<1> QED BY <1>1, <1>2 DEF SpinInv, TicketInv, MutualExclusion, Inside, HasTicket

LEMMA LocksNext == LocksInv /\ [TestNext]_testVars => LocksInv'
<1> SUFFICES ASSUME LocksInv, [TestNext]_testVars PROVE LocksInv'
  OBVIOUS
<1>1. CASE UNCHANGED testVars
  <2>1. UNCHANGED vars /\ kind' = kind
    BY <1>1 DEF testVars
  <2>2. (SpinInv => SpinInv') /\ (TicketInv => TicketInv')
    BY <2>1, SpinInvariantNext, TicketInvariantNext
  <2>3. (ByteInv => ByteInv') /\ (FutexInv => FutexInv')
    BY <2>1, ByteInvariantNext, FutexInvariantNext
  <2>4. word' = word /\ asleep' = asleep /\ pc' = pc
    BY <2>1 DEF vars
  <2>5. /\ ByteOwned => ByteOwned'
        /\ ByteSleeperNotForgotten => ByteSleeperNotForgotten'
        /\ FutexOwned => FutexOwned'
        /\ FutexSleeperNotForgotten => FutexSleeperNotForgotten'
    BY <2>4 DEF ByteOwned, ByteSleeperNotForgotten, FutexOwned,
                FutexSleeperNotForgotten, Owns, Inside
  <2> QED BY <2>1, <2>2, <2>3, <2>5 DEF LocksInv
<1>2. ASSUME NEW t \in Threads, Step(t) PROVE LocksInv'
  <2>1. CASE kind \in {"flag", "look first"}
    <3>1. SpinStep(t) \/ LookingStep(t)
      BY <1>2, <2>1 DEF Step
    <3>2. SpinInv'
      BY <2>1, <3>1, SpinInvariantNext DEF LocksInv, SpinNext
    <3> QED BY <1>2, <2>1, <3>2 DEF Step, LocksInv
  <2>2. CASE kind = "ticket"
    <3>1. TicketStep(t)
      BY <1>2, <2>2 DEF Step
    <3>2. TicketInv'
      BY <2>2, <3>1, TicketInvariantNext DEF LocksInv, TicketNext
    <3> QED BY <1>2, <2>2, <3>2 DEF Step, LocksInv
  <2>3. CASE kind = "byte"
    <3>1. ByteStep(t)
      BY <1>2, <2>3 DEF Step
    <3>2. ByteInv'
      BY <2>3, <3>1, ByteInvariantNext DEF LocksInv, ByteNext
    <3>3. ByteOwned' /\ ByteSleeperNotForgotten'
      BY <2>3, <3>1, ByteOwnedNext, ByteSleepersNext DEF LocksInv
    <3> QED BY <1>2, <2>3, <3>2, <3>3 DEF Step, LocksInv
  <2>4. CASE kind = "futex"
    <3>1. FutexStep(t)
      BY <1>2, <2>4 DEF Step
    <3>2. FutexInv'
      BY <2>4, <3>1, FutexInvariantNext DEF LocksInv, FutexNext
    <3>3. FutexOwned' /\ FutexSleeperNotForgotten'
      BY <2>4, <3>1, FutexOwnedNext, FutexSleepersNext DEF LocksInv
    <3> QED BY <1>2, <2>4, <3>2, <3>3 DEF Step, LocksInv
  <2> QED BY <2>1, <2>2, <2>3, <2>4 DEF LocksInv
<1>3. ASSUME NEW t \in Threads, WakeSpuriously(t), kind' = kind PROVE LocksInv'
  <2>1. (SpinInv => SpinInv') /\ (TicketInv => TicketInv')
    BY <1>3, WakeKeeps
  <2>2. (ByteInv => ByteInv') /\ (FutexInv => FutexInv')
    BY <1>3, ByteInvariantNext, FutexInvariantNext DEF ByteNext, FutexNext
  <2>3. /\ ByteInv /\ ByteOwned /\ ByteSleeperNotForgotten
             => ByteOwned' /\ ByteSleeperNotForgotten'
        /\ FutexInv /\ FutexOwned /\ FutexSleeperNotForgotten
             => FutexOwned' /\ FutexSleeperNotForgotten'
    BY <1>3, ByteOwnedNext, ByteSleepersNext, FutexOwnedNext, FutexSleepersNext
  <2> QED BY <1>3, <2>1, <2>2, <2>3 DEF LocksInv
<1>4. ASSUME Joined, kind' = kind PROVE LocksInv'
  BY <1>1, <1>4 DEF Joined, testVars
<1> QED BY <1>1, <1>2, <1>3, <1>4 DEF TestNext

LEMMA LocksInvariant == TestSpec => []LocksInv
BY LocksInit, LocksNext, PTL DEF TestSpec

(***************************************************************************)
(* Whichever lock the threads use, one at a time is between lock and       *)
(* unlock.                                                                 *)
(***************************************************************************)
THEOREM EveryLockExcludes == TestSpec => []MutualExclusion
<1>1. LocksInv => MutualExclusion
  BY DEF LocksInv, SpinInv, ByteInv, TicketInv, FutexInv, Owns, MutualExclusion
<1> QED BY <1>1, LocksInvariant, PTL

(***************************************************************************)
(* While a thread sleeps on OnByteMutex's byte or FutexMutex's word, some  *)
(* other thread is bound to notify: the one inside, if it will see the     *)
(* sleepers' mark, or one that is about to set the mark again.             *)
(***************************************************************************)
THEOREM SleepersRemembered == TestSpec => []NoSleeperForgotten
<1>1. LocksInv => NoSleeperForgotten
  BY DEF LocksInv, NoSleeperForgotten
<1> QED BY <1>1, LocksInvariant, PTL

(***************************************************************************)
(* FairSpinLock lets its threads in in the order of their tickets, however *)
(* often the numbers wrap around.                                          *)
(***************************************************************************)
THEOREM LetInInTurn == TestSpec => InTurn
<1>1. LocksInv /\ [TestNext]_testVars => [kind = "ticket" => EntersInTurn]_testVars
  <2> SUFFICES ASSUME LocksInv, TestNext, kind = "ticket",
                      NEW t \in Threads, Inside(t)', ~Inside(t)
               PROVE  t = queue[1]
    BY DEF EntersInTurn
  <2>1. TicketInv
    BY DEF LocksInv
  <2>2. PICK u \in Threads : TicketStep(u)
    <3>1. pc' # pc
      BY DEF Inside
    <3>2. \A u \in Threads : ~WakeSpuriously(u)
      BY <3>1 DEF WakeSpuriously
    <3>3. ~Joined
      BY <3>1 DEF Joined, vars
    <3> QED BY <3>2, <3>3 DEF TestNext, Step
  <2>3. SeeServing(u) /\ u = t
    BY SMTT(60), <2>1, <2>2
    DEF TicketStep, DrawAndWait, DrawTicket, SeeServing, TicketUnlock,
        Increment, Load, Store, At, Goto, Inside, TicketInv, TypeOK
  <2> QED BY <2>1, <2>3, ServedIsFirst DEF SeeServing, IsServed, At
<1> QED BY <1>1, LocksInvariant, PTL DEF TestSpec, InTurn
=============================================================================
