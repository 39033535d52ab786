----------------------------- MODULE LockClients -----------------------------
(***************************************************************************)
(* Threads that increment a shared counter under a lock, as in the tests   *)
(* of src/Multithreding/SpinLock and src/Multithreding/Futex: the counter  *)
(* is an ordinary variable, so that an increment is a load and a store.    *)
(* SpinLock, TicketLock, ByteMutex and FutexMutex extend this module with  *)
(* what lock and unlock do.                                                *)
(***************************************************************************)
EXTENDS Integers, Sequences, FiniteSets

CONSTANTS Threads,      \* the threads
          Rounds,       \* how often each increments the counter
          TicketRange   \* how many values the type of a ticket has

ASSUME RoundsAssumption == Rounds \in Nat

\* Every thread may hold a ticket.
ASSUME TicketAssumption ==
  /\ IsFiniteSet(Threads)
  /\ TicketRange \in Nat \ {0}
  /\ Cardinality(Threads) <= TicketRange

VARIABLES word,     \* flag, state, ticket: the lock's atomic
          serving,  \* the ticket lock's other atomic
          mine,     \* mine[t]: my_ticket
          queue,    \* the threads with a ticket, in the order they drew it
          asleep,   \* the threads that sleep until word changes
          pc,       \* pc[t]: the access thread t makes next
          counter,  \* what the lock protects
          loaded,   \* loaded[t]: the value it increments
          done      \* done[t]: how many increments it has made

ticketing == <<serving, mine, queue>>
work == <<counter, loaded, done>>
vars == <<word, ticketing, asleep, pc, work>>

-----------------------------------------------------------------------------

(***************************************************************************)
(* "lock": about to call lock; "load", "store": in the critical section;   *)
(* "unlock": about to leave it.  The other labels are each lock's own.     *)
(***************************************************************************)
Goto(t, label) == pc' = [pc EXCEPT ![t] = label]

Inside(t) == pc[t] \in {"load", "store", "unlock"}

Init == /\ word = 0
        /\ serving = 0
        /\ mine = [t \in Threads |-> 0]
        /\ queue = <<>>
        /\ asleep = {}
        /\ pc = [t \in Threads |-> "lock"]
        /\ counter = 0
        /\ loaded = [t \in Threads |-> 0]
        /\ done = [t \in Threads |-> 0]

\* t is awake and about to make the access called label.
At(t, label) ==
  /\ pc[t] = label
  /\ t \notin asleep
  /\ label = "lock" => done[t] < Rounds

Load(t) ==
  /\ At(t, "load")
  /\ loaded' = [loaded EXCEPT ![t] = counter]
  /\ Goto(t, "store")
  /\ UNCHANGED <<word, ticketing, asleep, counter, done>>

Store(t) ==
  /\ At(t, "store")
  /\ counter' = loaded[t] + 1
  /\ loaded' = [loaded EXCEPT ![t] = 0]
  /\ done' = [done EXCEPT ![t] = @ + 1]
  /\ Goto(t, "unlock")
  /\ UNCHANGED <<word, ticketing, asleep>>

Increment(t) == Load(t) \/ Store(t)

\* A sleeper is woken for no reason (EINTR; std::atomic::wait looks again).
WakeSpuriously(t) ==
  /\ t \in asleep
  /\ asleep' = asleep \ {t}
  /\ UNCHANGED <<word, ticketing, pc, work>>

\* Wake one of the sleepers, if there is one.
WakeOne(t) ==
  /\ At(t, "wake")
  /\ \/ asleep = {} /\ UNCHANGED asleep
     \/ \E s \in asleep : asleep' = asleep \ {s}
  /\ Goto(t, "lock")
  /\ UNCHANGED <<word, ticketing, work>>

\* All threads are joined.
AllDone == \A t \in Threads : pc[t] = "lock" /\ done[t] = Rounds

Joined == AllDone /\ UNCHANGED vars

-----------------------------------------------------------------------------

\* Every variable has its type.
TypeOK ==
  /\ word \in Nat
  /\ serving \in Nat
  /\ mine \in [Threads -> Nat]
  /\ queue \in Seq(Threads)
  /\ asleep \subseteq Threads
  /\ pc \in [Threads -> {"lock", "load", "store", "unlock", "spin", "exchange",
                         "mark", "take", "wait", "clear", "wake"}]
  /\ counter \in Nat
  /\ loaded \in [Threads -> Nat]
  /\ done \in [Threads -> 0..Rounds]
  /\ \A t \in Threads :
       pc[t] \notin {"lock", "unlock", "clear", "wake"} => done[t] < Rounds

(***************************************************************************)
(* At most one thread is in the critical section.                          *)
(***************************************************************************)
MutualExclusion == \A s, t \in Threads : Inside(s) /\ Inside(t) => s = t
=============================================================================
