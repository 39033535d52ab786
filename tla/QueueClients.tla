---------------------------- MODULE QueueClients ----------------------------
(***************************************************************************)
(* The threads that use the two queues of                                  *)
(* src/DataStructures/ThreadSafe_BoundedQueue/ThreadSafe_BoundedQueue.cpp, *)
(* whose tests are templates over the queue: producers that push a fixed   *)
(* number of messages each and consumers that pop while not everything is  *)
(* consumed, as in test_stress and test_multi_producer_consumer, and a     *)
(* main thread that may call stop(), here at any time and not only after   *)
(* the producers are joined.  BoundedQueue and SplitLockQueue extend this  *)
(* module with what push, pop and stop do.                                 *)
(***************************************************************************)
EXTENDS Naturals, Sequences, FiniteSets

CONSTANTS Producers, Consumers,  \* the threads
          Messages,              \* how many messages each producer pushes
          Capacity               \* the constructor's argument

\* The constructors: "capacity must be > 0".
ASSUME CapacityAssumption == Capacity \in Nat \ {0}

ASSUME MessagesAssumption == Messages \in Nat

ASSUME ThreadsAssumption == /\ Producers \cap Consumers = {}
                            /\ IsFiniteSet(Producers)
                            /\ IsFiniteSet(Consumers)

VARIABLES stopped,   \* the stop flag
          stopPc,    \* where the main thread is in stop()
          pc,        \* pc[t]: where thread t is
          tried,     \* tried[p]: how many pushes p has begun
          produced,  \* produced[p]: how many of them put a message
          got,       \* got[c]: what the pops of c have returned, in order
          consumed   \* totalConsumed

flag == <<stopped, stopPc>>
loops == <<tried, produced, got, consumed>>
clients == <<flag, pc, loops>>

-----------------------------------------------------------------------------

Threads == Producers \cup Consumers
Message == Producers \X (1..Messages)
Total == Cardinality(Producers) * Messages

(***************************************************************************)
(* "idle": between calls; "wait": asleep on the side's condition variable; *)
(* "notify": has unlocked, about to notify the other side.  The other      *)
(* labels are each queue's own.                                            *)
(***************************************************************************)
Goto(t, label) == pc' = [pc EXCEPT ![t] = label]
InState(side, label) == {t \in side : pc[t] = label}
Waiting(side) == InState(side, "wait")

Init == /\ stopped = FALSE
        /\ stopPc = "idle"
        /\ pc = [t \in Threads |-> "idle"]
        /\ tried = [p \in Producers |-> 0]
        /\ produced = [p \in Producers |-> 0]
        /\ got = [c \in Consumers |-> <<>>]
        /\ consumed = 0

\* A producer calls push, a consumer pop, which start at label.
BeginPush(p, label) ==
  /\ pc[p] = "idle"
  /\ tried[p] < Messages
  /\ tried' = [tried EXCEPT ![p] = @ + 1]
  /\ Goto(p, label)
  /\ UNCHANGED <<flag, produced, got, consumed>>

BeginPop(c, label) ==
  /\ pc[c] = "idle"
  /\ consumed < Total
  /\ Goto(c, label)
  /\ UNCHANGED <<flag, loops>>

\* notify_one: some sleeper of side, if there is one, goes on at label.
NotifyOne(side, t, label) ==
  /\ pc[t] = "notify"
  /\ \/ /\ Waiting(side) = {}
        /\ Goto(t, "idle")
     \/ \E w \in Waiting(side) : pc' = [pc EXCEPT ![t] = "idle", ![w] = label]
  /\ UNCHANGED <<flag, tried, produced, got>>

\* stop sets the flag and begins to notify at label.
BeginStop(label) ==
  /\ stopPc = "idle"
  /\ stopped' = TRUE
  /\ stopPc' = label
  /\ UNCHANGED <<pc, loops>>

\* A step of stop: notify_all; the sleepers of side go on at label.
NotifyAll(side, label, from, to) ==
  /\ stopPc = from
  /\ pc' = [t \in Threads |-> IF t \in Waiting(side) THEN label ELSE pc[t]]
  /\ stopPc' = to
  /\ UNCHANGED <<stopped, loops>>

\* A spurious wake-up.
Wake(t, label) ==
  /\ pc[t] = "wait"
  /\ Goto(t, label)
  /\ UNCHANGED <<flag, loops>>

-----------------------------------------------------------------------------

\* The clients' variables have their types; the labels are each queue's own.
ClientsTypeOK(labels) ==
  /\ stopped \in BOOLEAN
  /\ stopPc \in {"idle", "notFull", "notEmpty", "done"}
  /\ pc \in [Threads -> labels \cup {"idle", "wait", "notify"}]
  /\ tried \in [Producers -> 0..Messages]
  /\ produced \in [Producers -> 0..Messages]
  /\ got \in [Consumers -> Seq(Message)]
  /\ consumed \in Nat

Popped(m) == \E c \in Consumers : \E k \in 1..Len(got[c]) : got[c][k] = m

(***************************************************************************)
(* While the queue is not stopped every message gets through, as           *)
(* test_multi_producer_consumer expects when it joins its producer and its *)
(* consumer ("consumer count mismatch").                                   *)
(***************************************************************************)
AllPoppedUnlessStopped == <>(stopped \/ \A m \in Message : Popped(m))
=============================================================================
