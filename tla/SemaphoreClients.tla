-------------------------- MODULE SemaphoreClients --------------------------
(***************************************************************************)
(* The threads that use the semaphores of                                  *)
(* src/DataStructures/Semaphore/Semaphore.cpp, whose tests are templates   *)
(* over the semaphore: threads that acquire and release in turn, as in     *)
(* max_simultaneous_task, and a main thread that adds permits, as in       *)
(* test_initial_zero_blocks and test_release_unblocks_exactly_one.         *)
(* Semaphore, SemaphoreAtomic and SemaphoreFast extend this module with    *)
(* what acquire and release do.                                            *)
(***************************************************************************)
EXTENDS Integers, FiniteSets

CONSTANTS Threads,  \* the threads that acquire and release
          Main,     \* the thread that only releases
          Rounds,   \* how often each thread acquires
          Initial,  \* the constructor's argument
          Extra     \* how many times Main releases

ASSUME CountsAssumption == Initial \in Nat /\ Extra \in Nat /\ Rounds \in Nat

ASSUME ThreadsAssumption == Main \notin Threads /\ IsFiniteSet(Threads)

VARIABLES count,    \* the counter
          old,      \* old[t]: the local variable of that name
          pc,       \* pc[t]: where thread t is
          rounds,   \* rounds[t]: how often t has begun to acquire
          granted   \* how often Main has begun to release

vars == <<count, old, pc, rounds, granted>>

(***************************************************************************)
(* "idle": between calls; "inside": holds a permit; "wait": asleep;        *)
(* "notify": about to notify.  The other labels are each semaphore's own.  *)
(***************************************************************************)
Callers == Threads \cup {Main}
InState(label) == {t \in Callers : pc[t] = label}
Goto(t, label) == pc' = [pc EXCEPT ![t] = label]

Init == /\ count = Initial
        /\ old = [t \in Callers |-> 0]
        /\ pc = [t \in Callers |-> "idle"]
        /\ rounds = [t \in Threads |-> 0]
        /\ granted = 0

\* The local variable old goes out of scope.
Forget(t) == old' = [old EXCEPT ![t] = 0]

\* A thread calls acquire, which starts at label.
Call(t, label) ==
  /\ pc[t] = "idle"
  /\ rounds[t] < Rounds
  /\ rounds' = [rounds EXCEPT ![t] = @ + 1]
  /\ Goto(t, label)
  /\ UNCHANGED <<count, granted>>

\* Main calls release, which has just done label's step.
CallGrant(label) ==
  /\ pc[Main] = "idle"
  /\ granted < Extra
  /\ granted' = granted + 1
  /\ Goto(Main, label)
  /\ UNCHANGED rounds

\* notify_one: some sleeper, if there is one, goes on at label.
Notify(t, label) ==
  /\ pc[t] = "notify"
  /\ \/ InState("wait") = {} /\ Goto(t, "idle")
     \/ \E w \in InState("wait") : pc' = [pc EXCEPT ![t] = "idle", ![w] = label]
  /\ UNCHANGED <<count, old, rounds, granted>>

\* A spurious wake-up.
WakeSpuriously(t, label) ==
  /\ pc[t] = "wait"
  /\ Goto(t, label)
  /\ UNCHANGED <<count, old, rounds, granted>>

\* All threads are joined.
AllDone == /\ InState("idle") = Callers
           /\ granted = Extra
           /\ \A t \in Threads : rounds[t] = Rounds

Joined == AllDone /\ UNCHANGED vars

\* How many threads are at one of these labels.
Number(labels) == Cardinality({t \in Callers : pc[t] \in labels})
=============================================================================
