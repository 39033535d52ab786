------------------------------- MODULE Barrier -------------------------------
(***************************************************************************)
(* barrier::Barrier of src/DataStructures/Barrier/Barrier.cpp: a reusable  *)
(* barrier with a generation counter, a mutex and a condition variable.    *)
(* The last thread to arrive opens the next generation with the mutex held *)
(* and runs the callback and notifies after it has released it.            *)
(***************************************************************************)
EXTENDS BarrierThreads

VARIABLES count,       \* how many arrivals are missing
          generation,  \* how many rounds are complete
          pc,          \* pc[t]: where thread t is, see below
          gen,         \* gen[t]: the generation in which t called
          arrived,     \* arrived[t]: how many calls t has made
          passed,      \* passed[t]: how many calls have returned
          callbacks    \* how often the callback has been started

vars == <<count, generation, pc, gen, arrived, passed, callbacks>>

-----------------------------------------------------------------------------

(***************************************************************************)
(* "idle": outside; "wait": asleep; "test": woken, about to test the       *)
(* generation; "callback": about to run the callback; "running": in it;    *)
(* "notify": about to notify.                                              *)
(***************************************************************************)
Users == Participants \cup Observers
Threshold == Cardinality(Participants)
InState(label) == {t \in Users : pc[t] = label}
Goto(t, label) == pc' = [pc EXCEPT ![t] = label]
Call(t) == /\ pc[t] = "idle"
           /\ arrived[t] < Laps
           /\ arrived' = [arrived EXCEPT ![t] = @ + 1]
           /\ gen' = [gen EXCEPT ![t] = generation]

Init == /\ count = Threshold
        /\ generation = 0
        /\ pc = [t \in Users |-> "idle"]
        /\ gen = [t \in Users |-> 0]
        /\ arrived = [t \in Users |-> 0]
        /\ passed = [t \in Users |-> 0]
        /\ callbacks = 0

\* The predicate of both waits.
RoundOver(t) == gen[t] # generation

\* What count restarts from (mutant: the last thread is counted in).
OneShort == Threshold - 1

FullCount == Threshold

Arrive(t) ==
  /\ Call(t)
  /\ count - 1 # 0
  /\ count' = count - 1
  /\ Goto(t, "wait")
  /\ UNCHANGED <<generation, passed, callbacks>>

\* Mutant: the generation is left alone until the notification.
ArriveLastQuietly(t) ==
  /\ Call(t)
  /\ count - 1 = 0
  /\ count' = FullCount
  /\ Goto(t, "callback")
  /\ UNCHANGED <<generation, passed, callbacks>>

ArriveLast(t) ==
  /\ Call(t)
  /\ count - 1 = 0
  /\ generation' = generation + 1
  /\ count' = FullCount
  /\ Goto(t, "callback")
  /\ UNCHANGED <<passed, callbacks>>

StartCallback(t) ==
  /\ pc[t] = "callback"
  /\ callbacks' = callbacks + 1
  /\ Goto(t, "running")
  /\ UNCHANGED <<count, generation, gen, arrived, passed>>

EndCallback(t) ==
  /\ pc[t] = "running"
  /\ Goto(t, "notify")
  /\ UNCHANGED <<count, generation, gen, arrived, passed, callbacks>>

\* Mutant: one sleeper is woken.
NotifyOne(t) ==
  /\ pc[t] = "notify"
  /\ passed' = [passed EXCEPT ![t] = @ + 1]
  /\ \/ InState("wait") = {} /\ Goto(t, "idle")
     \/ \E w \in InState("wait") : pc' = [pc EXCEPT ![t] = "idle", ![w] = "test"]
  /\ UNCHANGED <<count, generation, gen, arrived, callbacks>>

NotifyAll(t) ==
  /\ pc[t] = "notify"
  /\ passed' = [passed EXCEPT ![t] = @ + 1]
  /\ pc' = [s \in Users |-> IF s = t THEN "idle"
                              ELSE IF pc[s] = "wait" THEN "test" ELSE pc[s]]
  /\ UNCHANGED <<count, generation, gen, arrived, callbacks>>

Leave(t) ==
  /\ pc[t] = "test"
  /\ RoundOver(t)
  /\ passed' = [passed EXCEPT ![t] = @ + 1]
  /\ Goto(t, "idle")
  /\ UNCHANGED <<count, generation, gen, arrived, callbacks>>

SleepAgain(t) ==
  /\ pc[t] = "test"
  /\ ~RoundOver(t)
  /\ Goto(t, "wait")
  /\ UNCHANGED <<count, generation, gen, arrived, passed, callbacks>>

WakeSpuriously(t) ==
  /\ pc[t] = "wait"
  /\ Goto(t, "test")
  /\ UNCHANGED <<count, generation, gen, arrived, passed, callbacks>>

\* An observer calls wait().
Wait(o) ==
  /\ Call(o)
  /\ Goto(o, "wait")
  /\ UNCHANGED <<count, generation, passed, callbacks>>

Participate(t) == \/ Arrive(t) \/ ArriveLast(t)
                  \/ StartCallback(t) \/ EndCallback(t) \/ NotifyAll(t)
                  \/ Leave(t) \/ SleepAgain(t)

Observe(o) == Wait(o) \/ Leave(o) \/ SleepAgain(o)

Next == \/ \E t \in Participants : Participate(t)
        \/ \E o \in Observers : Observe(o)
        \/ \E t \in Users : WakeSpuriously(t)

Spec == Init /\ [][Next]_vars

-----------------------------------------------------------------------------

\* Every variable has its type.
TypeOK ==
  /\ count \in 1..Threshold
  /\ generation \in Nat
  /\ pc \in [Users -> {"idle", "wait", "test", "callback", "running", "notify"}]
  /\ \A o \in Observers : pc[o] \in {"idle", "wait", "test"}
  /\ gen \in [Users -> Nat]
  /\ arrived \in [Users -> 0..Laps]
  /\ passed \in [Users -> 0..Laps]
  /\ callbacks \in Nat

(***************************************************************************)
(* Nobody leaves round n before everybody has arrived for round n, however *)
(* fast some threads come round again ("Barrier released too early").      *)
(***************************************************************************)
NoEarlyRelease == \A s, t \in Participants : passed[t] <= arrived[s]

(***************************************************************************)
(* The callback runs without the mutex.  Still, the thread that runs it    *)
(* has to arrive for the next round, so no two callbacks overlap, and each *)
(* completed round has its one callback ("Callback count mismatch").       *)
(***************************************************************************)
OneCallbackPerRound ==
  /\ Cardinality(InState("callback") \cup InState("running")) <= 1
  /\ callbacks + Cardinality(InState("callback")) = generation

(***************************************************************************)
(* A thread asleep although its round is over has its notification still   *)
(* to come.                                                                *)
(***************************************************************************)
NoSleeperForgotten ==
  (\E t \in InState("wait") : RoundOver(t))
    => InState("callback") \cup InState("running") \cup InState("notify") # {}
=============================================================================
