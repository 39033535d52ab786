----------------------------- MODULE ThreadPool -----------------------------
(***************************************************************************)
(* The thread pools of the repository: a queue of tasks, a mutex, one      *)
(* condition variable and workers that take tasks until they are stopped.  *)
(* They differ in how a worker waits and learns that it has to stop:       *)
(*                                                                         *)
(*   One       src/DataStructures/ThreadPoolOne: waits without a timeout   *)
(*             for a task or the flag, which the destructor sets under the *)
(*             mutex and announces                                         *)
(*   Two       src/DataStructures/ThreadPoolTwo: waits with a timeout for  *)
(*             a task and reads an atomic flag before every wait           *)
(*   Limited   src/DataStructures/ThreadPoolLimited: Two with a capacity,  *)
(*             submitters waiting on the workers' condition variable       *)
(*   Pool      src/DataStructures/ThreadPool: Two with a stop_source that  *)
(*             its client uses once all results are there                  *)
(*   Blocking  src/Multithreding/ThreadPoolBlocking: a capacity, and a     *)
(*             worker stops only when a wait has timed out                 *)
(*   Executor  src/DataStructures/TaskExecutor/TaskExecutor1.cpp: reads    *)
(*             the flag before every wait, and waits without a timeout for *)
(*             a task or the flag                                          *)
(*                                                                         *)
(* A stretch of code under the mutex is one step.  Submitters are separate *)
(* threads; the main thread waits for them (before that, destroying the    *)
(* pool would be undefined), perhaps also for all results, and destroys    *)
(* the pool.                                                               *)
(***************************************************************************)
EXTENDS Naturals, Sequences, FiniteSets

CONSTANTS Kinds,        \* the pools to be looked at
          Workers, Submitters,
          TasksEach,    \* how many tasks each submitter submits
          MaxCapacity,  \* of a pool with a capacity
          None          \* no task

ASSUME KindsAssumption ==
  Kinds \subseteq {"One", "Two", "Limited", "Pool", "Blocking", "Executor"}

\* Every pool starts at least one thread.
ASSUME ThreadsAssumption ==
  /\ Workers \cap Submitters = {}
  /\ IsFiniteSet(Workers) /\ Workers # {}
  /\ IsFiniteSet(Submitters)

ASSUME NumbersAssumption ==
  TasksEach \in Nat \ {0} /\ MaxCapacity \in Nat \ {0}

Threads == Workers \cup Submitters
Tasks == Submitters \X (1..TasksEach)

ASSUME NoneAssumption == None \notin Tasks

VARIABLES kind,      \* which pool it is
          patient,   \* whether the main thread waits for the results
          queue,
          stopped,   \* aborting, not run, or the stop_source's state
          task,      \* worker -> the task that it has taken
          submitted, \* submitter -> how many tasks it has submitted
          ready,     \* the tasks whose results are there
          pc,        \* of workers and submitters
          main       \* where the main thread is

vars == <<kind, patient, queue, stopped, task, submitted, ready, pc, main>>

Timed == kind \notin {"One", "Executor"}
Polling == kind \in {"Two", "Limited", "Pool", "Executor"}
Bounded == kind \in {"Limited", "Blocking"}

Begin == IF Polling THEN "poll" ELSE "look"

Init == /\ kind \in Kinds
        /\ patient \in BOOLEAN
        /\ kind = "Pool" => patient
        /\ queue = <<>>
        /\ stopped = FALSE
        /\ task = [w \in Workers |-> None]
        /\ submitted = [s \in Submitters |-> 0]
        /\ ready = {}
        /\ pc = [t \in Threads |-> IF t \in Workers THEN Begin ELSE "look"]
        /\ main = "waiting"

-----------------------------------------------------------------------------
(* The condition variable: whoever is woken looks again. *)

Asleep == {t \in Threads : pc[t] = "asleep"}
Woken(program, threads) ==
  [t \in Threads |-> IF t \in threads THEN "look" ELSE program[t]]

\* The thread t notifies all, or one if there is one, and goes on at next.
NotifyAll(t, next) == pc' = Woken([pc EXCEPT ![t] = next], Asleep)
NotifyOne(t, next) ==
  IF Asleep = {} THEN pc' = [pc EXCEPT ![t] = next]
  ELSE \E u \in Asleep : pc' = Woken([pc EXCEPT ![t] = next], {u})

SpuriousWakeup(t) ==
  /\ pc[t] = "asleep"
  /\ pc' = Woken(pc, {t})
  /\ UNCHANGED <<kind, patient, queue, stopped, task, submitted, ready, main>>

-----------------------------------------------------------------------------
(* A worker *)

Poll(w) ==
  /\ pc[w] = "poll"
  /\ pc' = [pc EXCEPT ![w] = IF stopped THEN "done" ELSE "look"]
  /\ UNCHANGED <<kind, patient, queue, stopped, task, submitted, ready, main>>

(***************************************************************************)
(* One leaves its tasks behind when it has to stop.  Executor takes one if *)
(* there is one, and leaves before the next.  Mutant: Blocking leaves, too.*)
(***************************************************************************)
MustLeaveEarly ==
  /\ stopped
  /\ \/ kind \in {"One", "Blocking"}
     \/ kind = "Executor" /\ queue = <<>>

MustLeave == /\ stopped
             /\ \/ kind = "One"
                \/ kind = "Executor" /\ queue = <<>>

Leave(w) ==
  /\ pc[w] = "look"
  /\ MustLeave
  /\ pc' = [pc EXCEPT ![w] = "done"]
  /\ UNCHANGED <<kind, patient, queue, stopped, task, submitted, ready, main>>

Take(w) ==
  /\ pc[w] = "look"
  /\ ~MustLeave
  /\ queue # <<>>
  /\ task' = [task EXCEPT ![w] = Head(queue)]
  /\ queue' = Tail(queue)
  /\ pc' = [pc EXCEPT ![w] = IF kind = "Limited" THEN "notify" ELSE "run"]
  /\ UNCHANGED <<kind, patient, stopped, submitted, ready, main>>

FallAsleep(w) ==
  /\ pc[w] = "look"
  /\ ~MustLeave
  /\ queue = <<>>
  /\ pc' = [pc EXCEPT ![w] = "asleep"]
  /\ UNCHANGED <<kind, patient, queue, stopped, task, submitted, ready, main>>

(***************************************************************************)
(* The time is over, and there is no task (if there is one, the wait ends  *)
(* as if the worker had been woken).                                       *)
(***************************************************************************)
TimeOut(w) ==
  /\ pc[w] = "asleep"
  /\ Timed
  /\ pc' = [pc EXCEPT ![w] = IF queue # <<>> THEN "look"
                             ELSE IF Polling THEN "poll"
                             ELSE IF stopped THEN "done" ELSE "asleep"]
  /\ UNCHANGED <<kind, patient, queue, stopped, task, submitted, ready, main>>

\* Limited notifies before it runs the task, Blocking when it has run it.
Notify(w) ==
  /\ pc[w] = "notify"
  /\ NotifyAll(w, IF kind = "Limited" THEN "run" ELSE "look")
  /\ UNCHANGED <<kind, patient, queue, stopped, task, submitted, ready, main>>

Run(w) ==
  /\ pc[w] = "run"
  /\ ready' = ready \cup {task[w]}
  /\ task' = [task EXCEPT ![w] = None]
  /\ pc' = [pc EXCEPT ![w] = IF kind = "Blocking" THEN "notify" ELSE Begin]
  /\ UNCHANGED <<kind, patient, queue, stopped, submitted, main>>

Worker(w) == \/ Poll(w) \/ Leave(w) \/ Take(w) \/ FallAsleep(w)
             \/ TimeOut(w) \/ Notify(w) \/ Run(w)

-----------------------------------------------------------------------------
(* A submitter *)

\* Whether it has to wait for room (mutant: until the capacity is passed).
FullLate == Bounded /\ Len(queue) > MaxCapacity

Full ==
  \/ kind = "Limited" /\ Len(queue) = MaxCapacity
  \/ kind = "Blocking" /\ Len(queue) >= MaxCapacity

After(count) == IF count = TasksEach THEN "done" ELSE "look"

Pushed(s) == /\ queue' = Append(queue, <<s, submitted[s] + 1>>)
             /\ submitted' = [submitted EXCEPT ![s] = @ + 1]

\* Mutant: a worker is notified only if the queue was empty.
PushNotifyFirst(s) ==
  /\ pc[s] = "look"
  /\ ~Full
  /\ Pushed(s)
  /\ pc' = [pc EXCEPT ![s] = IF queue = <<>> THEN "notify"
                             ELSE After(submitted'[s])]
  /\ UNCHANGED <<kind, patient, stopped, task, ready, main>>

\* All release the mutex before they notify.
Push(s) ==
  /\ pc[s] = "look"
  /\ ~Full
  /\ Pushed(s)
  /\ pc' = [pc EXCEPT ![s] = "notify"]
  /\ UNCHANGED <<kind, patient, stopped, task, ready, main>>

\* Pool and Blocking notify all.
NotifyWorker(s) ==
  /\ pc[s] = "notify"
  /\ IF kind \in {"Pool", "Blocking"} THEN NotifyAll(s, After(submitted[s]))
     ELSE NotifyOne(s, After(submitted[s]))
  /\ UNCHANGED <<kind, patient, queue, stopped, task, submitted, ready, main>>

\* It waits in turns of POLL_TIMEOUT.
WaitForRoom(s) ==
  /\ pc[s] = "look"
  /\ Full
  /\ pc' = [pc EXCEPT ![s] = "asleep"]
  /\ UNCHANGED <<kind, patient, queue, stopped, task, submitted, ready, main>>

RoomByTimeOut(s) ==
  /\ pc[s] = "asleep"
  /\ ~Full
  /\ pc' = [pc EXCEPT ![s] = "look"]
  /\ UNCHANGED <<kind, patient, queue, stopped, task, submitted, ready, main>>

Submitter(s) ==
  Push(s) \/ NotifyWorker(s) \/ WaitForRoom(s) \/ RoomByTimeOut(s)

-----------------------------------------------------------------------------
(* The main thread *)

\* Mutant: the destructor tells nobody.
StopQuietly ==
  /\ main = "waiting"
  /\ \A s \in Submitters : pc[s] = "done"
  /\ patient => ready = Tasks
  /\ stopped' = TRUE
  /\ main' = "joining"
  /\ UNCHANGED <<kind, patient, queue, task, submitted, ready, pc>>

Stop ==
  /\ main = "waiting"
  /\ \A s \in Submitters : pc[s] = "done"
  /\ patient => ready = Tasks
  /\ stopped' = TRUE
  /\ main' = IF ~Timed THEN "notifying" ELSE "joining"
  /\ UNCHANGED <<kind, patient, queue, task, submitted, ready, pc>>

NotifyStop ==
  /\ main = "notifying"
  /\ main' = "joining"
  /\ pc' = Woken(pc, Asleep)
  /\ UNCHANGED <<kind, patient, queue, stopped, task, submitted, ready>>

\* Mutant: the destructor waits for one of its threads.
JoinOne ==
  /\ main = "joining"
  /\ \E w \in Workers : pc[w] = "done"
  /\ main' = "done"
  /\ queue' = <<>>
  /\ UNCHANGED <<kind, patient, stopped, task, submitted, ready, pc>>

\* All workers are joined; the tasks that are left go with the queue.
Join ==
  /\ main = "joining"
  /\ \A w \in Workers : pc[w] = "done"
  /\ main' = "done"
  /\ queue' = <<>>
  /\ UNCHANGED <<kind, patient, stopped, task, submitted, ready, pc>>

Main == Stop \/ NotifyStop \/ Join

-----------------------------------------------------------------------------

Finished == main = "done" /\ UNCHANGED vars

Next == \/ Main \/ Finished
        \/ \E w \in Workers : Worker(w)
        \/ \E s \in Submitters : Submitter(s)
        \/ \E t \in Threads : SpuriousWakeup(t)

Spec == Init /\ [][Next]_vars

(***************************************************************************)
(* Threads go on, tasks end, and timed waits time out: wait_for computes   *)
(* its deadline once, so wakeups without a task do not put it off for ever *)
(* (strong fairness).  That anybody wakes spuriously is not assumed.       *)
(***************************************************************************)
FairSpec == /\ Spec
            /\ WF_vars(Main)
            /\ \A w \in Workers : WF_vars(Worker(w)) /\ SF_vars(TimeOut(w))
            /\ \A s \in Submitters : WF_vars(Submitter(s))

-----------------------------------------------------------------------------

(***************************************************************************)
(* A pool with a capacity never holds more tasks, although its submitters  *)
(* wait with a timeout and several are woken at once (Limited tests the    *)
(* size only when it is not above the capacity).                           *)
(***************************************************************************)
QueueBounded == Bounded => Len(queue) <= MaxCapacity

(***************************************************************************)
(* While a worker sleeps, every task in the queue has somebody on the way  *)
(* to it: a worker that is about to look or a submitter that is about to   *)
(* notify.  (Not for Limited: there notify_one may wake a submitter, and   *)
(* the task waits for a timeout.)                                          *)
(***************************************************************************)
NoTaskForgotten ==
  /\ kind # "Limited" /\ ~stopped
  /\ Asleep \cap Workers # {}
  => Len(queue) <= Cardinality({w \in Workers : pc[w] = "look"}
                                 \cup {s \in Submitters : pc[s] = "notify"})

(***************************************************************************)
(* Blocking runs every task before its destructor returns, also with the   *)
(* stop flag set long before: a worker leaves only an empty queue.         *)
(***************************************************************************)
Drained == kind = "Blocking" /\ main = "done" => ready = Tasks

(***************************************************************************)
(* Every pool implements TaskPool: no task runs twice or out of turn, and  *)
(* none runs when the destructor has returned.                             *)
(***************************************************************************)
Promise == INSTANCE TaskPool WITH
             waiting <- queue,
             running <- {task[w] : w \in Workers} \ {None},
             finished <- ready,
             closed <- main = "done"

ImplementsTaskPool == Promise!Spec

(***************************************************************************)
(* The program ends: submitters get room, the results that the main thread *)
(* waits for arrive, and the destructor joins all workers.                 *)
(***************************************************************************)
Ends == <>(main = "done")
=============================================================================
