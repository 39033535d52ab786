--------------------------- MODULE SemaphoreAtomic ---------------------------
(***************************************************************************)
(* semaphore_atomic::Semaphore: an atomic counter with compare-exchange,   *)
(* atomic wait and atomic notify_one.                                      *)
(*                                                                         *)
(* std::atomic::wait(0) returns once it sees another value than 0; it      *)
(* looks before it sleeps and again when it is woken, and it cannot miss a *)
(* notify_one that follows a change of the 0 it saw: looking and going to  *)
(* sleep are one step.                                                     *)
(*                                                                         *)
(* "load": about to load the count; "test": about to look at old; "look":  *)
(* in count.wait(0), about to look.                                        *)
(***************************************************************************)
EXTENDS SemaphoreClients

CallAcquire(t) == Call(t, "load") /\ UNCHANGED old

Load(t) ==
  /\ pc[t] = "load"
  /\ old' = [old EXCEPT ![t] = count]
  /\ Goto(t, "test")
  /\ UNCHANGED <<count, rounds, granted>>

StartWait(t) ==
  /\ pc[t] = "test"
  /\ old[t] = 0
  /\ Goto(t, "look")
  /\ UNCHANGED <<count, old, rounds, granted>>

\* Mutant: the thread goes to sleep without looking.
SleepUnlooked(t) ==
  /\ pc[t] = "look"
  /\ Goto(t, "wait")
  /\ UNCHANGED <<count, old, rounds, granted>>

Sleep(t) ==
  /\ pc[t] = "look"
  /\ count = 0
  /\ Goto(t, "wait")
  /\ UNCHANGED <<count, old, rounds, granted>>

EndWait(t) ==
  /\ pc[t] = "look"
  /\ count # 0
  /\ Goto(t, "load")
  /\ UNCHANGED <<count, old, rounds, granted>>

\* The compare-exchange succeeds (mutant: a store in its place).
TakeBlindly(t) ==
  /\ pc[t] = "test"
  /\ old[t] # 0
  /\ count' = old[t] - 1
  /\ Goto(t, "inside")
  /\ Forget(t)
  /\ UNCHANGED <<rounds, granted>>

Take(t) ==
  /\ pc[t] = "test"
  /\ old[t] # 0
  /\ count = old[t]
  /\ count' = old[t] - 1
  /\ Goto(t, "inside")
  /\ Forget(t)
  /\ UNCHANGED <<rounds, granted>>

\* It fails, because the count has changed or spuriously, and reloads old.
MissTake(t) ==
  /\ pc[t] = "test"
  /\ old[t] # 0
  /\ old' = [old EXCEPT ![t] = count]
  /\ UNCHANGED <<count, pc, rounds, granted>>

Release(t) ==
  /\ pc[t] = "inside"
  /\ count' = count + 1
  /\ Goto(t, "notify")
  /\ UNCHANGED <<old, rounds, granted>>

Grant == /\ CallGrant("notify")
         /\ count' = count + 1
         /\ UNCHANGED old

NotifyOne(t) == Notify(t, "look")
WakeUp(t) == WakeSpuriously(t, "look")

Step(t) == \/ CallAcquire(t) \/ Load(t) \/ StartWait(t) \/ Sleep(t) \/ EndWait(t)
           \/ Take(t) \/ MissTake(t) \/ Release(t) \/ NotifyOne(t)
MainStep == Grant \/ NotifyOne(Main)

Next == \/ \E t \in Threads : Step(t) \/ WakeUp(t)
        \/ MainStep
        \/ Joined

-----------------------------------------------------------------------------

\* Every variable has its type.
TypeOK ==
  /\ count \in 0..(Initial + Extra)
  /\ old \in [Callers -> 0..(Initial + Extra)]
  /\ pc \in [Callers -> {"idle", "load", "test", "look", "wait", "inside", "notify"}]
  /\ rounds \in [Threads -> 0..Rounds]
  /\ granted \in 0..Extra

(***************************************************************************)
(* A permit is either in the counter or with a thread.                     *)
(***************************************************************************)
PermitsConserved == count + Number({"inside"}) = Initial + granted

(***************************************************************************)
(* While a thread sleeps, every permit in the counter has a thread on its  *)
(* way to take it or a notification on its way to wake one.  (A thread     *)
(* with a stale old is on its way too: it looks again before it sleeps.)   *)
(***************************************************************************)
NoWaiterForgotten ==
  InState("wait") # {} => count <= Number({"load", "test", "look", "notify"})
=============================================================================
