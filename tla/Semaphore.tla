----------------------------- MODULE Semaphore -----------------------------
(***************************************************************************)
(* semaphore::Semaphore: a counter under a mutex and a condition variable. *)
(* A critical section is one action; notify_one comes after it, with the   *)
(* mutex released.  "enter": about to lock the mutex and test the count.   *)
(***************************************************************************)
EXTENDS SemaphoreClients

CallAcquire(t) == Call(t, "enter") /\ UNCHANGED old

Block(t) ==
  /\ pc[t] = "enter"
  /\ ~(count > 0)
  /\ Goto(t, "wait")
  /\ UNCHANGED <<count, old, rounds, granted>>

\* Mutant: the count is not tested under the mutex.
AcquireUntested(t) ==
  /\ pc[t] = "enter"
  /\ count' = count - 1
  /\ Goto(t, "inside")
  /\ UNCHANGED <<old, rounds, granted>>

Acquire(t) ==
  /\ pc[t] = "enter"
  /\ count > 0
  /\ count' = count - 1
  /\ Goto(t, "inside")
  /\ UNCHANGED <<old, rounds, granted>>

\* Mutant: a release that finds permits left does not notify.
ReleaseQuietly(t) ==
  /\ pc[t] = "inside"
  /\ count' = count + 1
  /\ Goto(t, IF count = 0 THEN "notify" ELSE "idle")
  /\ UNCHANGED <<old, rounds, granted>>

Release(t) ==
  /\ pc[t] = "inside"
  /\ count' = count + 1
  /\ Goto(t, "notify")
  /\ UNCHANGED <<old, rounds, granted>>

Grant == /\ CallGrant("notify")
         /\ count' = count + 1
         /\ UNCHANGED old

NotifyOne(t) == Notify(t, "enter")
WakeUp(t) == WakeSpuriously(t, "enter")

Step(t) == CallAcquire(t) \/ Block(t) \/ Acquire(t) \/ Release(t) \/ NotifyOne(t)
MainStep == Grant \/ NotifyOne(Main)

Next == \/ \E t \in Threads : Step(t) \/ WakeUp(t)
        \/ MainStep
        \/ Joined

-----------------------------------------------------------------------------

\* Every variable has its type.
TypeOK ==
  /\ count \in Nat
  /\ old = [t \in Callers |-> 0]
  /\ pc \in [Callers -> {"idle", "enter", "wait", "inside", "notify"}]
  /\ pc[Main] \in {"idle", "notify"}
  /\ rounds \in [Threads -> 0..Rounds]
  /\ granted \in 0..Extra

(***************************************************************************)
(* A permit is either in the counter or with a thread: none is lost or     *)
(* duplicated by the order in which threads wake up.                       *)
(***************************************************************************)
PermitsConserved == count + Number({"inside"}) = Initial + granted

(***************************************************************************)
(* While a thread sleeps, every permit in the counter has a thread on its  *)
(* way to take it or a notification on its way to wake one.                *)
(***************************************************************************)
NoWaiterForgotten ==
  InState("wait") # {} => count <= Number({"enter", "notify"})
=============================================================================
