---------------------------- MODULE SemaphoreFast ----------------------------
(***************************************************************************)
(* semaphore_fast::Semaphore: compare-exchange on an atomic counter first, *)
(* a mutex and a condition variable only when it is exhausted.  The slow   *)
(* path tests the count with the mutex held, but the fast path of other    *)
(* threads does not take the mutex.  The constructor's argument, Initial,  *)
(* is also the threshold that bounds the count.                            *)
(*                                                                         *)
(* "fast": in the loop of acquire, old loaded; "lock": about to lock the   *)
(* mutex and test the count; "sub": out of the wait with the mutex held;   *)
(* "give": in the loop of release, old loaded; "notify": about to lock the *)
(* mutex and notify.                                                       *)
(***************************************************************************)
EXTENDS SemaphoreClients

Threshold == Initial

MutexFree == InState("sub") = {}

\* The constructor throws on 0.
Constructed == Initial # 0 /\ Init

CallAcquire(t) == Call(t, "fast") /\ old' = [old EXCEPT ![t] = count]

FastTake(t) ==
  /\ pc[t] = "fast"
  /\ 0 < old[t]
  /\ count = old[t]
  /\ count' = old[t] - 1
  /\ Goto(t, "inside")
  /\ Forget(t)
  /\ UNCHANGED <<rounds, granted>>

\* The exchange fails, for a reason or for none, and reloads old.
FastMiss(t) ==
  /\ pc[t] = "fast"
  /\ 0 < old[t]
  /\ old' = [old EXCEPT ![t] = count]
  /\ UNCHANGED <<count, pc, rounds, granted>>

GoSlow(t) ==
  /\ pc[t] = "fast"
  /\ ~(0 < old[t])
  /\ Goto(t, "lock")
  /\ Forget(t)
  /\ UNCHANGED <<count, rounds, granted>>

SlowWait(t) ==
  /\ pc[t] = "lock"
  /\ MutexFree
  /\ ~(count > 0)
  /\ Goto(t, "wait")
  /\ UNCHANGED <<count, old, rounds, granted>>

SlowPass(t) ==
  /\ pc[t] = "lock"
  /\ MutexFree
  /\ count > 0
  /\ Goto(t, "sub")
  /\ UNCHANGED <<count, old, rounds, granted>>

\* Mutant: the count is not taken below 0.
SlowTakeIfAny(t) ==
  /\ pc[t] = "sub"
  /\ count' = IF count > 0 THEN count - 1 ELSE count
  /\ Goto(t, "inside")
  /\ UNCHANGED <<old, rounds, granted>>

SlowTake(t) ==
  /\ pc[t] = "sub"
  /\ count' = count - 1
  /\ Goto(t, "inside")
  /\ UNCHANGED <<old, rounds, granted>>

CallRelease(t) ==
  /\ pc[t] = "inside"
  /\ old' = [old EXCEPT ![t] = count]
  /\ Goto(t, "give")
  /\ UNCHANGED <<count, rounds, granted>>

Grant == /\ CallGrant("give")
         /\ old' = [old EXCEPT ![Main] = count]
         /\ UNCHANGED count

\* "bounded": the count is full and nothing is given back.
DropRelease(t) ==
  /\ pc[t] = "give"
  /\ old[t] >= Threshold
  /\ Goto(t, "idle")
  /\ Forget(t)
  /\ UNCHANGED <<count, rounds, granted>>

Give(t) ==
  /\ pc[t] = "give"
  /\ old[t] < Threshold
  /\ count = old[t]
  /\ count' = old[t] + 1
  /\ Goto(t, "notify")
  /\ Forget(t)
  /\ UNCHANGED <<rounds, granted>>

MissGive(t) ==
  /\ pc[t] = "give"
  /\ old[t] < Threshold
  /\ old' = [old EXCEPT ![t] = count]
  /\ UNCHANGED <<count, pc, rounds, granted>>

NotifyOne(t) == MutexFree /\ Notify(t, "lock")
WakeUp(t) == WakeSpuriously(t, "lock")

Acquire(t) == \/ CallAcquire(t) \/ FastTake(t) \/ FastMiss(t) \/ GoSlow(t)
              \/ SlowWait(t) \/ SlowPass(t) \/ SlowTake(t)
Release(t) == DropRelease(t) \/ Give(t) \/ MissGive(t) \/ NotifyOne(t)

Step(t) == Acquire(t) \/ CallRelease(t) \/ Release(t)
MainStep == Grant \/ Release(Main)

Next == \/ \E t \in Threads : Step(t) \/ WakeUp(t)
        \/ MainStep
        \/ Joined

Spec == Constructed /\ [][Next]_vars

\* What a thread must get done in spite of other threads: get the mutex, and
\* an exchange that would succeed.
Progress(t) == FastTake(t) \/ Give(t) \/ SlowWait(t) \/ SlowPass(t) \/ NotifyOne(t)
MainProgress == Give(Main) \/ NotifyOne(Main)

-----------------------------------------------------------------------------

\* Every variable has its type.  The count can be negative, but only by one:
\* one thread at a time is between the slow path's test and its fetch_sub.
TypeOK ==
  /\ count \in -1..Threshold
  /\ old \in [Callers -> -1..Threshold]
  /\ pc \in [Callers -> {"idle", "fast", "lock", "wait", "sub", "inside",
                         "give", "notify"}]
  /\ pc[Main] \in {"idle", "give", "notify"}
  /\ rounds \in [Threads -> 0..Rounds]
  /\ granted \in 0..Extra

(***************************************************************************)
(* The permits are those in the counter and those of the threads inside or *)
(* in release.  release decides by a count read earlier whether it drops   *)
(* one: it never drops more than Main has added, and no permit comes from  *)
(* nowhere.  This sum does not see two threads inside on one permit, which *)
(* make the count -1; but there is never more than one thread too many.    *)
(***************************************************************************)
Taken == Number({"inside", "give"})

PermitsBounded ==
  /\ Threshold <= count + Taken
  /\ count + Taken <= Threshold + granted
  /\ Taken <= Threshold + granted + 1

(***************************************************************************)
(* While a thread sleeps, every permit in the counter has a thread awake   *)
(* on the slow path or a notification on its way to wake one: the lock     *)
(* around notify_one, without which one could be lost, does its work.      *)
(***************************************************************************)
NoWaiterForgotten ==
  InState("wait") # {} => count <= Number({"lock", "sub", "notify"})

(***************************************************************************)
(* The comment on the slow path's fetch_sub: "Guaranteed > 0".             *)
(***************************************************************************)
GuaranteedPositive == InState("sub") # {} => count > 0
=============================================================================
