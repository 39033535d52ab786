------------------------------ MODULE ByteMutex ------------------------------
(***************************************************************************)
(* OnByteMutex of src/Multithreding/SpinLock/SpinLockFutex.cpp: a byte     *)
(* that says whether the lock is taken and whether someone may sleep on    *)
(* it, with std::atomic wait and notify_one.                               *)
(*                                                                         *)
(* "exchange": in the loop, about to exchange; "wait": in state.wait,      *)
(* about to look at the state.  Looking and going to sleep are one step:   *)
(* what std::atomic::wait promises.  Whoever is woken looks again.         *)
(***************************************************************************)
EXTENDS LockClients

Unlocked == 0
Locked == 1
Sleeper == 2

\* state.exchange(value); the thread goes on at success or at failure.
ExchangeState(t, value, success, failure) ==
  /\ word' = value
  /\ Goto(t, IF word = Unlocked THEN success ELSE failure)
  /\ UNCHANGED <<ticketing, asleep, work>>

TryLock(t) == At(t, "lock") /\ ExchangeState(t, Locked, "load", "exchange")

LockAsSleeper(t) == At(t, "exchange") /\ ExchangeState(t, Sleeper, "load", "wait")

Sleep(t) ==
  /\ At(t, "wait")
  /\ word = Sleeper
  /\ asleep' = asleep \cup {t}
  /\ UNCHANGED <<word, ticketing, pc, work>>

EndWait(t) ==
  /\ At(t, "wait")
  /\ word # Sleeper
  /\ Goto(t, "exchange")
  /\ UNCHANGED <<word, ticketing, asleep, work>>

ByteLock(t) == TryLock(t) \/ LockAsSleeper(t) \/ Sleep(t) \/ EndWait(t)

\* Mutant: a store in place of the exchange; nobody is notified.
ByteUnlockQuietly(t) ==
  /\ At(t, "unlock")
  /\ word' = Unlocked
  /\ Goto(t, "lock")
  /\ UNCHANGED <<ticketing, asleep, work>>

\* state.exchange(unlocked), and notify_one if someone may sleep.
ByteUnlock(t) ==
  /\ At(t, "unlock")
  /\ word' = Unlocked
  /\ Goto(t, IF word = Sleeper THEN "wake" ELSE "lock")
  /\ UNCHANGED <<ticketing, asleep, work>>

NotifyOne(t) == WakeOne(t)

ByteStep(t) == ByteLock(t) \/ Increment(t) \/ ByteUnlock(t) \/ NotifyOne(t)

ByteNext == (\E t \in Threads : ByteStep(t) \/ WakeSpuriously(t)) \/ Joined

ByteSpec == Init /\ [][ByteNext]_vars

-----------------------------------------------------------------------------

(***************************************************************************)
(* The state is not unlocked while a thread is in the critical section.    *)
(***************************************************************************)
ByteInv == /\ TypeOK
           /\ word \in {Unlocked, Locked, Sleeper}
           /\ MutualExclusion
           /\ \A t \in Threads : Inside(t) => word # Unlocked

(***************************************************************************)
(* When a thread sleeps there is a thread that will wake it: one about to  *)
(* notify, or the owner, if it will see that someone sleeps, or a thread   *)
(* on the slow path, which will set the state to sleeper again.            *)
(***************************************************************************)
ByteSleeperNotForgotten ==
  asleep # {} =>
    \E t \in Threads \ asleep :
      pc[t] \in {"wake", "exchange", "wait"} \/ (Inside(t) /\ word = Sleeper)
=============================================================================
