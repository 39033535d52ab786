----------------------------- MODULE FutexMutex ------------------------------
(***************************************************************************)
(* Futex_1::FutexMutex of src/Multithreding/Futex/Futex.cpp: a mutex over  *)
(* the futex system calls.  0: unlocked; 1: locked; 2: locked, and some    *)
(* thread may sleep.                                                       *)
(*                                                                         *)
(* "mark": about to change 1 to 2; "wait": about to call futex_wait;       *)
(* "take": about to change 0 to 2; "clear": unlock has decremented a 2 and *)
(* is about to store 0; "wake": about to call futex_wake.  FUTEX_WAIT      *)
(* compares and goes to sleep in one step.                                 *)
(***************************************************************************)
EXTENDS LockClients

\* compare_exchange_strong(expected, value), and where either outcome leads.
CompareExchange(t, expected, value, success, failure) ==
  /\ word' = IF word = expected THEN value ELSE word
  /\ Goto(t, IF word = expected THEN success ELSE failure)
  /\ UNCHANGED <<ticketing, asleep, work>>

FastPath(t) == At(t, "lock") /\ CompareExchange(t, 0, 1, "load", "mark")
Mark(t) == At(t, "mark") /\ CompareExchange(t, 1, 2, "wait", "take")

\* Mutant: the slow path takes the lock like the fast path does.
TakeAsFast(t) == At(t, "take") /\ CompareExchange(t, 0, 1, "load", "mark")

Take(t) == At(t, "take") /\ CompareExchange(t, 0, 2, "load", "mark")

\* futex_wait(&state, 2), from which the thread goes on to Take.
FutexWait(t) ==
  /\ At(t, "wait")
  /\ asleep' = IF word = 2 THEN asleep \cup {t} ELSE asleep
  /\ Goto(t, "take")
  /\ UNCHANGED <<word, ticketing, work>>

FutexLock(t) == FastPath(t) \/ Mark(t) \/ FutexWait(t) \/ Take(t)

\* Mutant: unlock stores 0 whatever fetch_sub returns.
DecrementAndClear(t) ==
  /\ At(t, "unlock")
  /\ word' = word - 1
  /\ Goto(t, "clear")
  /\ UNCHANGED <<ticketing, asleep, work>>

\* fetch_sub: a 1 becomes 0 and the lock is free.
Decrement(t) ==
  /\ At(t, "unlock")
  /\ word' = word - 1
  /\ Goto(t, IF word = 1 THEN "lock" ELSE "clear")
  /\ UNCHANGED <<ticketing, asleep, work>>

Clear(t) ==
  /\ At(t, "clear")
  /\ word' = 0
  /\ Goto(t, "wake")
  /\ UNCHANGED <<ticketing, asleep, work>>

FutexWake(t) == WakeOne(t)

FutexUnlock(t) == Decrement(t) \/ Clear(t) \/ FutexWake(t)

FutexStep(t) == FutexLock(t) \/ Increment(t) \/ FutexUnlock(t)

FutexNext == (\E t \in Threads : FutexStep(t) \/ WakeSpuriously(t)) \/ Joined

FutexSpec == Init /\ [][FutexNext]_vars

-----------------------------------------------------------------------------

\* The thread holds the lock: it is inside, or has not yet stored the 0.
Owns(t) == Inside(t) \/ pc[t] = "clear"

(***************************************************************************)
(* One thread at most owns the lock, and while it does the state is not 0, *)
(* between unlock's two writes either.                                     *)
(***************************************************************************)
FutexInv == /\ TypeOK
            /\ word \in {0, 1, 2}
            /\ \A s, t \in Threads : Owns(s) /\ Owns(t) => s = t
            /\ \A t \in Threads : Owns(t) => word # 0

(***************************************************************************)
(* When a thread sleeps there is a thread that will wake it: one in the    *)
(* middle of unlock, or the owner, if it will see the 2, or a thread awake *)
(* on the slow path, which will set the 2 again.                           *)
(***************************************************************************)
FutexSleeperNotForgotten ==
  asleep # {} =>
    \E t \in Threads \ asleep :
      pc[t] \in {"clear", "wake", "mark", "wait", "take"} \/ (Inside(t) /\ word = 2)
=============================================================================
