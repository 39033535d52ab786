------------------------------ MODULE SpinLock -------------------------------
(***************************************************************************)
(* The locks that spin until they have set a flag.  Those of               *)
(* src/Multithreding/SpinLock/SpinLock.cpp that set it blindly             *)
(* (SpinLock_AtomicFlag, SpinLock_Bool, FastSpinLock2,                     *)
(* SpinLock_Experimental) and those that look first (FastSpinLock,         *)
(* SpinLock_Fast_NotFair, SpinLockBest).  An attempt that fails changes    *)
(* nothing, and how long a thread pauses between two is left out.          *)
(***************************************************************************)
EXTENDS LockClients

\* The exchange, and the load before it, find the flag clear.
Exchange(t, label) ==
  /\ At(t, label)
  /\ word = 0
  /\ word' = 1
  /\ Goto(t, "load")
  /\ UNCHANGED <<ticketing, asleep, work>>

Look(t) ==
  /\ At(t, "lock")
  /\ word = 0
  /\ Goto(t, "exchange")
  /\ UNCHANGED <<word, ticketing, asleep, work>>

\* The flag was set since the thread looked.
MissExchange(t) ==
  /\ At(t, "exchange")
  /\ word # 0
  /\ Goto(t, "lock")
  /\ UNCHANGED <<word, ticketing, asleep, work>>

LookAndLock(t) == Look(t) \/ Exchange(t, "exchange") \/ MissExchange(t)

SetFlag(t) == Exchange(t, "lock")

SpinUnlock(t) ==
  /\ At(t, "unlock")
  /\ word' = 0
  /\ Goto(t, "lock")
  /\ UNCHANGED <<ticketing, asleep, work>>

SpinStep(t) == SetFlag(t) \/ Increment(t) \/ SpinUnlock(t)
LookingStep(t) == LookAndLock(t) \/ Increment(t) \/ SpinUnlock(t)

SpinNext == (\E t \in Threads : SpinStep(t) \/ LookingStep(t)) \/ Joined

SpinSpec == Init /\ [][SpinNext]_vars

(***************************************************************************)
(* The flag is set while a thread is in the critical section.              *)
(***************************************************************************)
SpinInv == /\ TypeOK
           /\ MutualExclusion
           /\ \A t \in Threads : Inside(t) => word # 0
=============================================================================
