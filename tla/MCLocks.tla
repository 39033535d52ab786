------------------------------ MODULE MCLocks --------------------------------
(***************************************************************************)
(* Futex::TestAll and the tests of the spin locks: the same threads with   *)
(* each of the locks.  A behaviour picks its lock at the start.            *)
(***************************************************************************)
EXTENDS SpinLock, TicketLock, ByteMutex, FutexMutex

VARIABLE kind  \* which lock it is

testVars == <<vars, kind>>

TestInit == Init /\ kind \in {"flag", "look first", "ticket", "byte", "futex"}

Step(t) == /\ UNCHANGED kind
           /\ \/ kind = "flag" /\ SpinStep(t)
              \/ kind = "look first" /\ LookingStep(t)
              \/ kind = "ticket" /\ TicketStep(t)
              \/ kind = "byte" /\ ByteStep(t)
              \/ kind = "futex" /\ FutexStep(t)

TestNext == \/ \E t \in Threads : Step(t) \/ (WakeSpuriously(t) /\ UNCHANGED kind)
            \/ Joined /\ UNCHANGED kind

\* Every thread runs; nobody need be woken for no reason.
TestSpec == /\ TestInit /\ [][TestNext]_testVars
            /\ \A t \in Threads : WF_testVars(Step(t))

-----------------------------------------------------------------------------

\* Nobody sleeps whom no one is going to wake.
NoSleeperForgotten ==
  /\ kind = "byte" => ByteSleeperNotForgotten
  /\ kind = "futex" => FutexSleeperNotForgotten

(***************************************************************************)
(* FairSpinLock lets the threads in in the order in which they came, also  *)
(* after the numbers have wrapped around.                                  *)
(***************************************************************************)
InTurn == [][kind = "ticket" => EntersInTurn]_testVars

(***************************************************************************)
(* Every thread gets the lock as often as it asks for it and returns.      *)
(***************************************************************************)
AllJoined == <>AllDone
=============================================================================
