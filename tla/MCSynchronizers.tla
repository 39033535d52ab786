--------------------------- MODULE MCSynchronizers ---------------------------
(***************************************************************************)
(* testSemaphore<SemT>, the same threads on each of the three semaphores,  *)
(* and the barrier with threads of its own.  A behaviour picks its         *)
(* synchronizer at the start and keeps it; the variables of the others     *)
(* stay as they are.                                                       *)
(***************************************************************************)
EXTENDS SemaphoreClients, BarrierThreads

VARIABLES kind,  \* which semaphore SemT is, or "barrier"
          generation, gen, arrived, passed, callbacks  \* of the barrier

Mutex == INSTANCE Semaphore
Atomic == INSTANCE SemaphoreAtomic
Fast == INSTANCE SemaphoreFast
Reusable == INSTANCE Barrier

ofBarrier == <<generation, gen, arrived, passed, callbacks>>
ofSemaphores == <<old, rounds, granted>>
testVars == <<vars, ofBarrier, kind>>

SemaphoreInit == /\ generation = 0 /\ callbacks = 0
                 /\ gen = <<>> /\ arrived = <<>> /\ passed = <<>>
                 /\ \/ kind \in {"mutex", "atomic"} /\ Init
                    \/ kind = "fast" /\ Fast!Constructed

BarrierInit == /\ kind = "barrier" /\ Reusable!Init
               /\ old = <<>> /\ rounds = <<>> /\ granted = 0

OfSemaphore(name, A) == kind = name /\ A /\ UNCHANGED <<kind, ofBarrier>>
OfBarrier(A) == kind = "barrier" /\ A /\ UNCHANGED <<kind, ofSemaphores>>

\* The participants are through, and no observer can leave any more.
BarrierDone == /\ \A t \in Participants : passed[t] = Laps
               /\ \A o \in Observers : pc[o] \in {"idle", "wait"}
               /\ UNCHANGED <<vars, ofBarrier>>

TestNext == \/ OfSemaphore("mutex", Mutex!Next)
            \/ OfSemaphore("atomic", Atomic!Next)
            \/ OfSemaphore("fast", Fast!Next)
            \/ OfBarrier(Reusable!Next \/ BarrierDone)

TestSpec == (SemaphoreInit \/ BarrierInit) /\ [][TestNext]_testVars

(***************************************************************************)
(* Every thread runs; it gets a mutex that is free again and again, and a  *)
(* compare-exchange that would succeed does not fail spuriously for ever.  *)
(* An observer need not ever call wait().  No spurious wake-up is relied   *)
(* on.                                                                     *)
(***************************************************************************)
StepOf(t) == \/ OfSemaphore("mutex", Mutex!Step(t))
             \/ OfSemaphore("atomic", Atomic!Step(t))
             \/ OfSemaphore("fast", Fast!Step(t))

ProgressOf(t) == \/ OfSemaphore("mutex", Mutex!Block(t) \/ Mutex!Acquire(t))
                 \/ OfSemaphore("atomic", Atomic!Take(t))
                 \/ OfSemaphore("fast", Fast!Progress(t))

MainStepOf == \/ OfSemaphore("mutex", Mutex!MainStep)
              \/ OfSemaphore("atomic", Atomic!MainStep)
              \/ OfSemaphore("fast", Fast!MainStep)

LeaveOf(o) == OfBarrier(Reusable!Leave(o) \/ Reusable!SleepAgain(o))

FairTestSpec ==
  /\ TestSpec
  /\ WF_testVars(MainStepOf)
  /\ SF_testVars(OfSemaphore("fast", Fast!MainProgress))
  /\ \A t \in Threads : WF_testVars(StepOf(t)) /\ SF_testVars(ProgressOf(t))
  /\ \A t \in Participants : WF_testVars(OfBarrier(Reusable!Participate(t)))
  /\ \A o \in Observers : WF_testVars(LeaveOf(o))

-----------------------------------------------------------------------------

\* Every variable has its type, each synchronizer's own.
TypeOK == \/ kind = "mutex" /\ Mutex!TypeOK
          \/ kind = "atomic" /\ Atomic!TypeOK
          \/ kind = "fast" /\ Fast!TypeOK
          \/ kind = "barrier" /\ Reusable!TypeOK

(***************************************************************************)
(* The first two semaphores neither lose nor duplicate a permit.  The      *)
(* third drops releases when its count is full: it never has fewer permits *)
(* than at the start, nor more than were ever given, and lets in at most   *)
(* one thread too many.                                                    *)
(***************************************************************************)
PermitsAccounted == \/ kind = "mutex" /\ Mutex!PermitsConserved
                    \/ kind = "atomic" /\ Atomic!PermitsConserved
                    \/ kind = "fast" /\ Fast!PermitsBounded
                    \/ kind = "barrier"

\* No thread sleeps on a permit that nobody is about to take or to announce,
\* or after the end of its round with no notification to come.
NoWaiterForgotten == \/ kind = "mutex" /\ Mutex!NoWaiterForgotten
                     \/ kind = "atomic" /\ Atomic!NoWaiterForgotten
                     \/ kind = "fast" /\ Fast!NoWaiterForgotten
                     \/ kind = "barrier" /\ Reusable!NoSleeperForgotten

(***************************************************************************)
(* The first two semaphores never let more threads in than there are       *)
(* permits ("Too many threads" of max_simultaneous_task).                  *)
(***************************************************************************)
Permits == INSTANCE PermitPool
             WITH inside <- IF kind \in {"mutex", "atomic"}
                              THEN InState("inside") ELSE {}

ImplementsPermits == Permits!Spec

\* Nobody leaves the barrier before everybody has arrived for the round.
NoEarlyRelease == kind = "barrier" => Reusable!NoEarlyRelease

\* Each completed round of the barrier has its one callback, and no two
\* callbacks overlap.
OneCallbackPerRound == kind = "barrier" => Reusable!OneCallbackPerRound

(***************************************************************************)
(* All threads of a semaphore get their turns and are joined, and the      *)
(* participants of the barrier complete all rounds.                        *)
(***************************************************************************)
AllDoneOf == IF kind = "barrier" THEN \A t \in Participants : passed[t] = Laps
             ELSE AllDone

AllJoined == <>AllDoneOf

\* A wait() on the barrier, called before the last round, returns.
WaitReturns ==
  \A o \in Observers :
    (kind = "barrier" /\ pc[o] = "wait" /\ gen[o] < Laps)
      ~> (kind = "barrier" /\ pc[o] = "idle")
=============================================================================
