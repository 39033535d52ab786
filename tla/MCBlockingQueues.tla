-------------------------- MODULE MCBlockingQueues --------------------------
(***************************************************************************)
(* test_stress<Q>: the same threads on both queues.  A behaviour picks its *)
(* queue at the start and keeps it.  The members of the other queue stay   *)
(* as they are.                                                            *)
(***************************************************************************)
EXTENDS QueueClients

CONSTANTS Nobody, Nothing

\* The holder of a free mutex is not a thread.
ASSUME NobodyAssumption == Nobody \notin Threads

VARIABLES kind,  \* which queue Q is
          queue, buffer, size, head, tail, headMtx, tailMtx, out

Basic == INSTANCE BoundedQueue
Split == INSTANCE SplitLockQueue

members == <<buffer, size, head, tail, headMtx, tailMtx, out>>
testVars == <<kind, clients, queue, members>>

TestInit == /\ kind \in {"basic", "split"}
            /\ Basic!Constructed
            /\ Split!Constructed

TestNext == /\ UNCHANGED kind
            /\ \/ kind = "basic" /\ Basic!Next /\ UNCHANGED members
               \/ kind = "split" /\ Split!Next /\ UNCHANGED queue

TestSpec == TestInit /\ [][TestNext]_testVars

(***************************************************************************)
(* Every thread that can run does, and nobody waits for ever for a mutex.  *)
(* Nobody has to call stop(), and no wake-up without a notification is     *)
(* relied upon.  (What the split queue owes under fairness it does not     *)
(* deliver: see SplitLockQueueLost.cfg.)                                   *)
(***************************************************************************)
BasicStep(A) == kind = "basic" /\ A /\ UNCHANGED <<kind, members>>

FairTestSpec ==
  /\ TestSpec
  /\ \A p \in Producers : WF_testVars(BasicStep(Basic!ProducerStep(p)))
  /\ \A c \in Consumers : WF_testVars(BasicStep(Basic!ConsumerStep(c)))
  /\ WF_testVars(BasicStep(Basic!StopStep))

-----------------------------------------------------------------------------

\* Every variable has its type, each queue's own.
TypeOK == IF kind = "basic" THEN Basic!TypeOK ELSE Split!TypeOK

\* The balance of sleepers and notifications of BoundedQueue.
NoThreadForgotten == kind = "basic" => Basic!NoThreadForgotten

\* stop() wakes everybody who sleeps on a BoundedQueue, for good.
StopUnblocks == kind = "basic" => Basic!StopUnblocks

\* The two mutexes of SplitLockQueue keep its sides out of the same slot.
SlotsApart == kind = "split" => Split!SlotsApart

(***************************************************************************)
(* Both queues deliver the messages as a bounded FIFO does: none lost,     *)
(* none duplicated, none overtaken, never more than the capacity queued.   *)
(***************************************************************************)
Fifo == INSTANCE BoundedFifo WITH
          put <- produced,
          queue <- IF kind = "basic" THEN queue ELSE Split!Queued

ImplementsFifo == Fifo!Spec

(***************************************************************************)
(* Every message a push on a BoundedQueue has accepted is popped in the    *)
(* end, also when the queue is stopped meanwhile; and unless it is stopped *)
(* every message is accepted and popped.                                   *)
(***************************************************************************)
AllPopped == <>[](kind = "basic" =>
                    /\ queue = <<>>
                    /\ stopped \/ \A m \in Message : Popped(m))
=============================================================================
