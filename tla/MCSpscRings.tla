----------------------------- MODULE MCSpscRings -----------------------------
(***************************************************************************)
(* multithreading::runAllTests: the same producer and consumer on each of  *)
(* the rings.  A behaviour picks its ring at the start and keeps it.       *)
(***************************************************************************)
EXTENDS SpscClients

VARIABLE kind  \* which ring it is

Index == INSTANCE SpscIndexRing
Cursor == INSTANCE SpscCursorRing

testVars == <<vars, kind>>

TestInit == Init /\ kind \in {"index", "cached index", "cursor"}

Push == /\ UNCHANGED kind
        /\ \/ kind = "index" /\ Index!UncachedPush
           \/ kind = "cached index" /\ Index!CachedPush
           \/ kind = "cursor" /\ Cursor!Push

Pop == /\ UNCHANGED kind
       /\ \/ kind = "index" /\ Index!UncachedPop
          \/ kind = "cached index" /\ Index!CachedPop
          \/ kind = "cursor" /\ Cursor!Pop

TestNext == Push \/ Pop \/ ((Observe \/ Joined) /\ UNCHANGED kind)

TestSpec == TestInit /\ [][TestNext]_testVars

\* Both threads run; an observer need not.
FairTestSpec == TestSpec /\ WF_testVars(Push) /\ WF_testVars(Pop)

-----------------------------------------------------------------------------

(***************************************************************************)
(* The rings implement BoundedFifo.  A push takes effect when its position *)
(* is stored, a pop when its own is.                                       *)
(***************************************************************************)
Fifo == INSTANCE BoundedFifo WITH
          Producers <- {Producer},
          Consumers <- {Consumer},
          queue <- [k \in 1..(sent - Len(seen)) |-> buffer[SlotOf(readPos + k - 1)]],
          put <- [p \in {Producer} |-> sent],
          got <- [c \in {Consumer} |-> seen]

ImplementsFifo == Fifo!Spec

(***************************************************************************)
(* Every message arrives, although pushes and pops fail and are retried    *)
(* and look at old copies ("eventsCount" reads in test_1 and test_2).      *)
(***************************************************************************)
AllReceived == <>(Len(seen) = Messages)

(***************************************************************************)
(* What impl_6's comment says of size(): "Approximate number of elements.  *)
(* Race-safe: snapshot of two cursors."  However approximate, it is a      *)
(* number of elements the buffer can hold.                                 *)
(***************************************************************************)
RaceSafeSize == kind = "cursor" /\ pc[Observer] = "done" => size <= Capacity
=============================================================================
