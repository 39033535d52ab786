----------------------------- MODULE TicketLock ------------------------------
(***************************************************************************)
(* FairSpinLock of src/Multithreding/SpinLock/FairSpinLock.cpp: a thread   *)
(* draws a ticket and spins until its number is served.  Both numbers are  *)
(* unsigned and wrap around.                                               *)
(***************************************************************************)
EXTENDS LockClients

\* ticket.fetch_add.
DrawTicket(t) ==
  /\ At(t, "lock")
  /\ mine' = [mine EXCEPT ![t] = word]
  /\ word' = (word + 1) % TicketRange
  /\ queue' = Append(queue, t)
  /\ Goto(t, "spin")
  /\ UNCHANGED <<serving, asleep, work>>

\* Mutant: the thread waits only while serving is less than its number.
IsServedOrLater(t) == serving >= mine[t]

IsServed(t) == serving = mine[t]

\* The load that ends the loop; one that does not changes nothing.
SeeServing(t) ==
  /\ At(t, "spin")
  /\ IsServed(t)
  /\ Goto(t, "load")
  /\ UNCHANGED <<word, ticketing, asleep, work>>

DrawAndWait(t) == DrawTicket(t) \/ SeeServing(t)

\* serving.fetch_add; the local my_ticket is gone with lock's return.
TicketUnlock(t) ==
  /\ At(t, "unlock")
  /\ serving' = (serving + 1) % TicketRange
  /\ mine' = [mine EXCEPT ![t] = 0]
  /\ queue' = Tail(queue)
  /\ Goto(t, "lock")
  /\ UNCHANGED <<word, asleep, work>>

TicketStep(t) == DrawAndWait(t) \/ Increment(t) \/ TicketUnlock(t)

TicketNext == (\E t \in Threads : TicketStep(t)) \/ Joined

TicketSpec == Init /\ [][TicketNext]_vars

\* A thread that enters is the first of those that have drawn a ticket.
EntersInTurn == \A t \in Threads : Inside(t)' /\ ~Inside(t) => t = queue[1]

-----------------------------------------------------------------------------

\* The threads that have a ticket.
HasTicket(t) == Inside(t) \/ pc[t] = "spin"

(***************************************************************************)
(* The queue is in step with the two numbers: the place of a thread in it  *)
(* is its ticket's distance from the one that is served, modulo the range  *)
(* of tickets, and only the first in the queue may be inside.              *)
(***************************************************************************)
TicketInv ==
  /\ TypeOK
  /\ serving < TicketRange
  /\ \A i, j \in 1..Len(queue) : queue[i] = queue[j] => i = j
  /\ \A t \in Threads : HasTicket(t) <=> \E i \in 1..Len(queue) : queue[i] = t
  /\ word = (serving + Len(queue)) % TicketRange
  /\ \A i \in 1..Len(queue) : mine[queue[i]] = (serving + i - 1) % TicketRange
  /\ \A t \in Threads : Inside(t) => queue[1] = t
=============================================================================
