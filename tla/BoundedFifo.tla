---------------------------- MODULE BoundedFifo ----------------------------
(***************************************************************************)
(* What every bounded queue of the repository promises its callers.        *)
(* Producer p puts the messages <<p, 1>>, <<p, 2>>, ... in this order (the *)
(* stress tests of the queues number their messages in the same way), a    *)
(* put happens only while fewer than Capacity messages are queued, and a   *)
(* consumer takes the oldest message.  Both are atomic.  The modules of    *)
(* the concrete queues are shown to implement this one.                    *)
(***************************************************************************)
EXTENDS Naturals, Sequences

CONSTANTS Producers,  \* the threads that put
          Consumers,  \* the threads that take
          Messages,   \* how many messages each producer puts
          Capacity    \* how many messages the queue may hold

VARIABLES queue,      \* the queued messages, oldest first
          put,        \* put[p]: how many messages producer p has put
          got         \* got[c]: the messages consumer c has taken, in order

vars == <<queue, put, got>>

Message == Producers \X (1..Messages)

Init == /\ queue = <<>>
        /\ put = [p \in Producers |-> 0]
        /\ got = [c \in Consumers |-> <<>>]

Put(p) == /\ put[p] < Messages
          /\ Len(queue) < Capacity
          /\ queue' = Append(queue, <<p, put[p] + 1>>)
          /\ put' = [put EXCEPT ![p] = @ + 1]
          /\ UNCHANGED got

Take(c) == /\ queue # <<>>
           /\ got' = [got EXCEPT ![c] = Append(@, Head(queue))]
           /\ queue' = Tail(queue)
           /\ UNCHANGED put

Next == \/ \E p \in Producers : Put(p)
        \/ \E c \in Consumers : Take(c)

Spec == Init /\ [][Next]_vars
=============================================================================
