------------------------------ MODULE TaskPool ------------------------------
(***************************************************************************)
(* What a thread pool promises its clients: tasks start in the order in    *)
(* which they were submitted, each once, at most Workers of them run at a  *)
(* time, and when the pool has been closed none is running and none starts *)
(* any more (those that have not started by then never do).                *)
(***************************************************************************)
EXTENDS Naturals, Sequences, FiniteSets, Functions

CONSTANTS Tasks, Workers

VARIABLES waiting, running, finished, closed

vars == <<waiting, running, finished, closed>>

Init == /\ waiting = <<>>
        /\ running = {}
        /\ finished = {}
        /\ closed = FALSE

Submit(t) == /\ ~closed
             /\ t \notin Range(waiting) \cup running \cup finished
             /\ waiting' = Append(waiting, t)
             /\ UNCHANGED <<running, finished, closed>>

Start == /\ ~closed
         /\ waiting # <<>>
         /\ Cardinality(running) < Cardinality(Workers)
         /\ running' = running \cup {Head(waiting)}
         /\ waiting' = Tail(waiting)
         /\ UNCHANGED <<finished, closed>>

Finish(t) == /\ t \in running
             /\ running' = running \ {t}
             /\ finished' = finished \cup {t}
             /\ UNCHANGED <<waiting, closed>>

Close == /\ running = {}
         /\ closed' = TRUE
         /\ waiting' = <<>>
         /\ UNCHANGED <<running, finished>>

Next == Start \/ Close \/ \E t \in Tasks : Submit(t) \/ Finish(t)

Spec == Init /\ [][Next]_vars
=============================================================================
