----------------------------- MODULE PermitPool -----------------------------
(***************************************************************************)
(* What a counting semaphore promises: no more threads are inside than     *)
(* there are permits.  The semaphore with a mutex and the one with an      *)
(* atomic of src/DataStructures/Semaphore/Semaphore.cpp are held against   *)
(* it; the one with a fast path does not keep this promise.                *)
(***************************************************************************)
EXTENDS Naturals, FiniteSets

CONSTANTS Threads,  \* the threads that acquire and release
          Initial,  \* the constructor's argument
          Extra     \* how many permits the main thread may add

VARIABLES inside,   \* the threads that hold a permit
          granted   \* how many permits the main thread has added

vars == <<inside, granted>>

Init == inside = {} /\ granted = 0

Acquire(t) == /\ t \notin inside
              /\ Cardinality(inside) < Initial + granted
              /\ inside' = inside \cup {t}
              /\ UNCHANGED granted

Release(t) == /\ t \in inside
              /\ inside' = inside \ {t}
              /\ UNCHANGED granted

Grant == /\ granted < Extra
         /\ granted' = granted + 1
         /\ UNCHANGED inside

Next == Grant \/ \E t \in Threads : Acquire(t) \/ Release(t)

Spec == Init /\ [][Next]_vars
=============================================================================
