--------------------------- MODULE BarrierThreads ---------------------------
(***************************************************************************)
(* The threads that use barrier::Barrier of                                *)
(* src/DataStructures/Barrier/Barrier.cpp: the participants are as many as *)
(* the threshold and go through the barrier Laps times, as in test_reuse   *)
(* and test_callback_once; the observers call wait(), as in                *)
(* test_wait_blocks, at any time.                                          *)
(***************************************************************************)
EXTENDS Naturals, FiniteSets

CONSTANTS Participants,  \* the threads that call arrive_and_wait
          Observers,     \* the threads that call wait
          Laps           \* how often each of them does

ASSUME ParticipantsAssumption ==
  /\ IsFiniteSet(Participants) /\ Participants # {}
  /\ Participants \cap Observers = {}

ASSUME LapsAssumption == Laps \in Nat
=============================================================================
