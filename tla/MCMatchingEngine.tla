-------------------------- MODULE MCMatchingEngine --------------------------
(***************************************************************************)
(* The matching engine, for TLC.                                           *)
(***************************************************************************)
EXTENDS MatchingEngine, TLC

\* The ids are interchangeable.
IdSymmetry == Permutations(OrderIds)
=============================================================================
