----------------------------- MODULE Filtering -----------------------------
(***************************************************************************)
(* What is left of a vector or list when elements have been erased: those  *)
(* at the positions that are kept, in their order.  (A recursive function  *)
(* and not SelectSeq, so that proofs can reason about it.)                 *)
(***************************************************************************)
EXTENDS Naturals, Sequences

Keep(s, kept) ==
  LET upTo[n \in 0..Len(s)] ==
        IF n = 0 THEN <<>>
        ELSE IF n \in kept THEN Append(upTo[n - 1], s[n])
        ELSE upTo[n - 1]
  IN upTo[Len(s)]
=============================================================================
