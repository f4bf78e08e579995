---------------------------- MODULE MCAckCounter ----------------------------
(* AckCounter for TLC: interchangeable workers and a window of a few slots. *)
EXTENDS AckCounter, TLC

Symmetry == Permutations(Workers)
=============================================================================
