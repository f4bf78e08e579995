----------------------------- MODULE MCRowReads -----------------------------
(* RowReads for TLC: workers and buffers are interchangeable. *)
EXTENDS RowReads

MCFieldNames == <<"field0", "field1">>

Symmetry == Permutations(Workers) \cup Permutations(Buffers)
=============================================================================
