---------------------------- MODULE MCKVAdapters ----------------------------
(* KVAdapters for TLC: workers, fields and buffers are interchangeable. *)
EXTENDS KVAdapters, TLC

Symmetry ==
  Permutations(Workers) \cup Permutations(Fields) \cup Permutations(Buffers)
=============================================================================
