-------------------------- MODULE MCBatchAdapters ---------------------------
(***************************************************************************)
(* The instance of BatchAdapters that TLC checks.                          *)
(***************************************************************************)
EXTENDS BatchAdapters

\* An old and a new record with all fields, the two in either order with one field
\* each, and one record twice.
MCBatches ==
  {[keys |-> <<1, 3>>, fields |-> <<Fields, Fields>>],
   [keys |-> <<3, 1>>, fields |-> <<{1}, {2}>>],
   [keys |-> <<1, 1>>, fields |-> <<{2}, {1}>>]}

MCSymmetry == Permutations(Callers)
=============================================================================
