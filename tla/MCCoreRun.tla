----------------------------- MODULE MCCoreRun ------------------------------
(* CoreRun for TLC: interchangeable workers and fields, and the modes tried. *)
EXTENDS CoreRun, TLC

Symmetry == Permutations(Workers) \cup Permutations(Fields)

\* Every chooser one by one, and "latest" in batches of two.
CommonModes ==
  [chooser : Choosers, batchSize : {1}, writeAllFields : {FALSE}] \cup
  [chooser : {"latest"}, batchSize : {2}, writeAllFields : BOOLEAN]

=============================================================================
