---------------------------- MODULE MCClientRun -----------------------------
(* ClientRun for TLC: the modes of the runs, as records. *)
EXTENDS ClientRun

\* `run' with a warm-up and a plain `load', one by one and in batches.
CommonModes ==
  { [transactions |-> TRUE, warmUp |-> TRUE, batchSize |-> 1],
    [transactions |-> TRUE, warmUp |-> TRUE, batchSize |-> 2],
    [transactions |-> FALSE, warmUp |-> FALSE, batchSize |-> 1],
    [transactions |-> FALSE, warmUp |-> FALSE, batchSize |-> 2] }

\* `load' with the properties of a `run' that has a warm-up.
LoadWithWarmUp == {[transactions |-> FALSE, warmUp |-> TRUE, batchSize |-> 1]}
=============================================================================
