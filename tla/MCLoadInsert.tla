---------------------------- MODULE MCLoadInsert ----------------------------
(* LoadInsert for TLC: the .cfg files give every constant a plain value. *)
EXTENDS LoadInsert
=============================================================================
