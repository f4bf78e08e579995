----------------------------- MODULE KVAdapters -----------------------------
(***************************************************************************)
(* One process with one key-value adapter, chosen at the start, and its    *)
(* workers.  The adapters are the ones that keep a row as one value and so *)
(* update it by reading, merging and writing; what they share is RowStore. *)
(***************************************************************************)
EXTENDS BadgerDB, BoltDB, OptimisticDB, GetPutDB

vars == <<engine, rowVars, byteVars, rwlock>>

Init == RowInit /\ BadgerInit /\ BoltInit

AdapterStep(w) ==
  \/ engine = "badger" /\ BadgerStep(w) /\ UNCHANGED rwlock
  \/ engine = "boltdb" /\ BoltStep(w) /\ UNCHANGED byteVars
  \/ /\ engine \in {"tikv", "fdb"}
     /\ OptimisticStep(w)
     /\ UNCHANGED <<byteVars, rwlock>>
  \/ /\ engine \in GetPutEngines
     /\ GetPutStep(w)
     /\ UNCHANGED <<byteVars, rwlock>>

StartCall(w) ==
  /\ \E kind \in {"insert", "update", "delete"} : MakeCall(w, kind)
  /\ UNCHANGED <<byteVars, rwlock>>

CloseDB == engine = "badger" /\ Close /\ UNCHANGED rwlock

Next ==
  /\ ~closed
  /\ (\E w \in Workers : StartCall(w) \/ AdapterStep(w)) \/ CloseDB
  /\ UNCHANGED engine

Spec == Init /\ [][Next]_vars
=============================================================================
