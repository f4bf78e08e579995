------------------------------- MODULE BoltDB -------------------------------
(***************************************************************************)
(* The boltdb adapter (db/boltdb/db.go): each call is one db.Update        *)
(* transaction.  Bolt is external: it runs one read-write transaction at a *)
(* time, and bucket.Put keeps the value slice until the commit writes it.  *)
(* The adapter gives the slice back to its pool before that commit.        *)
(* A table without a bucket behaves as a table without rows.               *)
(***************************************************************************)
EXTENDS RowStore

VARIABLE rwlock   \* the worker whose read-write transaction is open, if any

BoltInit == rwlock = {}

\* db.Update waits for the open transaction to end.
BoltBegin(w) ==
  /\ pc[w] = "begin"
  /\ rwlock = {}
  /\ rwlock' = {w}
  /\ ReadRow(w)
  /\ Goto(w, "stage")
  /\ UNCHANGED <<engineVars, callVars, staged, poolVars, result>>

\* Update of a missing table or key: an error, and the transaction rolls back.
BoltUpdateMissing(w) ==
  /\ pc[w] = "stage"
  /\ call[w].kind = "update"
  /\ snap[w] = NoRow
  /\ rwlock' = rwlock \ {w}
  /\ Return(w, "error")
  /\ Goto(w, "idle")
  /\ UNCHANGED <<engineVars, callVars, snap, seen, staged, poolVars>>

\* Update: decode, merge, encode into a buffer of the pool, bucket.Put.
BoltUpdate(w) ==
  /\ pc[w] = "stage"
  /\ call[w].kind = "update"
  /\ snap[w] # NoRow
  /\ EncodeAndSet(w, Merge(snap[w], call[w].fields, call[w].id), TRUE)
  /\ Goto(w, "release")
  /\ UNCHANGED <<engineVars, callVars, snap, seen, result, rwlock>>

BoltInsert(w) ==
  /\ pc[w] = "stage"
  /\ call[w].kind = "insert"
  /\ EncodeAndSet(w, Merge(EmptyRow, call[w].fields, call[w].id), TRUE)
  /\ Goto(w, "release")
  /\ UNCHANGED <<engineVars, callVars, snap, seen, result, rwlock>>

BoltDelete(w) ==
  /\ pc[w] = "stage"
  /\ call[w].kind = "delete"
  /\ SetTombstone(w)
  /\ Goto(w, "release")
  /\ UNCHANGED <<engineVars, callVars, snap, seen, result, rwlock>>

\* The deferred bufPool.Put of the callback.
BoltRelease(w) ==
  /\ pc[w] = "release"
  /\ PutBuffer(w)
  /\ Goto(w, "commit")
  /\ UNCHANGED <<engineVars, callVars, snap, seen, staged, result, rwlock>>

\* The commit writes the referenced slices, or fails on I/O and rolls back.
BoltCommit(w) ==
  /\ pc[w] = "commit"
  /\ \/ Install(w, StagedRow(w)) /\ Return(w, "nil")
     \/ UNCHANGED engineVars /\ Return(w, "error")
  /\ rwlock' = rwlock \ {w}
  /\ Goto(w, "idle")
  /\ UNCHANGED <<callVars, snap, seen, staged, poolVars>>

BoltStep(w) ==
  \/ BoltBegin(w) \/ BoltUpdateMissing(w) \/ BoltUpdate(w) \/ BoltInsert(w) \/ BoltDelete(w)
  \/ BoltRelease(w) \/ BoltCommit(w)
=============================================================================
