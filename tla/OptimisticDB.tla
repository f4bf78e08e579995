---------------------------- MODULE OptimisticDB ----------------------------
(***************************************************************************)
(* The two adapters on optimistic transactions that treat a missing row as *)
(* success: TiKV transactions (db/tikv/txn.go) and FoundationDB            *)
(* (db/foundationdb/db.go).  The engines are external.  A TiKV commit      *)
(* fails when the key was written since the transaction began.  A          *)
(* FoundationDB Transact runs its function again when a key that it read   *)
(* was written.  Both copy the value they are given.                       *)
(***************************************************************************)
EXTENDS RowStore

\* beginTxn, or the start of one run of the Transact function.
TxnBegin(w) ==
  /\ pc[w] = "begin"
  /\ ReadRow(w)
  /\ Goto(w, "stage")
  /\ UNCHANGED <<engineVars, callVars, staged, poolVars, result>>

\* Update of a key that is not there: nil.
TxnMissing(w) ==
  /\ pc[w] = "stage"
  /\ call[w].kind = "update"
  /\ snap[w] = NoRow
  /\ Return(w, "missing")
  /\ Goto(w, "idle")
  /\ UNCHANGED <<engineVars, callVars, snap, seen, staged, poolVars>>

\* The transaction does not start, or its Get fails.
TxnFails(w) ==
  /\ pc[w] = "begin"
  /\ Return(w, "error")
  /\ Goto(w, "idle")
  /\ UNCHANGED <<engineVars, callVars, snap, seen, staged, poolVars>>

\* The write of each kind of call: decode, merge, encode and set; encode and set;
\* delete.
StageWrite(w) ==
  /\ pc[w] = "stage"
  /\ \/ /\ call[w].kind = "update"
        /\ snap[w] # NoRow
        /\ EncodeAndSet(w, Merge(snap[w], call[w].fields, call[w].id), FALSE)
     \/ /\ call[w].kind = "insert"
        /\ EncodeAndSet(w, Merge(EmptyRow, call[w].fields, call[w].id), FALSE)
     \/ call[w].kind = "delete" /\ SetTombstone(w)
  /\ UNCHANGED <<engineVars, callVars, snap, seen, result>>

TikvStage(w) == engine = "tikv" /\ StageWrite(w) /\ Goto(w, "commit")

\* The function of an Update gives its buffer back before Transact commits.
FdbStage(w) ==
  /\ engine = "fdb"
  /\ StageWrite(w)
  /\ Goto(w, IF call[w].kind = "update" THEN "release" ELSE "commit")

TikvConflict(w) == version[call[w].key] # seen[w]

\* Mutant: the error of tx.Commit is dropped.
TikvCommitErrorDropped(w) ==
  /\ engine = "tikv"
  /\ pc[w] = "commit"
  /\ IF TikvConflict(w) THEN UNCHANGED engineVars ELSE Install(w, StagedRow(w))
  /\ Return(w, "nil")
  /\ PutBuffer(w)
  /\ Goto(w, "idle")
  /\ UNCHANGED <<callVars, snap, seen, staged>>

\* tx.Commit, whose error is the call's; then the deferred bufPool.Put.
TikvCommit(w) ==
  /\ engine = "tikv"
  /\ pc[w] = "commit"
  /\ \/ ~TikvConflict(w) /\ Install(w, StagedRow(w)) /\ Return(w, "nil")
     \/ UNCHANGED engineVars /\ Return(w, "error")
  /\ PutBuffer(w)
  /\ Goto(w, "idle")
  /\ UNCHANGED <<callVars, snap, seen, staged>>

\* The function's deferred bufPool.Put, before Transact commits.
FdbRelease(w) ==
  /\ engine = "fdb"
  /\ pc[w] = "release"
  /\ PutBuffer(w)
  /\ Goto(w, "commit")
  /\ UNCHANGED <<engineVars, callVars, snap, seen, staged, result>>

FdbConflict(w) ==
  call[w].kind = "update" /\ version[call[w].key] # seen[w]

\* The buffer of an Insert goes back when Transact is over, that of an Update
\* went back before the commit.
FdbPutBuffer(w) ==
  IF call[w].kind = "update" THEN UNCHANGED poolVars ELSE PutBuffer(w)

\* The commit of Transact: it starts over on a conflict, and returns an error
\* that cannot be retried.
FdbCommit(w) ==
  /\ engine = "fdb"
  /\ pc[w] = "commit"
  /\ IF FdbConflict(w)
     THEN Goto(w, "begin") /\ UNCHANGED <<engineVars, result, poolVars>>
     ELSE /\ \/ Install(w, StagedRow(w)) /\ Return(w, "nil")
             \/ UNCHANGED engineVars /\ Return(w, "error")
          /\ FdbPutBuffer(w)
          /\ Goto(w, "idle")
  /\ UNCHANGED <<callVars, snap, seen, staged>>

OptimisticStep(w) ==
  \/ TxnBegin(w) \/ TxnFails(w) \/ TxnMissing(w) \/ TikvStage(w) \/ FdbStage(w)
  \/ TikvCommit(w) \/ FdbRelease(w) \/ FdbCommit(w)
=============================================================================
