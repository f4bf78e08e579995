---------------------------- MODULE SqliteBatch -----------------------------
(***************************************************************************)
(* The SQLite adapter (db/sqlite/db.go): every call runs in a transaction  *)
(* (optimisticTx), which is run again when its commit finds the database   *)
(* busy and sqlite.optimistic is set.                                      *)
(*                                                                         *)
(* SQLite is external: a transaction reads a snapshot; one transaction at  *)
(* a time may have written, and only on the latest state, else its write   *)
(* fails; a commit may fail as busy, which rolls the transaction back.     *)
(***************************************************************************)
EXTENDS BatchCalls

CONSTANTS SqliteConns  \* sqlite.maxopenconns

InTx(w) == at[w] \in {"run", "commit"}

IsWrite(w) == call[w].kind \in {"insert", "update", "delete"}

HoldsWriteLock(w) == InTx(w) /\ IsWrite(w) /\ next[w] > 1

\* INSERT OR IGNORE.
SqliteInsert(row, vals) == IF row = NoRow THEN NewRow(vals) ELSE row

SqliteUpdate(row, vals) == IF row = NoRow THEN row ELSE Over(row, vals)

SqliteSingle(c, i, row) ==
  CASE c.kind = "insert" -> SqliteInsert(row, Vals(c, i))
    [] c.kind = "update" -> SqliteUpdate(row, Vals(c, i))
    [] c.kind = "delete" -> NoRow
    [] OTHER -> row

\* Create removes the database file when dropdata is set.
SqliteCreate(dropData) == IF dropData THEN EmptyTable ELSE LoadedTable

\* BeginTx waits for a connection of the pool; its error is returned.
SqliteBegin(w) ==
  /\ at[w] = "begin"
  /\ \/ /\ Cardinality({v \in Callers : InTx(v)}) < SqliteConns
        /\ snap' = [snap EXCEPT ![w] = [table |-> table, version |-> version]]
        /\ next' = [next EXCEPT ![w] = 1]
        /\ MoveTo(w, "run")
        /\ UNCHANGED returnVars
     \/ Return(w, "error") /\ UNCHANGED <<snap, next>>
  /\ UNCHANGED <<tableVars, steady, issueVars, out, page, skipped, retried>>

\* Mutant: every record gets the values of the first.
SqliteWriteFirstValues(w) ==
  LET c == call[w]
      i == next[w] IN
  /\ at[w] = "run"
  /\ IsWrite(w)
  /\ i \in DOMAIN c.keys
  /\ i = 1 => /\ \A v \in Callers : ~HoldsWriteLock(v)
              /\ snap[w].version = version
  /\ snap' = [snap EXCEPT ![w].table[c.keys[i]] = SqliteSingle(c, 1, @)]
  /\ next' = [next EXCEPT ![w] = i + 1]
  /\ UNCHANGED <<tableVars, steady, issueVars, out, page, skipped, retried,
                 returnVars, at>>

\* doInsert, doUpdate or doDelete of the next record, inside the transaction.
SqliteWrite(w) ==
  LET c == call[w]
      i == next[w] IN
  /\ at[w] = "run"
  /\ IsWrite(w)
  /\ i \in DOMAIN c.keys
  /\ i = 1 => /\ \A v \in Callers : ~HoldsWriteLock(v)
              /\ snap[w].version = version
  /\ snap' = [snap EXCEPT ![w].table[c.keys[i]] = SqliteSingle(c, i, @)]
  /\ next' = [next EXCEPT ![w] = i + 1]
  /\ UNCHANGED <<tableVars, steady, issueVars, out, page, skipped, retried,
                 returnVars, at>>

\* doRead of the next record: BatchRead appends to the output that all runs of the
\* transaction share.
SqliteRead(w) ==
  LET c == call[w]
      i == next[w] IN
  /\ at[w] = "run"
  /\ c.kind = "read"
  /\ i \in DOMAIN c.keys
  /\ out' = [out EXCEPT ![w] = Append(@, <<c.keys[i], snap[w].table[c.keys[i]]>>)]
  /\ next' = [next EXCEPT ![w] = i + 1]
  /\ UNCHANGED <<tableVars, steady, issueVars, snap, page, skipped, retried,
                 returnVars, at>>

\* doScan: the output is assigned.
SqliteScan(w) ==
  LET c == call[w] IN
  /\ at[w] = "run"
  /\ c.kind = "scan"
  /\ next[w] = 1
  /\ out' = [out EXCEPT ![w] = FirstRows(snap[w].table, c.keys[1], c.count)]
  /\ next' = [next EXCEPT ![w] = 2]
  /\ UNCHANGED <<tableVars, steady, issueVars, snap, page, skipped, retried,
                 returnVars, at>>

\* A statement of the transaction fails: it is rolled back, and not run again.
SqliteRollback(w) ==
  /\ at[w] = "run"
  /\ Return(w, "error")
  /\ UNCHANGED <<tableVars, steady, issueVars, readVars, next>>

SqliteFnDone(w) ==
  /\ at[w] = "run"
  /\ next[w] > Len(call[w].keys)
  /\ MoveTo(w, "commit")
  /\ UNCHANGED <<tableVars, steady, issueVars, readVars, returnVars, next>>

\* The transaction takes effect.
Committed(w) ==
  Store(w, snap[w].table, Each(expect, call[w], Does(call[w], SqliteSingle)),
        DOMAIN call[w].keys)

\* Mutant: a busy commit is taken for a success.
SqliteCommitBusyIsNil(w) ==
  /\ at[w] = "commit"
  /\ \/ Committed(w)
     \/ UNCHANGED <<tableVars, steady>>
  /\ ReturnRows(w, "nil", out[w])
  /\ UNCHANGED <<issueVars, readVars, next>>

\* Mutant: the commit is repeated without its transaction, on the new state.
SqliteRetryStale(w) ==
  /\ at[w] = "commit"
  /\ Committed(w)
  /\ \/ ReturnRows(w, "nil", out[w]) /\ UNCHANGED retried
     \/ /\ ~retried[w] /\ retried' = [retried EXCEPT ![w] = TRUE]
        /\ UNCHANGED <<at, returnVars>>
  /\ UNCHANGED <<issueVars, snap, out, page, skipped, next>>

\* tx.Commit.
SqliteCommit(w) ==
  /\ at[w] = "commit"
  /\ IF IsWrite(w) THEN Committed(w) ELSE UNCHANGED <<tableVars, steady>>
  /\ ReturnRows(w, "nil", out[w])
  /\ UNCHANGED <<issueVars, readVars, next>>

\* tx.Commit fails: busy, with sqlite.optimistic, runs the transaction again (at
\* most once, a bound), anything else is returned.
SqliteCommitFails(w) ==
  /\ at[w] = "commit"
  /\ \/ /\ options.optimistic
        /\ ~retried[w]
        /\ retried' = [retried EXCEPT ![w] = TRUE]
        /\ MoveTo(w, "begin")
        /\ UNCHANGED returnVars
     \/ Return(w, "error") /\ UNCHANGED retried
  /\ UNCHANGED <<tableVars, steady, issueVars, snap, out, page, skipped, next>>

SqliteStep(w) ==
  \/ SqliteBegin(w) \/ SqliteWrite(w) \/ SqliteRead(w) \/ SqliteScan(w)
  \/ SqliteRollback(w) \/ SqliteFnDone(w) \/ SqliteCommit(w)
  \/ SqliteCommitFails(w)
=============================================================================
