----------------------------- MODULE TikvBatch ------------------------------
(***************************************************************************)
(* The batch calls and scans of the TiKV adapters.                         *)
(*                                                                         *)
(* "tikv" (db/tikv/txn.go): a call is a transaction over the snapshot that *)
(* Begin takes; writes are buffered, and the commit fails when a written   *)
(* record has changed since.  "raw" (db/tikv/raw.go): BatchPut,            *)
(* BatchDelete and BatchGet send the records to their regions, which       *)
(* execute them one by one in any order; an error may come after any       *)
(* number of them.                                                         *)
(***************************************************************************)
EXTENDS BatchCalls

\* Both BatchInserts and both BatchUpdates encode the given values only, and
\* replace the record by them.
TikvBatchRow(c, i, row) == CASE c.kind \in {"insert", "update"} -> NewRow(Vals(c, i))
                             [] c.kind = "delete" -> NoRow
                             [] OTHER -> row

\* The single calls of the transaction adapter: Update merges into the record, and
\* leaves a missing one alone.
TxnSingle(c, i, row) ==
  IF c.kind = "update" THEN IF row = NoRow THEN NoRow ELSE Over(row, Vals(c, i))
                       ELSE TikvBatchRow(c, i, row)

\* Those of the raw adapter: Update makes a record of the values when there is none.
RawSingle(c, i, row) ==
  IF c.kind = "update" /\ row # NoRow THEN Over(row, Vals(c, i))
                                      ELSE TikvBatchRow(c, i, row)

TxnBegin(w) ==
  /\ at[w] = "begin"
  /\ \/ /\ snap' = [snap EXCEPT ![w] = [table |-> table, version |-> version]]
        /\ MoveTo(w, "run")
        /\ UNCHANGED returnVars
     \/ Return(w, "error") /\ UNCHANGED snap
  /\ UNCHANGED <<tableVars, steady, issueVars, out, page, skipped, retried, next>>

\* BatchRead takes every record from the snapshot; a Get that fails is taken for a
\* record that does not exist.
TxnBatchRead(w) ==
  LET c == call[w]
      row(F, i) == IF i \in F THEN NoRow ELSE snap[w].table[c.keys[i]] IN
  /\ at[w] = "run"
  /\ c.kind = "read"
  /\ \E F \in SUBSET DOMAIN c.keys :
       ReturnRows(w, "nil", [i \in DOMAIN c.keys |-> <<c.keys[i], row(F, i)>>])
  /\ UNCHANGED <<tableVars, steady, issueVars, readVars, next>>

\* Scan iterates over the snapshot; an error of Iter, Next or Commit is returned.
TxnScan(w) ==
  LET c == call[w] IN
  /\ at[w] = "run"
  /\ c.kind = "scan"
  /\ \/ ReturnRows(w, "nil", FirstRows(snap[w].table, c.keys[1], c.count))
     \/ Return(w, "error")
  /\ UNCHANGED <<tableVars, steady, issueVars, readVars, next>>

\* TiKV's check of a commit (external).
TxnConflict(w) ==
  \E i \in DOMAIN call[w].keys :
    version[call[w].keys[i]] # snap[w].version[call[w].keys[i]]

\* BatchInsert, BatchUpdate and BatchDelete: the buffered writes are committed
\* together, or dropped.
TxnBatchWrite(w) ==
  /\ at[w] = "run"
  /\ call[w].kind \in {"insert", "update", "delete"}
  /\ \/ /\ ~TxnConflict(w)
        /\ Store(w, Each(table, call[w], Does(call[w], TikvBatchRow)),
                 Each(expect, call[w], Does(call[w], TxnSingle)), DOMAIN call[w].keys)
        /\ Return(w, "nil")
     \/ Return(w, "error") /\ UNCHANGED <<tableVars, steady>>
  /\ UNCHANGED <<issueVars, readVars, next>>

\* One record of a raw batch is executed by its region: the second of two records
\* with one key after the first.
RawExecute(w) ==
  LET c == call[w] IN
  /\ at[w] = "begin"
  /\ c.kind \in {"insert", "update", "delete"}
  /\ \E i \in DOMAIN c.keys :
       /\ done[c.id][i] = 0
       /\ \A j \in 1 .. i - 1 : c.keys[j] = c.keys[i] => done[c.id][j] > 0
       /\ Store(w, [table EXCEPT ![c.keys[i]] = TikvBatchRow(c, i, @)],
                [expect EXCEPT ![c.keys[i]] = RawSingle(c, i, @)], {i})
  /\ UNCHANGED <<issueVars, readVars, returnVars, next, at>>

RawBatchWrite(w) ==
  LET c == call[w] IN
  /\ at[w] = "begin"
  /\ c.kind \in {"insert", "update", "delete"}
  /\ \/ /\ \A i \in DOMAIN c.keys : done[c.id][i] > 0
        /\ Return(w, "nil")
     \/ Return(w, "error")
  /\ UNCHANGED <<tableVars, steady, issueVars, readVars, next>>

\* BatchGet answers in the order of the keys, each record read by its region.
RawBatchRead(w) ==
  LET c == call[w]
      k == c.keys[next[w]] IN
  /\ at[w] = "begin"
  /\ c.kind = "read"
  /\ \/ /\ next[w] \in DOMAIN c.keys
        /\ out' = [out EXCEPT ![w] = Append(@, <<k, table[k]>>)]
        /\ next' = [next EXCEPT ![w] = @ + 1]
        /\ UNCHANGED <<returnVars, at>>
     \/ /\ \/ next[w] \notin DOMAIN c.keys /\ ReturnRows(w, "nil", out[w])
           \/ Return(w, "error")
        /\ UNCHANGED <<out, next>>
  /\ UNCHANGED <<tableVars, steady, issueVars, snap, page, skipped, retried>>

RawScan(w) ==
  LET c == call[w] IN
  /\ at[w] = "begin"
  /\ c.kind = "scan"
  /\ \/ ReturnRows(w, "nil", FirstRows(table, c.keys[1], c.count))
     \/ Return(w, "error")
  /\ UNCHANGED <<tableVars, steady, issueVars, readVars, next>>

TxnStep(w) == TxnBegin(w) \/ TxnBatchRead(w) \/ TxnScan(w) \/ TxnBatchWrite(w)

RawStep(w) == RawExecute(w) \/ RawBatchWrite(w) \/ RawBatchRead(w) \/ RawScan(w)
=============================================================================
