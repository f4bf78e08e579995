------------------------------ MODULE SQLBatch ------------------------------
(***************************************************************************)
(* The statements of the MySQL and PostgreSQL adapters (db/mysql/db.go,    *)
(* db/pg/db.go).  A statement is atomic; it fails without an effect.       *)
(***************************************************************************)
EXTENDS BatchCalls

\* INSERT IGNORE: an existing record is left alone, and nil is returned.
MysqlInsert(row, vals) == IF row = NoRow THEN NewRow(vals) ELSE row

\* UPDATE ... SET the given fields WHERE the key matches.
MysqlUpdate(row, vals) == IF row = NoRow THEN NoRow ELSE Over(row, vals)

MysqlSingle(c, i, row) ==
  CASE c.kind = "insert" -> MysqlInsert(row, Vals(c, i))
    [] c.kind = "update" -> MysqlUpdate(row, Vals(c, i))
    [] c.kind = "delete" -> NoRow
    [] OTHER -> row

\* INSERT ... ON CONFLICT DO NOTHING.
PgInsert(row, vals) == IF row # NoRow THEN row ELSE NewRow(vals)

\* Mutant: the arguments are not in the order of the placeholders.
PgUpdateUnsorted(row, vals) ==
  IF row = NoRow THEN NoRow
  ELSE Over(row, [f \in DOMAIN vals |->
                    vals[CHOOSE g \in DOMAIN vals : g # f \/ DOMAIN vals = {f}]])

\* UPDATE ... SET the given fields, in the order of the sorted pairs.
PgUpdate(row, vals) == IF row # NoRow THEN Over(row, vals) ELSE NoRow

PgSingle(c, i, row) ==
  CASE c.kind = "insert" -> PgInsert(row, Vals(c, i))
    [] c.kind = "update" -> PgUpdate(row, Vals(c, i))
    [] c.kind = "delete" -> NoRow
    [] OTHER -> row

\* createTable of mysql drops the table for a load only, that of pg for every run
\* with dropdata.
MysqlCreateTable(dropData, doTransactions) ==
  IF dropData /\ ~doTransactions THEN EmptyTable ELSE LoadedTable

PgCreateTable(dropData) == IF dropData THEN EmptyTable ELSE LoadedTable

\* One statement for the whole call.
OneStatement(w, t, rs) ==
  /\ \/ /\ Store(w, t, Each(expect, call[w], Does(call[w], MysqlSingle)),
                 DOMAIN call[w].keys)
        /\ ReturnRows(w, "nil", rs)
     \/ Return(w, "error") /\ UNCHANGED <<tableVars, steady>>
  /\ UNCHANGED <<issueVars, readVars, next>>

\* NewFieldPairs: the pairs of a record sorted by field name.
SortedFields(F) == InOrder(F)

\* The record that the VALUES list of a BatchInsert gives: the columns are those
\* of the first record, the values those of record i, both sorted by field.
BatchInsertRow(c, i) ==
  LET cols == SortedFields(c.fields[1])
      mine == SortedFields(c.fields[i]) IN
  [f \in Fields |-> IF \E j \in DOMAIN cols : cols[j] = f
                    THEN <<c.id, mine[CHOOSE j \in DOMAIN cols : cols[j] = f]>>
                    ELSE Null]

\* BatchInsert of mysql: one INSERT IGNORE for all records; the values have to be as
\* many as the columns, which they are for the batches of the workload.
MysqlBatchInsert(w) ==
  LET c == call[w]
      ignore(d, i, row) == IF row = NoRow THEN BatchInsertRow(d, i) ELSE row IN
  /\ at[w] = "begin"
  /\ c.kind = "insert"
  /\ \A i \in DOMAIN c.fields : Cardinality(c.fields[i]) = Cardinality(c.fields[1])
  /\ OneStatement(w, Each(table, c, Does(c, ignore)), <<>>)

\* BatchDelete of mysql: DELETE ... WHERE YCSB_KEY IN the keys.
MysqlBatchDelete(w) ==
  LET c == call[w]
      drop(d, i, row) == NoRow IN
  /\ at[w] = "begin"
  /\ c.kind = "delete"
  /\ OneStatement(w, Each(table, c, Does(c, drop)), <<>>)

\* BatchRead of mysql: the rows that exist, each once.
MysqlBatchRead(w) ==
  LET found == {k \in Present(table) : \E i \in DOMAIN call[w].keys :
                                         call[w].keys[i] = k} IN
  /\ at[w] = "begin"
  /\ call[w].kind = "read"
  /\ \/ ReturnRows(w, "nil", SetToSeq({<<k, table[k]>> : k \in found}))
     \/ Return(w, "error")
  /\ UNCHANGED <<tableVars, steady, issueVars, readVars, next>>

\* BatchUpdate of mysql: one UPDATE for each record.
MysqlBatchUpdate(w) == call[w].kind = "update" /\ StatementLoop(w, MysqlSingle)

\* SELECT ... WHERE YCSB_KEY >= ? LIMIT ?, along the primary index.
MysqlScan(w) ==
  LET c == call[w] IN
  /\ at[w] = "begin"
  /\ c.kind = "scan"
  /\ \/ ReturnRows(w, "nil", FirstRows(table, c.keys[1], c.count))
     \/ Return(w, "error")
  /\ UNCHANGED <<tableVars, steady, issueVars, readVars, next>>

MysqlStep(w) ==
  \/ MysqlBatchInsert(w) \/ MysqlBatchDelete(w) \/ MysqlBatchRead(w)
  \/ MysqlBatchUpdate(w) \/ MysqlScan(w)

\* The same query in pg, which is free to return any of the rows.
PgScan(w) ==
  LET c == call[w]
      from == {k \in Present(table) : k >= c.keys[1]} IN
  /\ at[w] = "begin"
  /\ c.kind = "scan"
  /\ \/ \E S \in SUBSET from :
          /\ Cardinality(S) = c.count \/ (Cardinality(S) < c.count /\ S = from)
          /\ ReturnRows(w, "nil", SetToSeq({<<k, table[k]>> : k \in S}))
     \/ Return(w, "error")
  /\ UNCHANGED <<tableVars, steady, issueVars, readVars, next>>

\* pg has no batch calls: DbWrapper loops over its single ones and stops at the first
\* error; BatchRead returns no rows.
WrapperLoop(w) == call[w].kind # "scan" /\ StatementLoop(w, PgSingle)

PgStep(w) == PgScan(w) \/ WrapperLoop(w)
=============================================================================
