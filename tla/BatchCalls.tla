----------------------------- MODULE BatchCalls -----------------------------
(***************************************************************************)
(* Calls of the database layer that touch several records: BatchInsert,    *)
(* BatchRead, BatchUpdate, BatchDelete and Scan, made by concurrent        *)
(* workers.  This module has what the adapters share: the table, the       *)
(* calls, the loop of pkg/client/dbwrapper.go for adapters without batch   *)
(* calls, and the properties.  Each adapter's module says which statements *)
(* a call becomes, what happens between them and what an error leaves.     *)
(*                                                                         *)
(* A value is <<call, field>>: the call that wrote it and the field it was *)
(* built for.                                                              *)
(***************************************************************************)
EXTENDS Integers, FiniteSets, Sequences, SequencesExt

CONSTANTS Callers,    \* the worker goroutines
          NumKeys,    \* the record keys are 1 .. NumKeys
          Fields,     \* the field names, numbered in their order
          Batches,    \* the batches: the keys of the records and their fields
          Loaded,     \* the keys that an earlier load inserted
          MaxScan,    \* bound on the count of a Scan
          MaxCalls,   \* bound on the calls of a behaviour
          NoRow,      \* no record under the key
          Null        \* the field has no value

Keys == 1 .. NumKeys
Calls == 1 .. MaxCalls
SQLEngines == {"mysql", "pg", "sqlite"}
BatchEngines == SQLEngines \cup {"tikv", "raw", "s3"}

Values == (0 .. MaxCalls) \X Fields
Rows == [Fields -> Values \cup {Null}]
AnyRow == Rows \cup {NoRow}
RowList == Seq(Keys \X AnyRow)

ASSUME BatchAssumption ==
  /\ {NumKeys, MaxCalls, MaxScan} \subseteq Nat
  /\ Fields \subseteq Nat /\ IsFiniteSet(Fields)
  /\ Loaded \subseteq Keys
  /\ Null \notin Values /\ NoRow \notin Rows
  /\ \A b \in Batches : /\ b.keys \in Seq(Keys) /\ b.keys # <<>>
                        /\ b.fields \in [DOMAIN b.keys -> SUBSET Fields]

VARIABLES engine,   \* the adapter of this run
          options,  \* s3.update_overwrite, s3.scan_keys_only, sqlite.optimistic
          table,    \* the records
          version,  \* how often each record was written
          expect,   \* the records if every batch were a loop of single calls
          issued,   \* number of calls made
          at,       \* program point of each worker
          call,     \* the call each worker makes
          next,     \* the record of the call that is next
          snap,     \* what the call's transaction or read has seen: rows and versions
          out,      \* the rows collected: pairs of a key and a row
          page,     \* s3: the listed keys still to read
          steady,   \* the records present since the call began (history)
          absent,   \* Scan: the records missing since the call began (history)
          skipped,  \* the records whose read failed (history)
          retried,  \* the transaction of the call was run again (history)
          done,     \* how often each record of each write was executed (history)
          result,   \* how each call returned
          rows      \* the rows each call returned

tableVars == <<table, version, expect, done, absent>>
issueVars == <<issued, call>>
readVars == <<snap, out, page, skipped, retried>>
returnVars == <<result, rows>>
batchVars == <<tableVars, issueVars, readVars, returnVars, at, next, steady>>

\* The values of record i of a call.
Vals(c, i) == [f \in c.fields[i] |-> <<c.id, f>>]

Over(row, vals) == [f \in Fields |-> IF f \in DOMAIN vals THEN vals[f] ELSE row[f]]

NewRow(vals) == Over([f \in Fields |-> Null], vals)

LoadedTable ==
  [k \in Keys |-> IF k \in Loaded THEN [f \in Fields |-> <<0, f>>] ELSE NoRow]

EmptyTable == [k \in Keys |-> NoRow]

Present(t) == {k \in Keys : t[k] # NoRow}

\* What the records of a call do to a row.
Does(c, Single(_, _, _)) ==
  [i \in DOMAIN c.keys |-> [row \in AnyRow |-> Single(c, i, row)]]

\* The tables after the first n records of a call were done to table t in order.
After(t, c, does) ==
  LET after[n \in 0 .. Len(c.keys)] ==
        IF n = 0 THEN t ELSE [after[n - 1] EXCEPT ![c.keys[n]] = does[n][@]]
  IN after

Each(t, c, does) == After(t, c, does)[Len(c.keys)]

MoveTo(w, point) == at' = [at EXCEPT ![w] = point]

NoCall == [id |-> 0, kind |-> "none", keys |-> <<>>, fields |-> <<>>, count |-> 0]

BatchInit(t) ==
  /\ table = t
  /\ expect = t
  /\ version = [k \in Keys |-> 0]
  /\ issued = 0
  /\ at = [w \in Callers |-> "idle"]
  /\ call = [w \in Callers |-> NoCall]
  /\ next = [w \in Callers |-> 1]
  /\ snap = [w \in Callers |-> [table |-> EmptyTable, version |-> version]]
  /\ out = [w \in Callers |-> <<>>]
  /\ page = [w \in Callers |-> <<>>]
  /\ steady = [w \in Callers |-> {}]
  /\ absent = [w \in Callers |-> {}]
  /\ skipped = [w \in Callers |-> {}]
  /\ retried = [w \in Callers |-> FALSE]
  /\ done = [id \in Calls |-> <<>>]
  /\ result = [id \in Calls |-> "none"]
  /\ rows = [id \in Calls |-> <<>>]

\* The workload makes a call of several records, or a Scan.  The
\* records of an insert or update have all fields, or with writeallfields off one each.
MakeCall(w, kind) ==
  /\ at[w] = "idle"
  /\ issued < MaxCalls
  /\ issued' = issued + 1
  /\ \/ /\ kind = "scan"
        /\ \E k \in Keys, n \in 1 .. MaxScan :
             call' = [call EXCEPT ![w] = [id |-> issued', kind |-> kind,
                        keys |-> <<k>>, fields |-> <<>>, count |-> n]]
     \/ /\ kind # "scan"
        /\ \E b \in Batches :
             call' = [call EXCEPT ![w] = [id |-> issued', kind |-> kind, keys |-> b.keys,
                        fields |-> IF kind \in {"insert", "update"} THEN b.fields
                                                                    ELSE <<>>,
                        count |-> 0]]
  /\ next' = [next EXCEPT ![w] = 1]
  /\ out' = [out EXCEPT ![w] = <<>>]
  /\ skipped' = [skipped EXCEPT ![w] = {}]
  /\ retried' = [retried EXCEPT ![w] = FALSE]
  /\ steady' = [steady EXCEPT ![w] = Present(table)]
  /\ absent' = [absent EXCEPT ![w] = IF kind = "scan" THEN Keys \ Present(table)
                                                    ELSE {}]
  /\ done' = [done EXCEPT ![issued'] = IF kind \in {"read", "scan"} THEN <<>>
                                       ELSE [i \in DOMAIN call'[w].keys |-> 0]]
  /\ MoveTo(w, "begin")
  /\ UNCHANGED <<table, version, expect, snap, page, returnVars>>

\* The database writes table t: the records S of the call took effect.  The adapter's
\* calls for single records would have made e of the expected records.
Store(w, t, e, S) ==
  LET c == call[w] IN
  /\ table' = t
  /\ expect' = e
  /\ version' = [k \in Keys |-> IF c.kind # "read" /\ \E i \in S : c.keys[i] = k
                                THEN version[k] + 1 ELSE version[k]]
  /\ done' = [done EXCEPT ![c.id] = [i \in DOMAIN @ |->
                 IF i \in S THEN @[i] + 1 ELSE @[i]]]
  /\ steady' = [v \in Callers |-> steady[v] \cap Present(t)]
  /\ absent' = [v \in Callers |-> absent[v] \ Present(t)]

ReturnRows(w, r, rs) ==
  /\ result' = [result EXCEPT ![call[w].id] = r]
  /\ rows' = [rows EXCEPT ![call[w].id] = rs]
  /\ MoveTo(w, "idle")

Return(w, r) == ReturnRows(w, r, <<>>)

\* One record of a call that is executed record by record, as one statement of
\* its own; an error ends the call.
StatementLoop(w, Single(_, _, _)) ==
  LET c == call[w]
      i == next[w]
      k == c.keys[i] IN
  /\ at[w] = "begin"
  /\ \/ /\ i \in DOMAIN c.keys
        /\ Store(w, [table EXCEPT ![k] = Single(c, i, @)],
                 [expect EXCEPT ![k] = Single(c, i, @)], {i})
        /\ next' = [next EXCEPT ![w] = i + 1]
        /\ UNCHANGED <<returnVars, at>>
     \/ /\ Return(w, IF i \in DOMAIN c.keys THEN "error" ELSE "nil")
        /\ UNCHANGED <<tableVars, steady, next>>
  /\ UNCHANGED <<issueVars, readVars>>

\* The numbers of a finite set in increasing order.
InOrder(S) ==
  CHOOSE s \in [1 .. Cardinality(S) -> S] :
    \A i, j \in 1 .. Cardinality(S) : i < j => s[i] < s[j]

\* The rows that a query for count rows from a key on finds in key order.
FirstRows(t, start, count) ==
  LET ks == InOrder({k \in Present(t) : k >= start}) IN
  [i \in 1 .. (IF Len(ks) < count THEN Len(ks) ELSE count) |-> <<ks[i], t[ks[i]]>>]
-----------------------------------------------------------------------------
(* Properties. *)

\* Types of the table, the calls and what they return.
BatchTypeOK ==
  /\ engine \in BatchEngines
  /\ {table, expect} \subseteq [Keys -> AnyRow]
  /\ version \in [Keys -> Nat]
  /\ at \in [Callers -> {"idle", "begin", "run", "commit", "list", "item",
                         "merge"}]
  /\ next \in [Callers -> Nat \ {0}]
  /\ \A w \in Callers : out[w] \in RowList /\ page[w] \in Seq(Keys)
  /\ done \in [Calls -> Seq(0 .. 1)]
  /\ result \in [Calls -> {"none", "nil", "error"}]
  /\ \A id \in Calls : rows[id] \in RowList

\* Types, and a write that returned nil executed each of its records, one that returned
\* an error executed none of them (the transactions of sqlite and TiKV), or some first
\* ones (loops of statements and objects, which stop at the record that failed; mysql's
\* one statement, which executes none), or any of them (TiKV's raw batches).
ErrorLeavesPrefix ==
  /\ BatchTypeOK
  /\ \A id \in Calls :
       LET D == {i \in DOMAIN done[id] : done[id][i] > 0} IN
       /\ result[id] = "nil" => D = DOMAIN done[id]
       /\ result[id] = "error" /\ engine \in {"sqlite", "tikv"} => D = {}
       /\ engine # "raw" => \A i \in D, j \in DOMAIN done[id] : j < i => j \in D

\* The records are what a loop of the adapter's own single calls would have left.
BatchLikeSingles == table = expect

\* Every value is stored in the field it was built for: ycsb.DB says of an Insert "Any
\* field/value pairs will be written into the database" (pkg/ycsb/db.go:60-61).
ValuesUnderOwnField ==
  \A k \in Present(table), f \in Fields :
    table[k][f] # Null => table[k][f][2] = f

\* BatchLikeSingles, as far as the adapters have it.  TiKV's BatchUpdates replace the row
\* (txn.go:232-241, raw.go:149-157), the columns of mysql's BatchInsert are those of the
\* first record (mysql/db.go:451-475), and the reads and writes of s3's updates that
\* merge (s3/db.go:276-286) may overlap.  But for mysql's BatchInsert, values are in
\* the fields they were built for.
BatchLikeSinglesByAdapter ==
  /\ engine \in {"pg", "sqlite"} \/ (engine = "s3" /\ options.overwrite) =>
       BatchLikeSingles
  /\ engine # "mysql" => ValuesUnderOwnField

\* BatchRead of sqlite, TiKV and s3 returns one row for each key, in order, when it
\* returns nil.  sqlite is excepted when its transaction was run again: the rows of
\* the first run are still in the result (sqlite/db.go:358-369).
ReadsAligned ==
  \A w \in Callers :
    LET id == call[w].id IN
    /\ at[w] = "idle" /\ call[w].kind = "read"
    /\ result[id] = "nil" /\ engine \in {"sqlite", "tikv", "raw", "s3"}
    /\ ~(engine = "sqlite" /\ retried[w])
    => [i \in DOMAIN rows[id] |-> rows[id][i][1]] = call[w].keys

\* The start key that s3 returns without a look at the object when s3.scan_keys_only
\* is set (s3/db.go:190-192), though a comment has it included "if it exists" (188).
UncheckedStart(w, k) == engine = "s3" /\ options.keysOnly /\ k = call[w].keys[1]

\* A Scan returns at most count records, in key order, none twice and none before
\* the start key; no record is passed over: one that was there during the whole
\* Scan is returned unless the count was reached first or reading it failed; and none
\* is made up: a record that never existed during the Scan is not returned.  Excepted
\* are pg from the order, since its query has no ORDER BY (pg/db.go:264), and from the
\* last clause the start key of an s3 Scan of keys only, which is returned unchecked and
\* takes the place of a record that exists when the count is reached.
ScanExact ==
  \A w \in Callers :
    LET c == call[w]
        ks == [i \in DOMAIN rows[c.id] |-> rows[c.id][i][1]] IN
    at[w] = "idle" /\ c.kind = "scan" /\ result[c.id] = "nil" =>
      /\ Len(ks) <= c.count
      /\ \A i \in DOMAIN ks : ks[i] >= c.keys[1]
      /\ Cardinality({ks[i] : i \in DOMAIN ks}) = Len(ks)
      /\ \A i \in DOMAIN ks : ks[i] \in absent[w] => UncheckedStart(w, ks[i])
      /\ engine # "pg" =>
           /\ \A i \in 2 .. Len(ks) : ks[i - 1] < ks[i]
           /\ \A k \in steady[w] \ skipped[w] :
                /\ k >= c.keys[1]
                /\ Len(ks) < c.count \/ k < ks[Len(ks)]
                => \E i \in DOMAIN ks : ks[i] = k
=============================================================================
