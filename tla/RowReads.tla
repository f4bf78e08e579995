------------------------------ MODULE RowReads ------------------------------
(***************************************************************************)
(* What a worker gets back of what was written: the values that the core   *)
(* workload builds in buffers of its pool (pkg/workload/core.go), the row  *)
(* codec (pkg/util/core.go, row.go), Read and Scan of the key-value        *)
(* adapters, and the check of the values with dataintegrity=true.  The     *)
(* updates' own interleavings are in KVAdapters: here a write is one step. *)
(*                                                                         *)
(* A deterministic value is its key and its field.                         *)
(***************************************************************************)
EXTENDS Integers, Sequences, FiniteSets, FiniteSetsExt, SequencesExt

CONSTANTS Workers,     \* the worker goroutines
          Keys,        \* the keys, integers in their order
          FieldNames,  \* the field names, in the order of their indices
          Buffers,     \* the buffers that the value pool hands out
          Adapters,    \* the adapters to choose from
          MaxOps,      \* bound on the operations
          MaxScan,     \* bound on the length of a scan
          NoRow        \* no record under the key

CodecAdapters == {"badger", "boltdb", "rocksdb", "tikv", "raw", "fdb"}
RedisAdapters == {"redisString", "redisHash", "redisJson"}

ASSUME ReadsAssumption ==
  /\ IsFiniteSet(Workers)
  /\ IsFiniteSet(Keys) /\ Keys \subseteq Int
  /\ FieldNames \in Seq({FieldNames[i] : i \in DOMAIN FieldNames})
  /\ {MaxOps, MaxScan} \subseteq Nat
  /\ Adapters \subseteq CodecAdapters \cup RedisAdapters \cup {"etcd", "pegasus", "aerospike"}

VARIABLES adapter,  \* the adapter of this process
          varying,  \* the value lengths vary: mixgraph.gpd_value
          all,      \* readallfields and writeallfields
          table,    \* the stored records
          commits,  \* the writes so far
          ops,      \* the operations so far
          free,     \* the buffers that no worker holds
          content,  \* what each buffer holds
          pc,       \* program point of each worker
          op,       \* its operation
          values,   \* the buffers of the values it writes
          got,      \* the record that its Read returned, and of which commit
          rows,     \* the records that its Scan returned, and the ones it should have
          verdict   \* what verifyRow said

settings == <<adapter, varying, all>>
storeVars == <<table, commits>>
poolVars == <<free, content, values>>
workerVars == <<pc, op, got, rows, verdict>>
vars == <<settings, storeVars, ops, poolVars, workerVars>>

Fields == {FieldNames[i] : i \in DOMAIN FieldNames}
-----------------------------------------------------------------------------
(* The row codec. *)

createFieldIndices == [f \in Fields |-> (CHOOSE i \in DOMAIN FieldNames : FieldNames[i] = f) - 1]

EncodeRow(cols, colIDs) == [i \in DOMAIN cols |-> [id |-> colIDs[i], value |-> cols[i]]]

\* Mutant: the column ids are in the order of the fields, the columns in that of the map.
EncodeUnpaired(vals, order) ==
  LET ids == SelectSeq(FieldNames, LAMBDA f : f \in DOMAIN vals) IN
  EncodeRow([i \in DOMAIN order |-> vals[order[i]]],
            [i \in DOMAIN order |-> createFieldIndices[ids[i]]])

\* The values in the order in which the map gives them.
Encode(vals, order) ==
  EncodeRow([i \in DOMAIN order |-> vals[order[i]]],
            [i \in DOMAIN order |-> createFieldIndices[order[i]]])

DecodeRow(b) ==
  [id \in {b[i].id : i \in DOMAIN b} |-> b[Max({i \in DOMAIN b : b[i].id = id})].value]

\* The fields asked for that the row has; none asked for are all of them.
Decode(row, fields) ==
  LET data == DecodeRow(row) IN
  [f \in {g \in IF fields = {} THEN Fields ELSE fields :
            createFieldIndices[g] \in DOMAIN data} |-> data[createFieldIndices[f]]]
-----------------------------------------------------------------------------
(* Stored records. *)

\* buildDeterministicValue.
Value(k, f) == [key |-> k, field |-> f, form |-> "plain"]

\* What the adapter stores of a value: the document of redis's JSON type is marshalled as
\* a whole, which encodes the bytes in base64, while an update sends them as they are.
StoredForm(kind, v) ==
  IF adapter = "redisJson" /\ kind = "insert" THEN [v EXCEPT !.form = "base64"] ELSE v

\* JSON.GET of a path gives an array of the matches, not the value.
JsonForm(v) == [v EXCEPT !.form = "array"]

\* The fields of a stored record.
Parse(record) ==
  IF adapter \in CodecAdapters THEN Decode(record, {}) ELSE record

\* The stored forms of a row: the codec depends on the order of the map.
Formats(row) ==
  IF adapter \in CodecAdapters
  THEN {Encode(row, order) : order \in SetToSeqs(DOMAIN row)} ELSE {row}

\* The row that a write leaves: etcd and pegasus replace it.
Written(old, kind, new) ==
  IF kind = "insert" \/ old = NoRow \/ adapter \in {"etcd", "pegasus"} THEN new
  ELSE [f \in DOMAIN old \cup DOMAIN new |-> IF f \in DOMAIN new THEN new[f] ELSE old[f]]

NeedsRow == {"badger", "boltdb", "tikv", "fdb", "redisString", "redisJson"}

\* An update that writes a record although there is none: that of redis's string type
\* does when it has every field, since it does not read the old record then.
WritesMissing(new) ==
  adapter \notin NeedsRow \/ (adapter = "redisString" /\ DOMAIN new = Fields)

Here(k) == IF table[k] = NoRow THEN NoRow ELSE Parse(table[k])
-----------------------------------------------------------------------------
(* Read and Scan of the adapters.  A result is a row, or an error. *)

Error == [error |-> TRUE, row |-> NoRow]
Ok(row) == [error |-> FALSE, row |-> row]

EmptyRow == [f \in {} |-> 0]

Only(row, fields) == [f \in DOMAIN row \cap fields |-> row[f]]

OrEmpty(row, fields) == IF row = NoRow THEN EmptyRow ELSE Only(row, fields)

OrError(row, fields) == IF row = NoRow THEN Error ELSE Ok(Only(row, fields))

\* A key without a record is an error, or a row without values.
BadgerRead(row, fields) == OrError(row, fields)

BoltRead(row, fields) == OrError(row, fields)

RocksRead(row, fields) == Ok(OrEmpty(row, fields))

TxnRead(row, fields) == Ok(OrEmpty(row, fields))

RawRead(row, fields) == Ok(OrEmpty(row, fields))

FdbRead(row, fields) == Ok(OrEmpty(row, fields))

\* etcd, aerospike and redis's string type give all fields.
EtcdRead(row) == OrError(row, Fields)

AerospikeRead(row) == Ok(OrEmpty(row, Fields))

StringRead(row) == OrError(row, Fields)

\* A field that the hash lacks is a nil in the reply, which is no string: no value is kept.
HashRead(row, fields) ==
  Ok(IF row # NoRow /\ fields \subseteq DOMAIN row THEN Only(row, fields) ELSE EmptyRow)

JsonRead(row, fields) ==
  IF row = NoRow THEN Error ELSE Ok([f \in DOMAIN row \cap fields |-> JsonForm(row[f])])

\* pegasus decodes into a map that is not there, and ignores the error.
PegasusRead == Ok(EmptyRow)

\* Mutant: the error of a failed read is dropped.
ReadFailsSilently == Ok(EmptyRow)

\* A read that fails: redis's hash type drops the error.
ReadFails == IF adapter = "redisHash" THEN Ok(EmptyRow) ELSE Error

ReadOf(row, fields) ==
  CASE adapter = "badger" -> BadgerRead(row, fields)
    [] adapter = "boltdb" -> BoltRead(row, fields)
    [] adapter = "rocksdb" -> RocksRead(row, fields)
    [] adapter = "tikv" -> TxnRead(row, fields)
    [] adapter = "raw" -> RawRead(row, fields)
    [] adapter = "fdb" -> FdbRead(row, fields)
    [] adapter = "etcd" -> EtcdRead(row)
    [] adapter = "aerospike" -> AerospikeRead(row)
    [] adapter = "redisString" -> StringRead(row)
    [] adapter = "redisHash" -> HashRead(row, fields)
    [] adapter = "redisJson" -> JsonRead(row, fields)
    [] adapter = "pegasus" -> PegasusRead

Reads(k, fields) == {ReadFails, ReadOf(Here(k), fields)}

\* The elements of a set in ascending order: the i-th has i - 1 before it.
Ascending(S) ==
  [i \in 1 .. Cardinality(S) |-> CHOOSE k \in S : Cardinality({j \in S : j < k}) = i - 1]

KeysFrom(k) == Ascending({j \in Keys : j >= k /\ table[j] # NoRow})

FirstOf(seq, n) == SubSeq(seq, 1, Min({n, Len(seq)}))

\* Mutant: the iterator is moved on before the first record is read.
ScannedExclusive(k, count) == FirstOf(KeysFrom(k + 1), count)

\* The keys that an iterator from k gives.
Scanned(k, count) == FirstOf(KeysFrom(k), count)

RowsOf(ks, fields) == [i \in DOMAIN ks |-> Only(Here(ks[i]), fields)]

Nils(n) == [i \in 1 .. n |-> NoRow]

\* The rows in a slice of the length asked for.
Padded(k, count, fields) ==
  LET found == RowsOf(Scanned(k, count), fields) IN found \o Nils(count - Len(found))

BadgerScan(k, count, fields) == Ok(Padded(k, count, fields))

BoltScan(k, count, fields) == Ok(Padded(k, count, fields))

RocksScan(k, count, fields) == Ok(Padded(k, count, fields))

TxnScan(k, count, fields) == Ok(RowsOf(Scanned(k, count), fields))

RawScan(k, count, fields) == Ok(RowsOf(Scanned(k, count), fields))

FdbScan(k, count, fields) == Ok(RowsOf(Scanned(k, count), fields))

\* etcd compares the length with the number of all keys from the start, and appends to a
\* slice that has that length already.
EtcdScan(k, count) ==
  IF Len(KeysFrom(k)) = count THEN Ok(Nils(count) \o RowsOf(KeysFrom(k), Fields)) ELSE Error

\* aerospike reads any records, wherever they are.
AerospikeScans(count, fields) ==
  {Ok(RowsOf(FirstOf(ks, count), fields)) : ks \in SetToSeqs({j \in Keys : table[j] # NoRow})}

RedisScan == Error

PegasusScan == Ok(<<>>)

Scans(k, count, fields) ==
  CASE adapter = "badger" -> {BadgerScan(k, count, fields)}
    [] adapter = "boltdb" -> {BoltScan(k, count, fields)}
    [] adapter = "rocksdb" -> {RocksScan(k, count, fields)}
    [] adapter = "tikv" -> {TxnScan(k, count, fields)}
    [] adapter = "raw" -> {RawScan(k, count, fields)}
    [] adapter = "fdb" -> {FdbScan(k, count, fields)}
    [] adapter = "etcd" -> {EtcdScan(k, count)}
    [] adapter = "aerospike" -> AerospikeScans(count, fields)
    [] adapter \in RedisAdapters -> {RedisScan}
    [] adapter = "pegasus" -> {PegasusScan}
-----------------------------------------------------------------------------
NoOp == [kind |-> "none", key |-> 0, fields |-> {}, count |-> 0]
NoRows == [result |-> Error, wanted |-> <<>>]
NoGot == [row |-> NoRow, there |-> FALSE, wanted |-> NoRow, commit |-> 0]

\* The record of a key after the load.
Loaded(k) ==
  LET row == [f \in Fields |-> StoredForm("insert", Value(k, f))] IN
  IF adapter \in CodecAdapters THEN Encode(row, FieldNames) ELSE row

Init ==
  /\ adapter \in Adapters
  /\ varying \in BOOLEAN
  /\ all \in [read : BOOLEAN, write : BOOLEAN]
  /\ \E loaded \in SUBSET Keys :
       table = [k \in Keys |-> IF k \in loaded THEN Loaded(k) ELSE NoRow]
  /\ commits = 0
  /\ ops = 0
  /\ free = Buffers
  /\ content = [b \in Buffers |-> NoRow]
  /\ pc = [w \in Workers |-> "idle"]
  /\ op = [w \in Workers |-> NoOp]
  /\ values = [w \in Workers |-> EmptyRow]
  /\ got = [w \in Workers |-> NoGot]
  /\ rows = [w \in Workers |-> NoRows]
  /\ verdict = [w \in Workers |-> "none"]

At(w, from, to) == pc[w] = from /\ pc' = [pc EXCEPT ![w] = to]

\* One field, or all of them.
FieldChoices(every) == IF every THEN {Fields} ELSE {{f} : f \in Fields}

\* buildValues, buildSingleValue: each value in a buffer of its own.
BuildValues(w, k, fields) ==
  \E bs \in [fields -> free] :
    /\ IsInjective(bs)
    /\ content' = [b \in Buffers |->
                     IF \E f \in fields : bs[f] = b
                     THEN Value(k, CHOOSE f \in fields : bs[f] = b) ELSE content[b]]
    /\ values' = [values EXCEPT ![w] = bs]
    /\ free' = free \ {bs[f] : f \in fields}

\* A worker begins an insert, an update or a read-modify-write: it builds the values.
StartWrite(w) ==
  /\ ops < MaxOps
  /\ ops' = ops + 1
  /\ \E kind \in {"insert", "update", "rmw"}, k \in Keys :
       /\ At(w, "idle", IF kind = "rmw" THEN "read" ELSE "write")
       /\ \E rf \in FieldChoices(all.read \/ kind # "rmw") :
            op' = [op EXCEPT ![w] = [kind |-> kind, key |-> k, fields |-> rf, count |-> 0]]
       /\ \E wf \in FieldChoices(all.write \/ kind = "insert") : BuildValues(w, k, wf)
  /\ UNCHANGED <<settings, storeVars, got, rows, verdict>>

\* A worker begins a read or a scan.
StartRead(w) ==
  /\ ops < MaxOps
  /\ ops' = ops + 1
  /\ \E kind \in {"read", "scan"}, k \in Keys, rf \in FieldChoices(all.read), n \in 1 .. MaxScan :
       /\ At(w, "idle", kind)
       /\ kind = "read" => n = 1
       /\ op' = [op EXCEPT ![w] = [kind |-> kind, key |-> k, fields |-> rf, count |-> n]]
  /\ UNCHANGED <<settings, storeVars, poolVars, got, rows, verdict>>

\* db.Read.  After an error nothing is written or verified.
Read(w) ==
  /\ pc[w] = "read"
  /\ \E r \in Reads(op[w].key, op[w].fields) :
       /\ pc' = [pc EXCEPT ![w] = IF r.error THEN "put"
                                  ELSE IF op[w].kind = "rmw" THEN "write" ELSE "verify"]
       /\ got' = [got EXCEPT ![w] =
                    [row |-> r.row, there |-> Here(op[w].key) # NoRow /\ ~r.error,
                     wanted |-> Here(op[w].key), commit |-> commits]]
  /\ UNCHANGED <<settings, storeVars, ops, poolVars, op, rows, verdict>>

\* db.Scan, whose result the workload drops.
Scan(w) ==
  /\ At(w, "scan", "put")
  /\ \E r \in Scans(op[w].key, op[w].count, op[w].fields) \cup {Error} :
       rows' = [rows EXCEPT ![w] =
         [result |-> r,
          wanted |-> RowsOf(FirstOf(KeysFrom(op[w].key), op[w].count),
                            IF adapter = "etcd" THEN Fields ELSE op[w].fields)]]
  /\ UNCHANGED <<settings, storeVars, ops, poolVars, op, got, verdict>>

\* db.Insert and db.Update: the values are taken from the buffers, or nothing is written.
Write(w) ==
  LET k == op[w].key
      kind == IF op[w].kind = "insert" THEN "insert" ELSE "update"
      new == [f \in DOMAIN values[w] |-> StoredForm(kind, content[values[w][f]])] IN
  /\ pc[w] = "write"
  /\ \/ /\ kind = "insert" \/ table[k] # NoRow \/ WritesMissing(new)
        /\ \E record \in Formats(Written(Here(k), kind, new)) :
             table' = [table EXCEPT ![k] = record]
        /\ commits' = commits + 1
        /\ At(w, "write", IF op[w].kind = "rmw" THEN "verify" ELSE "put")
     \/ UNCHANGED storeVars /\ At(w, "write", "put")
  /\ UNCHANGED <<settings, ops, poolVars, op, got, rows, verdict>>

\* boltdb returns slices of its memory map: the page of a row read is freed by the next
\* commit, and may be reused by the one after it.
Reused(w) == adapter = "boltdb" /\ commits > got[w].commit + 1

\* verifyRow: a row without values passes, any other is compared with the values that
\* it should have, whose lengths are drawn again.
Matches(w) ==
  \A f \in DOMAIN got[w].row : got[w].row[f] = Value(op[w].key, f)

Verify(w) ==
  /\ At(w, "verify", "put")
  /\ \/ Matches(w) /\ verdict' = [verdict EXCEPT ![w] = "ok"]
     \/ /\ ~Matches(w) \/ (got[w].row # EmptyRow /\ (varying \/ Reused(w)))
        /\ verdict' = [verdict EXCEPT ![w] = "fatal"]
  /\ UNCHANGED <<settings, storeVars, ops, poolVars, op, got, rows>>

Held(w) == {values[w][f] : f \in DOMAIN values[w]}

\* What a buffer of the pool holds is overwritten before it is read.
EndOperation(w) ==
  /\ free' = free \cup Held(w)
  /\ content' = [b \in Buffers |->
                   IF b \in Held(w) /\ \A v \in Workers \ {w} : b \notin Held(v)
                   THEN NoRow ELSE content[b]]
  /\ values' = [values EXCEPT ![w] = EmptyRow]
  /\ op' = [op EXCEPT ![w] = NoOp]
  /\ got' = [got EXCEPT ![w] = NoGot]
  /\ rows' = [rows EXCEPT ![w] = NoRows]
  /\ verdict' = [verdict EXCEPT ![w] = "none"]
  /\ UNCHANGED <<settings, storeVars, ops>>

\* Mutant: the buffers go back to the pool as soon as they are filled.
PutValuesEarly(w) ==
  \/ /\ pc[w] = "write"
     /\ free' = free \cup Held(w)
     /\ UNCHANGED <<settings, storeVars, ops, content, values, workerVars>>
  \/ At(w, "put", "idle") /\ EndOperation(w)

\* The deferred putValues.
PutValues(w) == At(w, "put", "idle") /\ EndOperation(w)

\* util.Fatalf ends the process.
Fatal == \E w \in Workers : verdict[w] = "fatal"

Finished ==
  /\ Fatal \/ (ops = MaxOps /\ \A w \in Workers : pc[w] = "idle")
  /\ UNCHANGED vars

Next ==
  \/ /\ ~Fatal
     /\ \E w \in Workers :
          \/ StartWrite(w) \/ StartRead(w) \/ Read(w) \/ Scan(w) \/ Write(w) \/ Verify(w)
          \/ PutValues(w)
  \/ Finished

Spec == Init /\ [][Next]_vars
-----------------------------------------------------------------------------
(* Properties. *)

\* Types, and every buffer is free or held by one worker.
TypeOK ==
  /\ adapter \in Adapters
  /\ commits \in 0 .. MaxOps
  /\ ops \in 0 .. MaxOps
  /\ pc \in [Workers -> {"idle", "read", "scan", "write", "verify", "put"}]
  /\ verdict \in [Workers -> {"none", "ok", "fatal"}]
  /\ \A w \in Workers :
       /\ Held(w) \subseteq Buffers \ free
       /\ \A v \in Workers \ {w} : Held(w) \cap Held(v) = {}

\* Types, and every stored field holds the value of its key and field, although values are passed
\* in pooled buffers that other workers refill, and encoded in the order of a map.
RowsAuthentic ==
  /\ TypeOK
  /\ \A k \in Keys : Here(k) # NoRow =>
       \A f \in DOMAIN Here(k) : Here(k)[f].key = k /\ Here(k)[f].field = f

\* verifyRow ends the process only where the code makes it: with redis's JSON type, whose
\* reads give arrays; when gpd_value varies the lengths although dataintegrity demands
\* constant ones; and when bolt has reused the page that a row was decoded from.
VerifyPasses ==
  \A w \in Workers :
    verdict[w] = "fatal" => adapter = "redisJson" \/ varying \/ Reused(w)

\* A Read that returns nil for a record gives every field asked for that the record has:
\* verifyRow passes a row without values.  pegasus never gives any, and redis's hash type
\* none when the command fails or the hash lacks a field (pegasus/db.go:92, redis/db.go:83-86).
ReadExact ==
  \A w \in Workers : got[w].there =>
    \/ op[w].fields \cap DOMAIN got[w].wanted \subseteq DOMAIN got[w].row
    \/ adapter \in {"pegasus", "redisHash"} /\ got[w].row = EmptyRow

\* A Scan that returns nil gives the records from the start key in order and as many as
\* asked for, with nils before them (etcd) or after them up to the count asked for
\* (badger, bolt, rocksdb) or without.  aerospike's are any, and pegasus has no scan.
ScanExact ==
  \A w \in Workers :
    LET wanted == rows[w].wanted
        n == op[w].count IN
    ~rows[w].result.error /\ adapter \notin {"pegasus", "aerospike"} =>
      \E before \in {0, n}, after \in {0, n - Len(wanted)} :
        rows[w].result.row = Nils(before) \o wanted \o Nils(after)

\* What Read and Scan return without an error is what is stored (ycsb.DB, pkg/ycsb/db.go).
ReadsExact == ReadExact /\ ScanExact
=============================================================================
