------------------------------ MODULE GetPutDB ------------------------------
(***************************************************************************)
(* The adapters that update a row with a read and a write of their own and *)
(* no transaction around them: rocksdb (db/rocksdb/db.go), TiKV raw mode   *)
(* (db/tikv/raw.go), redis with its three data types (db/redis/db.go),     *)
(* etcd (db/etcd/db.go), pegasus (db/pegasus/db.go) and aerospike          *)
(* (db/aerospike/db.go).  The engines are external: one command is atomic. *)
(***************************************************************************)
EXTENDS RowStore

OnlyValues(w) == Merge(EmptyRow, call[w].fields, call[w].id)

\* The row read, with the values of the call over it.  A missing row decodes to
\* a row without fields (rocksdb, raw).
Merged(w) ==
  Merge(IF snap[w] = NoRow THEN EmptyRow ELSE snap[w], call[w].fields, call[w].id)

IsUpdate(w, e) == engine = e /\ call[w].kind = "update"

\* An Update that reads nothing before it writes: those that replace the record or send
\* its fields alone, and redis's string type when the call has every field.
BlindUpdate(w) ==
  \/ \E e \in ReplacingEngines \cup FieldEngines : IsUpdate(w, e)
  \/ IsUpdate(w, "redis") /\ call[w].fields = Fields

\* The Get of an Update.
Get(w) ==
  /\ pc[w] = "begin"
  /\ call[w].kind = "update"
  /\ ~BlindUpdate(w)
  /\ ReadRow(w)
  /\ Goto(w, "stage")
  /\ UNCHANGED <<engineVars, callVars, staged, poolVars, result>>

SkipGet(w) ==
  /\ pc[w] = "begin"
  /\ BlindUpdate(w)
  /\ snap' = [snap EXCEPT ![w] = EmptyRow]
  /\ Goto(w, "stage")
  /\ UNCHANGED <<engineVars, callVars, seen, staged, poolVars, result>>

\* The Get of an Update fails: raw mode returns nil, the others the error.
GetFails(w) ==
  /\ pc[w] = "begin"
  /\ call[w].kind = "update"
  /\ ~BlindUpdate(w)
  /\ Return(w, IF engine = "raw" THEN "nil" ELSE "error")
  /\ Goto(w, "idle")
  /\ UNCHANGED <<engineVars, callVars, snap, seen, staged, poolVars>>

\* redis: the Get of a missing key is an error.
RedisMissing(w) ==
  /\ pc[w] = "stage"
  /\ IsUpdate(w, "redis")
  /\ snap[w] = NoRow
  /\ Return(w, "error")
  /\ Goto(w, "idle")
  /\ UNCHANGED <<engineVars, callVars, snap, seen, staged, poolVars>>

\* The engine stores the row, or reports an error.
Write(w, row) ==
  /\ \/ Install(w, row) /\ Return(w, "nil")
     \/ UNCHANGED engineVars /\ Return(w, "error")
  /\ Goto(w, "idle")
  /\ UNCHANGED <<callVars, snap, seen, staged, poolVars>>

\* rocksdb: the row read is merged, encoded and Put.
RocksUpdate(w) ==
  pc[w] = "stage" /\ IsUpdate(w, "rocksdb") /\ Write(w, Merged(w))

\* TiKV raw mode: the same, through its Insert.
RawUpdate(w) == pc[w] = "stage" /\ IsUpdate(w, "raw") /\ Write(w, Merged(w))

\* redis, string type: the stored JSON is merged, or replaced by a full update.
RedisUpdate(w) ==
  /\ pc[w] = "stage"
  /\ IsUpdate(w, "redis")
  /\ snap[w] # NoRow
  /\ Write(w, Merged(w))

\* etcd: the values of the call become the whole record.
EtcdUpdate(w) == pc[w] = "stage" /\ IsUpdate(w, "etcd") /\ Write(w, OnlyValues(w))

\* pegasus: the same.
PegasusUpdate(w) ==
  pc[w] = "stage" /\ IsUpdate(w, "pegasus") /\ Write(w, OnlyValues(w))

\* The record that is there now, under the fields of row.
OverCurrent(w, row) ==
  LET now == store[call[w].key] IN
  IF now = NoRow THEN row
  ELSE [f \in DOMAIN now \cup DOMAIN row |-> IF f \in DOMAIN row THEN row[f] ELSE now[f]]

\* aerospike: the bins that were read are sent too.  The write policy with the
\* generation is another variable of the same name: the Put is unconditional.
AerospikeUpdate(w) ==
  /\ pc[w] = "stage"
  /\ IsUpdate(w, "aerospike")
  /\ Write(w, OverCurrent(w, Merged(w)))

\* redis, hash type: one HSET of the fields, which creates a missing hash.
HashSet(w) ==
  /\ pc[w] = "stage"
  /\ IsUpdate(w, "redisHash")
  /\ Write(w, OverCurrent(w, OnlyValues(w)))

\* redis, JSON type: a pipeline of one JSON.SET for each field, which needs the document.
JsonSet(w) ==
  /\ pc[w] = "stage"
  /\ IsUpdate(w, "redisJson")
  /\ \E f \in call[w].left :
       /\ call' = [call EXCEPT ![w].left = @ \ {f}]
       /\ LET k == call[w].key IN
          \/ /\ store[k] # NoRow
             /\ store' = [store EXCEPT ![k] = Merge(@, {f}, call[w].id)]
             /\ expect' = [expect EXCEPT ![k] = Merge(@, {f}, call[w].id)]
             /\ UNCHANGED version
             /\ applied' = applied \cup {call[w].id}
             /\ UNCHANGED result
          \/ UNCHANGED engineVars /\ Return(w, "error")
  /\ UNCHANGED <<issued, overlap, pc, snap, seen, staged, poolVars>>

\* The replies of the pipeline: the first error, if any.
JsonReplies(w) ==
  /\ pc[w] = "stage"
  /\ IsUpdate(w, "redisJson")
  /\ call[w].left = {}
  /\ Return(w, IF result[call[w].id] = "error" THEN "error" ELSE "nil")
  /\ Goto(w, "idle")
  /\ UNCHANGED <<engineVars, callVars, snap, seen, staged, poolVars>>

PutNew(w) ==
  pc[w] = "begin" /\ call[w].kind = "insert" /\ Write(w, OnlyValues(w))

PutNothing(w) == pc[w] = "begin" /\ call[w].kind = "delete" /\ Write(w, NoRow)

GetPutStep(w) ==
  \/ Get(w) \/ SkipGet(w) \/ GetFails(w) \/ RedisMissing(w)
  \/ RocksUpdate(w) \/ RawUpdate(w) \/ RedisUpdate(w) \/ EtcdUpdate(w) \/ PegasusUpdate(w)
  \/ AerospikeUpdate(w) \/ HashSet(w) \/ JsonSet(w) \/ JsonReplies(w)
  \/ PutNew(w) \/ PutNothing(w)
=============================================================================
