------------------------------ MODULE RowStore ------------------------------
(***************************************************************************)
(* What the key-value adapters of db/ share: rows of fields kept under a   *)
(* key, calls of Insert, Update and Delete by concurrent workers, the      *)
(* pool of encoding buffers (util.BufPool) and the row codec               *)
(* (util.RowCodec).  The engines are external: a call reads its row at     *)
(* Begin, stages one write, and Install makes the write visible.  Each     *)
(* adapter's module says in which order that happens, what is checked in   *)
(* between, and when the buffer goes back to the pool.                     *)
(*                                                                         *)
(* A row maps the fields it has to the call that wrote them, so a row      *)
(* tells which calls it reflects.                                          *)
(***************************************************************************)
EXTENDS Integers

CONSTANTS Workers,   \* the worker goroutines
          Keys,      \* the record keys
          Fields,    \* the field names
          Buffers,   \* the buffers the pool can hand out
          MaxCalls,  \* bound on the calls made in a behaviour
          Engines,   \* the adapters to choose from
          NoRow,     \* no record under the key
          NoBuffer   \* the call encodes nothing

TxnEngines == {"badger", "boltdb", "tikv", "fdb"}
GetPutEngines == {"rocksdb", "raw", "redis", "redisHash", "redisJson", "etcd", "pegasus",
                  "aerospike"}

\* The engines that merge the fields of an Update themselves.
FieldEngines == {"redisHash", "redisJson"}

\* The adapters whose Update replaces the record.
ReplacingEngines == {"etcd", "pegasus"}

ASSUME ConstantsAssumption ==
  /\ MaxCalls \in Nat
  /\ Keys # {}
  /\ Engines \subseteq TxnEngines \cup GetPutEngines

Calls == 1 .. MaxCalls

\* Program points of the byte count that only the badger adapter keeps.
CountingPoints == {"add", "addStore", "flush", "flushAdd", "flushReset"}

VARIABLES engine,   \* the adapter of this run
          store,    \* the committed rows
          version,  \* how often each key was written: the engine's timestamps
          expect,   \* the rows if every installed call were one atomic step
          issued,   \* number of calls made
          overlap,  \* some two calls were in progress at the same time
          pc,       \* program point of each worker
          call,     \* the call each worker makes
          snap,     \* the row the call read
          seen,     \* the version of that row
          staged,   \* the write handed to the engine
          buf,      \* the buffer the row was encoded into
          free,     \* the buffers in the pool
          content,  \* what each buffer holds
          applied,  \* the calls whose write was installed
          result    \* how each call returned

engineVars == <<store, version, expect, applied>>
poolVars == <<buf, free, content>>
callVars == <<issued, overlap, call>>
rowVars == <<engineVars, callVars, pc, snap, seen, staged, poolVars, result>>

\* The row a call writes its values over: data[field] = value.
Merge(row, fields, id) ==
  [f \in DOMAIN row \cup fields |-> IF f \in fields THEN id ELSE row[f]]

EmptyRow == [f \in {} |-> 0]

\* What a call does to a row when nothing interferes.
Effect(c, row) ==
  CASE c.kind = "delete" -> NoRow
    [] c.kind = "insert" -> Merge(EmptyRow, c.fields, c.id)
    [] c.kind = "update" -> Merge(IF row = NoRow THEN EmptyRow ELSE row,
                                  c.fields, c.id)

\* A call that nobody makes: what `call' holds before a worker's first call.
NoCall(k) == [kind |-> "delete", key |-> k, fields |-> {}, id |-> 0, left |-> {}]

\* The load stored a full row under some of the keys.
RowInit ==
  /\ engine \in Engines
  /\ store \in [Keys -> {NoRow, [f \in Fields |-> 0]}]
  /\ version = [k \in Keys |-> 0]
  /\ expect = store
  /\ issued = 0
  /\ overlap = FALSE
  /\ pc = [w \in Workers |-> "idle"]
  /\ call = [w \in Workers |-> NoCall(CHOOSE k \in Keys : TRUE)]
  /\ snap = [w \in Workers |-> NoRow]
  /\ seen = [w \in Workers |-> 0]
  /\ staged = [w \in Workers |-> [ref |-> FALSE, row |-> NoRow]]
  /\ buf = [w \in Workers |-> NoBuffer]
  /\ free = Buffers
  /\ content = [b \in Buffers |-> EmptyRow]
  /\ applied = {}
  /\ result = [id \in Calls |-> "none"]

Goto(w, point) == pc' = [pc EXCEPT ![w] = point]

\* A worker of the workload calls the adapter.
MakeCall(w, kind) ==
  /\ pc[w] = "idle"
  /\ issued < MaxCalls
  /\ issued' = issued + 1
  /\ overlap' = (overlap \/ \E v \in Workers : pc[v] # "idle")
  /\ \E k \in Keys, F \in (SUBSET Fields) \ {{}} :
       /\ kind = "insert" => F = Fields
       /\ kind = "delete" => F = Fields
       /\ call' = [call EXCEPT ![w] = [kind |-> kind, key |-> k, fields |-> F,
                                       id |-> issued', left |-> F]]
  /\ Goto(w, "begin")
  /\ UNCHANGED <<engineVars, snap, seen, staged, poolVars, result>>

\* The read at the start of a call, at the engine's current state.
ReadRow(w) ==
  /\ snap' = [snap EXCEPT ![w] = store[call[w].key]]
  /\ seen' = [seen EXCEPT ![w] = version[call[w].key]]

\* BufPool.Get, RowCodec.Encode into the buffer and the engine's Set.  With
\* byRef the engine keeps the slice it was given, otherwise its own copy.
EncodeAndSet(w, row, byRef) ==
  \E b \in free :
    /\ free' = free \ {b}
    /\ buf' = [buf EXCEPT ![w] = b]
    /\ content' = [content EXCEPT ![b] = row]
    /\ staged' = [staged EXCEPT ![w] = [ref |-> byRef, row |-> row]]

\* A delete hands no value to the engine.
SetTombstone(w) ==
  /\ staged' = [staged EXCEPT ![w] = [ref |-> FALSE, row |-> NoRow]]
  /\ buf' = [buf EXCEPT ![w] = NoBuffer]
  /\ UNCHANGED <<free, content>>

\* Mutant: calls that took no buffer put one back too.
PutBufferUnchecked(w) ==
  /\ free' = free \cup {buf[w]}
  /\ UNCHANGED <<buf, content>>

\* BufPool.Put.
PutBuffer(w) ==
  /\ free' = IF buf[w] = NoBuffer THEN free ELSE free \cup {buf[w]}
  /\ UNCHANGED <<buf, content>>

\* The row the engine installs: through the slice it kept, or its copy.
StagedRow(w) == IF staged[w].ref THEN content[buf[w]] ELSE staged[w].row

\* The engine makes the write visible.
Install(w, row) ==
  LET k == call[w].key IN
  /\ store' = [store EXCEPT ![k] = row]
  /\ version' = [version EXCEPT ![k] = @ + 1]
  /\ expect' = [expect EXCEPT ![k] = Effect(call[w], @)]
  /\ applied' = applied \cup {call[w].id}

Return(w, r) == result' = [result EXCEPT ![call[w].id] = r]
-----------------------------------------------------------------------------
(* Properties, the same for every adapter. *)

Rows == UNION {[F -> 0 .. MaxCalls] : F \in SUBSET Fields}

\* Type correctness of the rows, the calls and the buffers.
TypeOK ==
  /\ {store, expect} \subseteq [Keys -> Rows \cup {NoRow}]
  /\ version \in [Keys -> 0 .. MaxCalls]
  /\ engine \in Engines
  /\ issued \in 0 .. MaxCalls
  /\ overlap \in BOOLEAN
  /\ pc \in [Workers -> {"idle", "begin", "stage", "release", "commit"}
                         \cup CountingPoints]
  /\ call \in [Workers -> [kind : {"insert", "update", "delete"}, key : Keys,
                           fields : SUBSET Fields, id : 0 .. MaxCalls,
                           left : SUBSET Fields]]
  /\ snap \in [Workers -> Rows \cup {NoRow}]
  /\ seen \in [Workers -> 0 .. MaxCalls]
  /\ staged \in [Workers -> [ref : BOOLEAN, row : Rows \cup {NoRow}]]
  /\ buf \in [Workers -> Buffers \cup {NoBuffer}]
  /\ free \subseteq Buffers
  /\ content \in [Buffers -> Rows]
  /\ applied \subseteq Calls
  /\ result \in [Calls -> {"none", "nil", "missing", "error"}]

\* ycsb.DB.Update (pkg/ycsb/db.go:53-54, "Any field/value pairs will be written
\* into the database or overwritten the existing values with the same field
\* name"): the rows are what the calls give one after the other.  A field keeps
\* its value until a later call writes that field, however the calls overlap.
FieldsKept == store = expect

\* FieldsKept, as far as each adapter has it: the transactional ones and those that
\* send the fields alone always, those with a Get and a Put of their own while no two
\* calls overlap, and those whose Update replaces the record not at all.
FieldsKeptByAdapter ==
  \/ engine \in TxnEngines \cup FieldEngines
  \/ engine \notin ReplacingEngines /\ ~overlap
  => FieldsKept

\* Types, and what a transaction is going to install is what it encoded, although its
\* buffer may already be back in the pool (util.go:64-73) and reused by another call.
StagedRowIntact ==
  /\ TypeOK
  /\ \A w \in Workers :
       pc[w] \in {"release", "commit"} \cup CountingPoints =>
         StagedRow(w) = staged[w].row

\* A call that returned nil took effect, one that returned an error, or found no
\* row to update, left nothing behind.  The exceptions are the Update of TiKV's raw
\* mode, which returns nil when its read fails (tikv/raw.go:129-131), and that of
\* redis's JSON type, a pipeline of one command for each field (redis/db.go:121-133).
ResultMatchesEffect ==
  \A id \in Calls :
    /\ result[id] = "nil" /\ engine # "raw" => id \in applied
    /\ result[id] \in {"missing", "error"} /\ engine # "redisJson" => id \notin applied
=============================================================================
