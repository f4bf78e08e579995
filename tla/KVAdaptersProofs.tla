-------------------------- MODULE KVAdaptersProofs --------------------------
(***************************************************************************)
(* Proofs about the key-value adapters: for any workers, keys, fields,     *)
(* buffers and calls, the rows are what the calls give one after the other *)
(* (as far as each adapter has that), no reused buffer reaches a row, each *)
(* result tells what happened, and the byte count of badger is exact when  *)
(* calls do not overlap.                                                   *)
(*                                                                         *)
(* The steps of all the adapters have a few shapes; the invariant is shown *)
(* for the shapes first, and every action is shown to have one.            *)
(***************************************************************************)
EXTENDS KVAdapters, FiniteSetTheorems, TLAPS

\* The program points after the write was handed to the engine.
CommitPoints == {"release", "commit"} \cup CountingPoints

PastBegin == {"stage"} \cup CommitPoints

Active(w) == pc[w] # "idle"

\* The one call whose effect is several commands.
Json(w) == IsUpdate(w, "redisJson")

-----------------------------------------------------------------------------
(* The inductive invariant. *)

RowType ==
  /\ store \in [Keys -> Rows \cup {NoRow}]
  /\ expect \in [Keys -> Rows \cup {NoRow}]
  /\ version \in [Keys -> Nat]
  /\ engine \in Engines
  /\ issued \in 0 .. MaxCalls
  /\ pc \in [Workers -> {"idle", "begin"} \cup PastBegin]
  /\ call \in [Workers -> [kind : {"insert", "update", "delete"}, key : Keys,
                           fields : SUBSET Fields, id : 0 .. MaxCalls,
                           left : SUBSET Fields]]
  /\ snap \in [Workers -> Rows \cup {NoRow}]
  /\ seen \in [Workers -> 0 .. MaxCalls]
  /\ staged \in [Workers -> [ref : BOOLEAN, row : Rows \cup {NoRow}]]
  /\ buf \in [Workers -> Buffers \cup {NoBuffer}]
  /\ free \subseteq Buffers
  /\ content \in [Buffers -> Rows]
  /\ applied \subseteq Calls
  /\ result \in [Calls -> {"none", "nil", "missing", "error"}]

\* A key's version counts some of the calls that took effect.
VersionInv ==
  /\ applied \subseteq 1 .. issued
  /\ \A k \in Keys : version[k] <= Cardinality(applied)

\* Calls in progress have different ids, which are new but for the pipeline of redisJson.
IdInv ==
  \A v, w \in Workers : v # w /\ Active(v) /\ Active(w) => call[v].id # call[w].id

\* A call that nobody has made yet has no result.
FutureInv == \A id \in Calls : id > issued => result[id] = "none"

CallOK(w) ==
  Active(w) =>
    /\ call[w].id \in 1 .. issued
    /\ call[w].fields # {}
    /\ ~Json(w) => call[w].id \notin applied /\ result[call[w].id] = "none"
    /\ Json(w) => /\ result[call[w].id] \in {"none", "error"}
                  /\ \/ result[call[w].id] = "error"
                     \/ call[w].left = call[w].fields
                     \/ call[w].id \in applied

\* Which adapters have which program points.
PointOK(w) ==
  /\ pc[w] \in CommitPoints => engine \in TxnEngines
  /\ pc[w] \in CountingPoints => engine = "badger"

\* In a transaction a version that is still the one seen means a row that is still the
\* one read, and bolt's lock keeps it so; without transactions it takes that no other
\* call is in progress.
SnapOK(w) ==
  pc[w] \in PastBegin =>
    /\ engine \in TxnEngines =>
         /\ seen[w] <= version[call[w].key]
         /\ seen[w] = version[call[w].key] => snap[w] = store[call[w].key]
    /\ engine = "boltdb" => rwlock = {w} /\ seen[w] = version[call[w].key]
    /\ engine \in GetPutEngines /\ ~BlindUpdate(w) /\ ~overlap =>
         snap[w] = store[call[w].key]
    /\ engine \in GetPutEngines /\ BlindUpdate(w) => snap[w] = EmptyRow

\* What is going to be installed is what the call makes of the row it read; only bolt
\* keeps a reference to the buffer.
StageOK(w) ==
  pc[w] \in CommitPoints =>
    /\ staged[w].row = Effect(call[w], snap[w])
    /\ staged[w].ref => /\ engine = "boltdb"
                        /\ buf[w] \in Buffers
                        /\ content[buf[w]] = staged[w].row

WorkerOK(w) == CallOK(w) /\ PointOK(w) /\ SnapOK(w) /\ StageOK(w)

WorkerInv == \A w \in Workers : WorkerOK(w)

\* Without an overlap at most one call is in progress.
SerialInv ==
  ~overlap => \A v, w \in Workers : v # w => ~Active(v) \/ ~Active(w)

RowInv ==
  /\ RowType /\ VersionInv /\ IdInv /\ FutureInv /\ WorkerInv /\ SerialInv
  /\ FieldsKeptByAdapter
  /\ ResultMatchesEffect

\* The bytes counted so far are in the accumulator and the total, but between the load
\* and the store of the addition and before the reset.
BytesInv ==
  /\ {localBytesCount, GlobalLogicalWriteBytes, payload} \subseteq Nat
  /\ sum \in [Workers -> Nat]
  /\ ~overlap =>
       /\ \/ \E w \in Workers : pc[w] \in {"addStore", "flushReset"}
          \/ GlobalLogicalWriteBytes + localBytesCount = payload
       /\ \A w \in Workers :
            /\ pc[w] = "addStore" => GlobalLogicalWriteBytes + sum[w] = payload
            /\ pc[w] = "flushReset" => GlobalLogicalWriteBytes = payload
       /\ LogicalBytesExact

IInv == RowInv /\ overlap \in BOOLEAN /\ BytesInv
-----------------------------------------------------------------------------
(* Rows. *)

LEMMA RowsIntro ==
  ASSUME NEW F \in SUBSET Fields, NEW row \in [F -> 0 .. MaxCalls]
  PROVE  row \in Rows
  BY DEF Rows

LEMMA RowsElim ==
  ASSUME NEW row \in Rows
  PROVE  DOMAIN row \subseteq Fields /\ \A f \in DOMAIN row : row[f] \in 0 .. MaxCalls
<1>1. PICK F \in SUBSET Fields : row \in [F -> 0 .. MaxCalls]
  BY DEF Rows
<1> QED
  BY <1>1

LEMMA EmptyRowType == EmptyRow \in Rows /\ DOMAIN EmptyRow = {}
<1>1. EmptyRow \in [{} -> 0 .. MaxCalls] /\ DOMAIN EmptyRow = {}
  BY DEF EmptyRow
<1> QED
  BY <1>1, RowsIntro

LEMMA MergeType ==
  ASSUME NEW row \in Rows, NEW F \in SUBSET Fields, NEW id \in 0 .. MaxCalls
  PROVE  Merge(row, F, id) \in Rows
<1>1. DOMAIN row \cup F \in SUBSET Fields
  BY RowsElim
<1>2. Merge(row, F, id) \in [DOMAIN row \cup F -> 0 .. MaxCalls]
  BY RowsElim DEF Merge
<1> QED
  BY <1>1, <1>2, RowsIntro

LEMMA EffectType ==
  ASSUME RowType, NEW w \in Workers, NEW row \in Rows \cup {NoRow}
  PROVE  /\ Effect(call[w], row) \in Rows \cup {NoRow}
         /\ call[w].kind # "delete" => Effect(call[w], row) \in Rows
<1>1. call[w].fields \in SUBSET Fields /\ call[w].id \in 0 .. MaxCalls
      /\ call[w].kind \in {"insert", "update", "delete"}
  BY DEF RowType
<1>2. Merge(EmptyRow, call[w].fields, call[w].id) \in Rows
  BY <1>1, MergeType, EmptyRowType
<1>3. row \in Rows => Merge(row, call[w].fields, call[w].id) \in Rows
  BY <1>1, MergeType
<1> QED
  BY <1>1, <1>2, <1>3 DEF Effect

\* A write of every field leaves nothing of the row before.
LEMMA MergeAll ==
  ASSUME NEW row \in Rows, NEW id
  PROVE  Merge(EmptyRow, Fields, id) = Merge(row, Fields, id)
<1>1. DOMAIN EmptyRow \cup Fields = DOMAIN row \cup Fields
  BY RowsElim, EmptyRowType
<1> QED
  BY <1>1, RowsElim DEF Merge

\* The values of a call over the row that is there: what the call does to it.
LEMMA OverCurrentValues ==
  ASSUME RowType, NEW w \in Workers, call[w].kind = "update"
  PROVE  OverCurrent(w, OnlyValues(w)) = Effect(call[w], store[call[w].key])
<1>1. DOMAIN OnlyValues(w) = call[w].fields
  BY EmptyRowType DEF OnlyValues, Merge
<1>2. \A f \in call[w].fields : OnlyValues(w)[f] = call[w].id
  BY <1>1 DEF OnlyValues, Merge
<1>3. CASE store[call[w].key] = NoRow
  BY <1>3 DEF OverCurrent, Effect, OnlyValues
<1>4. CASE store[call[w].key] # NoRow
  BY <1>1, <1>2, <1>4 DEF OverCurrent, Effect, Merge
<1> QED
  BY <1>3, <1>4

\* Sending the fields that were read along changes nothing when the row is the same.
LEMMA OverCurrentMerged ==
  ASSUME RowType, NEW w \in Workers, call[w].kind = "update", snap[w] = store[call[w].key]
  PROVE  OverCurrent(w, Merged(w)) = Effect(call[w], store[call[w].key])
<1>1. Merged(w) = Effect(call[w], store[call[w].key])
  BY DEF Merged, Effect
<1>2. CASE store[call[w].key] = NoRow
  BY <1>1, <1>2 DEF OverCurrent
<1>3. CASE store[call[w].key] # NoRow
  <2> DEFINE now == store[call[w].key]
  <2>1. Merged(w) = [f \in DOMAIN now \cup call[w].fields |->
                       IF f \in call[w].fields THEN call[w].id ELSE now[f]]
    BY <1>3 DEF Merged, Merge
  <2>2. DOMAIN Merged(w) = DOMAIN now \cup call[w].fields
    BY <2>1
  <2>3. OverCurrent(w, Merged(w)) = [f \in DOMAIN now \cup DOMAIN Merged(w) |->
                       IF f \in DOMAIN Merged(w) THEN Merged(w)[f] ELSE now[f]]
    BY <1>3 DEF OverCurrent
  <2>4. OverCurrent(w, Merged(w)) = [f \in DOMAIN now \cup call[w].fields |-> Merged(w)[f]]
    BY <2>2, <2>3
  <2>5. OverCurrent(w, Merged(w)) = Merged(w)
    BY <2>1, <2>4
  <2> QED
    BY <1>1, <2>5
<1> QED
  BY <1>2, <1>3
-----------------------------------------------------------------------------
(* The shapes of the adapters' steps. *)

\* The adapters, and the circumstances, that FieldsKeptByAdapter is about.
Merging == \/ engine \in TxnEngines \cup FieldEngines
           \/ engine \notin ReplacingEngines /\ ~overlap

LEMMA MergingKept == FieldsKeptByAdapter <=> (Merging => store = expect)
  BY DEF FieldsKeptByAdapter, Merging, FieldsKept

\* A step of a worker changes its own state only.
Own(w) ==
  \A v \in Workers : v # w =>
    /\ pc'[v] = pc[v] /\ call'[v] = call[v] /\ snap'[v] = snap[v]
    /\ seen'[v] = seen[v] /\ staged'[v] = staged[v] /\ buf'[v] = buf[v]

\* In bolt the worker that moves past the begin of its transaction is alone there.
LockStep(w) ==
  engine = "boltdb" =>
    /\ pc'[w] \in PastBegin => rwlock' = {w}
    /\ \A v \in Workers : v # w => pc[v] \notin PastBegin

PoolKept == UNCHANGED <<buf, content>> /\ free' \subseteq Buffers

Reading(w) ==
  /\ pc[w] = "begin"
  /\ ReadRow(w)
  /\ Goto(w, "stage")
  /\ UNCHANGED <<engineVars, callVars, staged, poolVars, result>>

Ending(w, r) ==
  /\ Active(w)
  /\ Return(w, r)
  /\ Goto(w, "idle")
  /\ UNCHANGED <<engineVars, callVars, snap, seen, staged>> /\ PoolKept

Staging(w, point) ==
  /\ pc[w] = "stage"
  /\ \/ /\ call[w].kind # "delete"
        /\ EncodeAndSet(w, Effect(call[w], snap[w]), engine = "boltdb")
     \/ call[w].kind = "delete" /\ SetTombstone(w)
  /\ Goto(w, point)
  /\ UNCHANGED <<engineVars, callVars, snap, seen, result>>

Moving(w, point) ==
  /\ pc[w] \in CommitPoints
  /\ Goto(w, point)
  /\ UNCHANGED <<engineVars, callVars, snap, seen, staged, result>> /\ PoolKept

Installing(w, row) ==
  /\ Active(w)
  /\ Install(w, row)
  /\ Return(w, "nil")
  /\ Goto(w, "idle")
  /\ UNCHANGED <<callVars, snap, seen, staged>> /\ PoolKept
-----------------------------------------------------------------------------
(* What a step leaves to the other workers. *)

LEMMA VersionBound ==
  ASSUME RowInv
  PROVE  /\ IsFiniteSet(applied) /\ Cardinality(applied) \in Nat
         /\ Cardinality(applied) <= MaxCalls
         /\ \A k \in Keys : version[k] \in 0 .. MaxCalls
<1>1. IsFiniteSet(Calls) /\ Cardinality(Calls) = MaxCalls
  BY FS_Interval, ConstantsAssumption DEF Calls
<1>2. IsFiniteSet(applied) /\ Cardinality(applied) <= Cardinality(Calls)
  BY <1>1, FS_Subset DEF RowInv, RowType
<1>3. Cardinality(applied) \in Nat
  BY <1>2, FS_CardinalityType
<1> QED
  BY <1>1, <1>2, <1>3, ConstantsAssumption DEF RowInv, RowType, VersionInv

LEMMA OtherWorkers ==
  ASSUME RowInv, NEW w \in Workers, Active(w), Own(w), LockStep(w),
         UNCHANGED <<engine, overlap, issued>>,
         applied \subseteq applied', applied' \subseteq applied \cup {call[w].id},
         \A id \in Calls : id # call[w].id => result'[id] = result[id],
         \A k \in Keys : /\ version'[k] \in Nat /\ version[k] <= version'[k]
                         /\ engine \in TxnEngines /\ version'[k] = version[k] =>
                              store'[k] = store[k],
         NEW v \in Workers, v # w
  PROVE  WorkerOK(v)'
<1>1. WorkerOK(v)
  BY DEF RowInv, WorkerInv
<1>2. /\ pc'[v] = pc[v] /\ call'[v] = call[v] /\ snap'[v] = snap[v]
      /\ seen'[v] = seen[v] /\ staged'[v] = staged[v] /\ buf'[v] = buf[v]
  BY DEF Own
<1>3. BlindUpdate(v)' <=> BlindUpdate(v)
  BY <1>2 DEF BlindUpdate, IsUpdate
<1>4. Json(v)' <=> Json(v)
  BY <1>2 DEF Json, IsUpdate
<1>5. call[v].key \in Keys /\ seen[v] \in Nat /\ version[call[v].key] \in Nat
  BY ConstantsAssumption DEF RowInv, RowType
<1>6. CallOK(v)'
  <2> SUFFICES ASSUME Active(v) PROVE CallOK(v)'
    BY <1>2 DEF CallOK, Active
  <2>1. call[v].id # call[w].id /\ call[v].id \in Calls
    BY <1>1 DEF RowInv, RowType, IdInv, WorkerOK, CallOK, Calls
  <2>2. result'[call[v].id] = result[call[v].id]
    BY <2>1
  <2>3. call[v].id \in applied' <=> call[v].id \in applied
    BY <2>1
  <2> QED
    BY <1>1, <1>2, <1>4, <2>2, <2>3 DEF WorkerOK, CallOK, Active
<1>7. PointOK(v)'
  BY <1>1, <1>2 DEF WorkerOK, PointOK
<1>8. SnapOK(v)'
  <2> SUFFICES ASSUME pc[v] \in PastBegin PROVE SnapOK(v)'
    BY <1>2 DEF SnapOK
  <2>1. engine # "boltdb"
    BY DEF LockStep
  <2>2. overlap
    BY DEF RowInv, SerialInv, Active, PastBegin, CommitPoints, CountingPoints
  <2>3. engine \in TxnEngines =>
          /\ seen[v] <= version'[call[v].key]
          /\ seen[v] = version'[call[v].key] => snap[v] = store'[call[v].key]
    BY <1>1, <1>5 DEF WorkerOK, SnapOK
  <2> QED
    BY <1>1, <1>2, <1>3, <2>1, <2>2, <2>3 DEF WorkerOK, SnapOK
<1>9. StageOK(v)'
  <2> SUFFICES ASSUME pc[v] \in CommitPoints PROVE StageOK(v)'
    BY <1>2 DEF StageOK
  <2>1. engine # "boltdb"
    BY DEF LockStep, PastBegin
  <2> QED
    BY <1>1, <1>2, <2>1 DEF WorkerOK, StageOK
<1> QED
  BY <1>6, <1>7, <1>8, <1>9 DEF WorkerOK

\* The worker that moved, and the rest of the state.
LEMMA WorkersKept ==
  ASSUME RowInv, NEW w \in Workers, Active(w), Own(w), LockStep(w),
         UNCHANGED <<engine, overlap, issued>>, UNCHANGED engineVars,
         \A id \in Calls : id # call[w].id => result'[id] = result[id],
         WorkerOK(w)'
  PROVE  WorkerInv'
<1>1. \A k \in Keys : version[k] \in Nat
  BY DEF RowInv, RowType
<1>2. ASSUME NEW v \in Workers, v # w PROVE WorkerOK(v)'
  BY <1>1, <1>2, OtherWorkers DEF engineVars
<1> QED
  BY <1>2 DEF WorkerInv

LEMMA GlobalKept ==
  ASSUME RowInv, UNCHANGED <<engine, overlap, issued>>,
         NEW w \in Workers, Active(w), Own(w), call'[w].id = call[w].id
  PROVE  IdInv' /\ SerialInv'
<1>1. \A v \in Workers : (Active(v)' => Active(v)) /\ call'[v].id = call[v].id
  BY DEF Own, Active
<1>2. IdInv'
  BY <1>1 DEF RowInv, IdInv
<1>3. SerialInv'
  BY <1>1 DEF RowInv, SerialInv
<1> QED
  BY <1>2, <1>3

LEMMA FutureKept ==
  ASSUME RowInv, UNCHANGED issued, NEW w \in Workers, Active(w),
         \A id \in Calls : id # call[w].id => result'[id] = result[id]
  PROVE  FutureInv'
<1>1. call[w].id \in 1 .. issued /\ issued \in Nat
  BY ConstantsAssumption DEF RowInv, RowType, WorkerInv, WorkerOK, CallOK
<1> QED
  BY <1>1 DEF RowInv, FutureInv, Calls

LEMMA EngineKept ==
  ASSUME RowInv, UNCHANGED <<engine, overlap, issued, engineVars>>
  PROVE  VersionInv' /\ FieldsKeptByAdapter'
  BY DEF RowInv, VersionInv, FieldsKeptByAdapter, FieldsKept, engineVars
-----------------------------------------------------------------------------
(* Each shape keeps the invariant. *)

LEMMA ReadingRowInv ==
  ASSUME RowInv, NEW w \in Workers, Reading(w), LockStep(w), UNCHANGED engine,
         engine \in GetPutEngines => ~BlindUpdate(w)
  PROVE  RowInv'
<1> USE DEF Reading, ReadRow, Goto, callVars, poolVars
<1>1. call[w].key \in Keys /\ w \in DOMAIN pc /\ w \in DOMAIN snap /\ w \in DOMAIN seen
  BY DEF RowInv, RowType
<1>2. /\ pc'[w] = "stage" /\ snap'[w] = store[call[w].key]
      /\ seen'[w] = version[call[w].key] /\ Active(w)
  BY <1>1 DEF Active
<1>3. Own(w)
  BY DEF Own
<1>4. RowType'
  <2>1. version[call[w].key] \in 0 .. MaxCalls
    BY <1>1, VersionBound
  <2>2. seen' \in [Workers -> 0 .. MaxCalls]
    BY <2>1 DEF RowInv, RowType
  <2>3. snap' \in [Workers -> Rows \cup {NoRow}]
    BY <1>1 DEF RowInv, RowType
  <2>4. pc' \in [Workers -> {"idle", "begin"} \cup PastBegin]
    BY DEF RowInv, RowType, PastBegin
  <2> QED
    BY <2>2, <2>3, <2>4 DEF RowInv, RowType, engineVars
<1>5. WorkerOK(w)'
  <2>1. WorkerOK(w)
    BY DEF RowInv, WorkerInv
  <2>2. CallOK(w)'
    BY <1>2, <2>1 DEF WorkerOK, CallOK, Active, Json, IsUpdate, engineVars
  <2>3. PointOK(w)' /\ StageOK(w)'
    BY <1>2 DEF PointOK, StageOK, CommitPoints, CountingPoints
  <2>4. SnapOK(w)'
    <3>1. BlindUpdate(w)' <=> BlindUpdate(w)
      BY DEF BlindUpdate, IsUpdate
    <3>2. version[call[w].key] \in Nat
      BY <1>1 DEF RowInv, RowType
    <3> QED
      BY <1>2, <3>1, <3>2 DEF SnapOK, LockStep, PastBegin, engineVars
  <2> QED
    BY <2>2, <2>3, <2>4 DEF WorkerOK
<1>6. WorkerInv'
  BY <1>2, <1>3, <1>5, WorkersKept
<1>7. IdInv' /\ SerialInv'
  BY <1>2, <1>3, GlobalKept
<1>8. VersionInv' /\ FieldsKeptByAdapter'
  BY EngineKept
<1>9. ResultMatchesEffect'
  BY DEF RowInv, ResultMatchesEffect, engineVars
<1>10. FutureInv'
  BY <1>2, FutureKept
<1> QED
  BY <1>4, <1>6, <1>7, <1>8, <1>9, <1>10 DEF RowInv

LEMMA EndingRowInv ==
  ASSUME RowInv, NEW w \in Workers, NEW r \in {"nil", "missing", "error"}, Ending(w, r),
         LockStep(w), UNCHANGED engine,
         r = "nil" => engine = "raw" \/ call[w].id \in applied
  PROVE  RowInv'
<1> USE DEF Ending, Return, Goto, PoolKept, callVars
<1>1. WorkerOK(w)
  BY DEF RowInv, WorkerInv
<1>2. call[w].id \in Calls
  BY <1>1 DEF RowInv, RowType, WorkerOK, CallOK, Calls
<1>3. pc'[w] = "idle" /\ Own(w)
  BY DEF RowInv, RowType, Own
<1>4. \A id \in Calls : result'[id] = IF id = call[w].id THEN r ELSE result[id]
  BY <1>2 DEF RowInv, RowType
<1>5. RowType'
  BY <1>2 DEF RowInv, RowType, PastBegin, engineVars
<1>6. WorkerOK(w)'
  BY <1>3 DEF WorkerOK, CallOK, PointOK, SnapOK, StageOK, Active, PastBegin, CommitPoints,
              CountingPoints
<1>7. WorkerInv'
  BY <1>3, <1>4, <1>6, WorkersKept
<1>8. IdInv' /\ SerialInv'
  BY <1>3, GlobalKept
<1>9. VersionInv' /\ FieldsKeptByAdapter'
  BY EngineKept
<1>10. ResultMatchesEffect'
  <2>1. engine # "redisJson" => call[w].id \notin applied
    BY <1>1 DEF WorkerOK, CallOK, Json, IsUpdate
  <2>2. UNCHANGED applied
    BY DEF engineVars
  <2>3. ASSUME NEW id \in Calls
        PROVE  /\ result'[id] = "nil" /\ engine # "raw" => id \in applied
               /\ result'[id] \in {"missing", "error"} /\ engine # "redisJson" =>
                    id \notin applied
    <3>1. CASE id = call[w].id
      BY <1>4, <2>1, <3>1
    <3>2. CASE id # call[w].id
      BY <1>4, <3>2 DEF RowInv, ResultMatchesEffect
    <3> QED
      BY <3>1, <3>2
  <2> QED
    BY <2>2, <2>3 DEF ResultMatchesEffect
<1>11. FutureInv'
  BY <1>4, FutureKept
<1> QED
  BY <1>5, <1>7, <1>8, <1>9, <1>10, <1>11 DEF RowInv

LEMMA MovingRowInv ==
  ASSUME RowInv, NEW w \in Workers, NEW point \in {"begin"} \cup CommitPoints,
         Moving(w, point), LockStep(w), UNCHANGED engine,
         point \in CountingPoints => engine = "badger"
  PROVE  RowInv'
<1> USE DEF Moving, Goto, PoolKept, callVars
<1>1. WorkerOK(w)
  BY DEF RowInv, WorkerInv
<1>2. pc'[w] = point /\ Own(w) /\ Active(w)
  BY DEF RowInv, RowType, Own, Active, CommitPoints, CountingPoints
<1>3. RowType'
  BY DEF RowInv, RowType, PastBegin, engineVars
<1>4. WorkerOK(w)'
  <2>1. CallOK(w)'
    BY <1>1, <1>2 DEF WorkerOK, CallOK, Active, Json, IsUpdate, engineVars
  <2>2. PointOK(w)'
    BY <1>1, <1>2 DEF WorkerOK, PointOK
  <2>3. SnapOK(w)'
    <3>1. BlindUpdate(w)' <=> BlindUpdate(w)
      BY DEF BlindUpdate, IsUpdate
    <3> QED
      BY <1>1, <1>2, <3>1 DEF WorkerOK, SnapOK, LockStep, PastBegin, engineVars
  <2>4. StageOK(w)'
    BY <1>1, <1>2 DEF WorkerOK, StageOK
  <2> QED
    BY <2>1, <2>2, <2>3, <2>4 DEF WorkerOK
<1>5. WorkerInv'
  BY <1>2, <1>4, WorkersKept
<1>6. IdInv' /\ SerialInv'
  BY <1>2, GlobalKept
<1>7. VersionInv' /\ FieldsKeptByAdapter'
  BY EngineKept
<1>8. ResultMatchesEffect'
  BY DEF RowInv, ResultMatchesEffect, engineVars
<1>9. FutureInv'
  BY <1>2, FutureKept
<1> QED
  BY <1>3, <1>5, <1>6, <1>7, <1>8, <1>9 DEF RowInv

\* The row that is staged is the effect of the call on the row that it read.
LEMMA StagingRowInv ==
  ASSUME RowInv, NEW w \in Workers, NEW point \in CommitPoints,
         Staging(w, point), LockStep(w), UNCHANGED engine, engine \in TxnEngines,
         point \in CountingPoints => engine = "badger",
         call[w].kind = "update" => snap[w] # NoRow
  PROVE  RowInv'
<1> USE DEF Staging, Goto, callVars
<1>1. WorkerOK(w)
  BY DEF RowInv, WorkerInv
<1>2. pc'[w] = point /\ Active(w)
  BY DEF RowInv, RowType, Active
<1>3. /\ staged'[w].row = Effect(call[w], snap[w])
      /\ staged'[w].ref => /\ engine = "boltdb" /\ buf'[w] \in Buffers
                           /\ content'[buf'[w]] = staged'[w].row
      /\ \A v \in Workers : v # w => staged'[v] = staged[v] /\ buf'[v] = buf[v]
      /\ staged' \in [Workers -> [ref : BOOLEAN, row : Rows \cup {NoRow}]]
      /\ buf' \in [Workers -> Buffers \cup {NoBuffer}]
      /\ free' \subseteq Buffers
      /\ content' \in [Buffers -> Rows]
  <2>1. CASE call[w].kind = "delete" /\ SetTombstone(w)
    <3>1. /\ staged' = [staged EXCEPT ![w] = [ref |-> FALSE, row |-> NoRow]]
          /\ buf' = [buf EXCEPT ![w] = NoBuffer]
          /\ UNCHANGED <<free, content>>
      BY <2>1 DEF SetTombstone
    <3>2. staged'[w] = [ref |-> FALSE, row |-> NoRow]
      BY <3>1 DEF RowInv, RowType
    <3>3. Effect(call[w], snap[w]) = NoRow
      BY <2>1 DEF Effect
    <3> QED
      BY <3>1, <3>2, <3>3 DEF RowInv, RowType
  <2>2. CASE call[w].kind # "delete" /\ EncodeAndSet(w, Effect(call[w], snap[w]), engine = "boltdb")
    <3> DEFINE row == Effect(call[w], snap[w])
    <3>1. PICK b \in free :
            /\ free' = free \ {b}
            /\ buf' = [buf EXCEPT ![w] = b]
            /\ content' = [content EXCEPT ![b] = row]
            /\ staged' = [staged EXCEPT ![w] = [ref |-> engine = "boltdb", row |-> row]]
      BY <2>2 DEF EncodeAndSet
    <3>2. b \in Buffers /\ w \in DOMAIN buf /\ w \in DOMAIN staged /\ b \in DOMAIN content
      BY DEF RowInv, RowType
    <3>3. row \in Rows
      BY <2>2, EffectType DEF RowInv, RowType
    <3> HIDE DEF row
    <3>4. (engine = "boltdb") \in BOOLEAN
      OBVIOUS
    <3>5. staged'[w].row = row /\ staged'[w].ref = (engine = "boltdb")
      BY <3>1, <3>2
    <3>6. buf'[w] = b /\ content'[b] = row
      BY <3>1, <3>2
    <3>7. staged' \in [Workers -> [ref : BOOLEAN, row : Rows \cup {NoRow}]]
      BY <3>1, <3>3, <3>4 DEF RowInv, RowType
    <3>8. buf' \in [Workers -> Buffers \cup {NoBuffer}] /\ free' \subseteq Buffers
      BY <3>1, <3>2 DEF RowInv, RowType
    <3>9. content' \in [Buffers -> Rows]
      BY <3>1, <3>3 DEF RowInv, RowType
    <3>10. \A v \in Workers : v # w => staged'[v] = staged[v] /\ buf'[v] = buf[v]
      BY <3>1 DEF RowInv, RowType
    <3> QED
      BY <3>2, <3>5, <3>6, <3>7, <3>8, <3>9, <3>10 DEF row
  <2> QED
    BY <2>1, <2>2
<1>4. Own(w)
  BY <1>3 DEF Own, RowInv, RowType
<1>5. RowType'
  BY <1>3 DEF RowInv, RowType, PastBegin, engineVars
<1>6. WorkerOK(w)'
  <2>1. CallOK(w)'
    BY <1>1, <1>2 DEF WorkerOK, CallOK, Active, Json, IsUpdate, engineVars, CommitPoints,
                      CountingPoints
  <2>2. PointOK(w)'
    BY <1>2 DEF PointOK
  <2>3. SnapOK(w)'
    <3>1. BlindUpdate(w)' <=> BlindUpdate(w)
      BY DEF BlindUpdate, IsUpdate
    <3> QED
      BY <1>1, <1>2, <3>1 DEF WorkerOK, SnapOK, LockStep, PastBegin, engineVars
  <2>4. StageOK(w)'
    BY <1>2, <1>3 DEF StageOK
  <2> QED
    BY <2>1, <2>2, <2>3, <2>4 DEF WorkerOK
<1>7. WorkerInv'
  BY <1>2, <1>4, <1>6, WorkersKept
<1>8. IdInv' /\ SerialInv'
  BY <1>2, <1>4, GlobalKept
<1>9. VersionInv' /\ FieldsKeptByAdapter'
  BY EngineKept
<1>10. ResultMatchesEffect'
  BY DEF RowInv, ResultMatchesEffect, engineVars
<1>11. FutureInv'
  BY <1>2, FutureKept
<1> QED
  BY <1>5, <1>7, <1>8, <1>9, <1>10, <1>11 DEF RowInv

\* An installed row that is the effect of its call keeps the rows as they should be.
LEMMA InstallingRowInv ==
  ASSUME RowInv, NEW w \in Workers, NEW row \in Rows \cup {NoRow}, Installing(w, row),
         LockStep(w), UNCHANGED engine, ~Json(w),
         Merging => row = Effect(call[w], store[call[w].key])
  PROVE  RowInv'
<1> DEFINE k == call[w].key
<1> DEFINE i == call[w].id
<1> USE DEF Installing, Install, Return, Goto, PoolKept, callVars
<1>1. WorkerOK(w)
  BY DEF RowInv, WorkerInv
<1>2. k \in Keys /\ i \in Calls /\ i \in 1 .. issued /\ i \notin applied
  BY <1>1 DEF RowInv, RowType, WorkerOK, CallOK, Calls
<1>3. pc'[w] = "idle" /\ Own(w)
  BY DEF RowInv, RowType, Own
<1>4. /\ store' = [store EXCEPT ![k] = row]
      /\ expect' = [expect EXCEPT ![k] = Effect(call[w], expect[k])]
      /\ version' = [version EXCEPT ![k] = version[k] + 1]
      /\ applied' = applied \cup {i}
      /\ result' = [result EXCEPT ![i] = "nil"]
  OBVIOUS
<1>5. Effect(call[w], expect[k]) \in Rows \cup {NoRow}
  BY <1>2, EffectType DEF RowInv, RowType
<1> HIDE DEF k, i
<1>6. RowType'
  <2>1. store' \in [Keys -> Rows \cup {NoRow}] /\ expect' \in [Keys -> Rows \cup {NoRow}]
    BY <1>2, <1>4, <1>5 DEF RowInv, RowType
  <2>2. version' \in [Keys -> Nat]
    BY <1>2, <1>4 DEF RowInv, RowType
  <2>3. applied' \subseteq Calls /\ result' \in [Calls -> {"none", "nil", "missing", "error"}]
    BY <1>2, <1>4 DEF RowInv, RowType
  <2>4. pc' \in [Workers -> {"idle", "begin"} \cup PastBegin]
    BY DEF RowInv, RowType
  <2> QED
    BY <2>1, <2>2, <2>3, <2>4 DEF RowInv, RowType
<1>7. VersionInv'
  <2>1. Cardinality(applied') = Cardinality(applied) + 1
    BY <1>2, <1>4, VersionBound, FS_AddElement
  <2>2. applied' \subseteq 1 .. issued'
    BY <1>2, <1>4 DEF RowInv, VersionInv
  <2>3. ASSUME NEW x \in Keys PROVE version'[x] <= Cardinality(applied')
    <3>1. version[x] \in Nat /\ version[x] <= Cardinality(applied)
      BY DEF RowInv, RowType, VersionInv
    <3>2. version'[x] \in {version[x], version[x] + 1}
      BY <1>2, <1>4 DEF RowInv, RowType
    <3> QED
      BY <2>1, <3>1, <3>2, VersionBound
  <2> QED
    BY <2>2, <2>3 DEF VersionInv
<1>8. IdInv' /\ SerialInv'
  BY <1>3, GlobalKept
<1>9. WorkerInv'
  <2>1. WorkerOK(w)'
    BY <1>3 DEF WorkerOK, CallOK, PointOK, SnapOK, StageOK, Active, PastBegin,
                CommitPoints, CountingPoints
  <2>2. /\ applied \subseteq applied' /\ applied' \subseteq applied \cup {call[w].id}
        /\ \A id \in Calls : id # call[w].id => result'[id] = result[id]
    BY <1>2, <1>4 DEF RowInv, RowType, i
  <2>3. \A x \in Keys : /\ version'[x] \in Nat /\ version[x] <= version'[x]
                        /\ version'[x] = version[x] => store'[x] = store[x]
    BY <1>2, <1>4 DEF RowInv, RowType
  <2>4. ASSUME NEW v \in Workers, v # w PROVE WorkerOK(v)'
    BY <1>3, <2>2, <2>3, <2>4, OtherWorkers
  <2> QED
    BY <2>1, <2>4 DEF WorkerInv
<1>10. FieldsKeptByAdapter'
  <2> SUFFICES ASSUME Merging' PROVE store' = expect'
    BY MergingKept DEF FieldsKeptByAdapter, Merging, FieldsKept
  <2>1. Merging
    BY DEF Merging
  <2>2. store = expect
    BY <2>1, MergingKept DEF RowInv
  <2>3. row = Effect(call[w], expect[k])
    BY <2>1, <2>2 DEF k
  <2> QED
    BY <1>4, <2>2, <2>3
<1>11. ResultMatchesEffect'
  <2>1. ASSUME NEW id \in Calls
        PROVE  /\ result'[id] = "nil" /\ engine # "raw" => id \in applied'
               /\ result'[id] \in {"missing", "error"} /\ engine # "redisJson" =>
                    id \notin applied'
    <3>1. CASE id = i
      BY <1>2, <1>4, <3>1 DEF RowInv, RowType
    <3>2. CASE id # i
      BY <1>2, <1>4, <3>2 DEF RowInv, RowType, ResultMatchesEffect
    <3> QED
      BY <3>1, <3>2
  <2> QED
    BY <2>1 DEF ResultMatchesEffect
<1>12. FutureInv'
  BY <1>2, <1>4, FutureKept DEF RowInv, RowType, i
<1> QED
  BY <1>6, <1>7, <1>8, <1>9, <1>10, <1>11, <1>12 DEF RowInv

\* redis needs no read for an update that replaces every field, or sends fields alone.
LEMMA SkipGetRowInv ==
  ASSUME RowInv, NEW w \in Workers, SkipGet(w), UNCHANGED engine, engine \in GetPutEngines
  PROVE  RowInv'
<1> USE DEF SkipGet, Goto, callVars, poolVars
<1>1. WorkerOK(w)
  BY DEF RowInv, WorkerInv
<1>2. pc'[w] = "stage" /\ snap'[w] = EmptyRow /\ Active(w)
  BY DEF RowInv, RowType, Active
<1>3. Own(w) /\ LockStep(w)
  BY DEF Own, LockStep, GetPutEngines
<1>4. RowType'
  <2>1. snap' \in [Workers -> Rows \cup {NoRow}]
    BY EmptyRowType DEF RowInv, RowType
  <2> QED
    BY <2>1 DEF RowInv, RowType, PastBegin, engineVars
<1>5. WorkerOK(w)'
  <2>1. CallOK(w)'
    BY <1>1, <1>2 DEF WorkerOK, CallOK, Active, Json, IsUpdate, engineVars
  <2>2. PointOK(w)' /\ StageOK(w)'
    BY <1>2 DEF PointOK, StageOK, CommitPoints, CountingPoints
  <2>3. SnapOK(w)'
    <3>1. BlindUpdate(w)'
      BY DEF BlindUpdate, IsUpdate
    <3> QED
      BY <1>2, <3>1 DEF SnapOK, TxnEngines, GetPutEngines
  <2> QED
    BY <2>1, <2>2, <2>3 DEF WorkerOK
<1>6. WorkerInv'
  BY <1>2, <1>3, <1>5, WorkersKept
<1>7. IdInv' /\ SerialInv'
  BY <1>2, <1>3, GlobalKept
<1>8. VersionInv' /\ FieldsKeptByAdapter'
  BY EngineKept
<1>9. ResultMatchesEffect'
  BY DEF RowInv, ResultMatchesEffect, engineVars
<1>10. FutureInv'
  BY <1>2, FutureKept
<1> QED
  BY <1>4, <1>6, <1>7, <1>8, <1>9, <1>10 DEF RowInv

\* One command of redisJson's pipeline.
LEMMA JsonSetRowInv ==
  ASSUME RowInv, NEW w \in Workers, JsonSet(w), UNCHANGED engine
  PROVE  RowInv'
<1> DEFINE k == call[w].key
<1> DEFINE i == call[w].id
<1> USE DEF JsonSet, IsUpdate
<1>1. PICK f \in call[w].left :
        /\ call' = [call EXCEPT ![w].left = @ \ {f}]
        /\ \/ /\ store[k] # NoRow
              /\ store' = [store EXCEPT ![k] = Merge(@, {f}, i)]
              /\ expect' = [expect EXCEPT ![k] = Merge(@, {f}, i)]
              /\ UNCHANGED version
              /\ applied' = applied \cup {i}
              /\ UNCHANGED result
           \/ UNCHANGED engineVars /\ result' = [result EXCEPT ![i] = "error"]
  BY DEF Return
<1>2. engine = "redisJson" /\ call[w].kind = "update" /\ pc[w] = "stage"
      /\ UNCHANGED <<issued, overlap, pc, snap, seen, staged, buf, free, content>>
  BY DEF poolVars
<1>3. WorkerOK(w) /\ Active(w) /\ Json(w)
  BY <1>2 DEF RowInv, WorkerInv, Active, Json
<1>4. k \in Keys /\ i \in Calls /\ i \in 1 .. issued /\ f \in Fields
      /\ result[i] \in {"none", "error"}
  BY <1>3 DEF RowInv, RowType, WorkerOK, CallOK, Calls
<1>5. store = expect
  BY <1>2, MergingKept DEF RowInv, Merging, FieldEngines
<1> HIDE DEF k, i, JsonSet
<1>6. /\ call'[w].kind = call[w].kind /\ call'[w].key = k /\ call'[w].id = i
      /\ call'[w].fields = call[w].fields /\ call'[w].left = call[w].left \ {f}
      /\ \A v \in Workers : v # w => call'[v] = call[v]
  BY <1>1 DEF RowInv, RowType, k, i
<1>7. Own(w) /\ LockStep(w)
  BY <1>2, <1>6 DEF Own, LockStep
<1>8. store' = expect' /\ store' \in [Keys -> Rows \cup {NoRow}]
  <2>1. CASE UNCHANGED engineVars
    BY <1>5, <2>1 DEF engineVars, RowInv, RowType
  <2>2. CASE store' = [store EXCEPT ![k] = Merge(@, {f}, i)]
             /\ expect' = [expect EXCEPT ![k] = Merge(@, {f}, i)] /\ store[k] # NoRow
    <3>1. store[k] \in Rows
      BY <1>4, <2>2 DEF RowInv, RowType
    <3>2. Merge(store[k], {f}, i) \in Rows
      BY <1>4, <3>1, MergeType DEF Calls
    <3> QED
      BY <1>4, <1>5, <2>2, <3>2 DEF RowInv, RowType
  <2> QED
    BY <1>1, <2>1, <2>2
<1>9. /\ UNCHANGED version
      /\ applied \subseteq applied' /\ applied' \subseteq applied \cup {i}
      /\ result' = result \/ result' = [result EXCEPT ![i] = "error"]
  BY <1>1 DEF engineVars
<1>10. RowType'
  <2>1. call' \in [Workers -> [kind : {"insert", "update", "delete"}, key : Keys,
                           fields : SUBSET Fields, id : 0 .. MaxCalls,
                           left : SUBSET Fields]]
    <3>1. call[w] \in [kind : {"insert", "update", "delete"}, key : Keys,
                       fields : SUBSET Fields, id : 0 .. MaxCalls, left : SUBSET Fields]
      BY DEF RowInv, RowType
    <3>2. call' = [call EXCEPT ![w] = [call[w] EXCEPT !.left = call[w].left \ {f}]]
      BY <1>1 DEF RowInv, RowType
    <3>3. [call[w] EXCEPT !.left = call[w].left \ {f}]
            \in [kind : {"insert", "update", "delete"}, key : Keys,
                 fields : SUBSET Fields, id : 0 .. MaxCalls, left : SUBSET Fields]
      BY <3>1
    <3> QED
      BY <3>2, <3>3 DEF RowInv, RowType
  <2>2. applied' \subseteq Calls /\ result' \in [Calls -> {"none", "nil", "missing", "error"}]
    BY <1>4, <1>9 DEF RowInv, RowType
  <2> QED
    BY <1>2, <1>8, <1>9, <2>1, <2>2 DEF RowInv, RowType
<1>11. VersionInv'
  <2>1. applied' \subseteq 1 .. issued'
    BY <1>2, <1>4, <1>9 DEF RowInv, VersionInv
  <2>2. IsFiniteSet(applied')
    <3>1. IsFiniteSet(Calls)
      BY FS_Interval, ConstantsAssumption DEF Calls
    <3> QED
      BY <1>10, <3>1, FS_Subset DEF RowType
  <2>3. Cardinality(applied) <= Cardinality(applied') /\ Cardinality(applied') \in Nat
    BY <1>9, <2>2, FS_Subset, FS_CardinalityType
  <2>4. ASSUME NEW x \in Keys PROVE version[x] <= Cardinality(applied')
    <3>1. version[x] \in Nat /\ version[x] <= Cardinality(applied)
      BY DEF RowInv, RowType, VersionInv
    <3> QED
      BY <2>3, <3>1, VersionBound
  <2> QED
    BY <1>9, <2>1, <2>4 DEF VersionInv
<1>12. IdInv' /\ SerialInv'
  BY <1>2, <1>3, <1>6, <1>7, GlobalKept DEF i
<1>13. WorkerInv'
  <2>1. WorkerOK(w)'
    <3>1. CallOK(w)'
      <4>1. \/ result'[i] = "error"
            \/ result'[i] = result[i] /\ i \in applied'
        BY <1>1, <1>4 DEF RowInv, RowType
      <4>2. result'[i] \in {"none", "error"}
        BY <1>4, <4>1
      <4>3. Json(w)'
        BY <1>2, <1>6 DEF Json
      <4>4. call[w].fields # {}
        BY <1>3 DEF WorkerOK, CallOK
      <4> QED
        BY <1>2, <1>4, <1>6, <4>1, <4>2, <4>3, <4>4 DEF CallOK, i
    <3>2. PointOK(w)' /\ StageOK(w)'
      BY <1>2 DEF PointOK, StageOK, CommitPoints, CountingPoints
    <3>3. SnapOK(w)'
      <4>1. BlindUpdate(w) /\ BlindUpdate(w)'
        BY <1>2, <1>6 DEF BlindUpdate, FieldEngines
      <4> QED
        BY <1>2, <1>3, <4>1 DEF WorkerOK, SnapOK, TxnEngines
    <3> QED
      BY <3>1, <3>2, <3>3 DEF WorkerOK
  <2>2. \A id \in Calls : id # call[w].id => result'[id] = result[id]
    BY <1>9 DEF RowInv, RowType, i
  <2>3. \A x \in Keys : /\ version'[x] \in Nat /\ version[x] <= version'[x]
                        /\ engine \in TxnEngines /\ version'[x] = version[x] =>
                             store'[x] = store[x]
    BY <1>2, <1>9 DEF RowInv, RowType, TxnEngines
  <2>4. ASSUME NEW v \in Workers, v # w PROVE WorkerOK(v)'
    BY <1>2, <1>3, <1>7, <1>9, <2>2, <2>3, <2>4, OtherWorkers DEF i
  <2> QED
    BY <2>1, <2>4 DEF WorkerInv
<1>14. FieldsKeptByAdapter'
  BY <1>8 DEF FieldsKeptByAdapter, FieldsKept
<1>15. ResultMatchesEffect'
  <2>1. ASSUME NEW id \in Calls PROVE result'[id] = "nil" => id \in applied'
    BY <1>2, <1>9 DEF RowInv, RowType, ResultMatchesEffect
  <2> QED
    BY <1>2, <2>1 DEF ResultMatchesEffect
<1>16. FutureInv'
  BY <1>2, <1>3, <1>4, <1>9, FutureKept DEF RowInv, RowType, i
<1> QED
  BY <1>10, <1>11, <1>12, <1>13, <1>14, <1>15, <1>16 DEF RowInv

\* A new call gets a new id, and notices the calls in progress.
LEMMA MakeCallRowInv ==
  ASSUME RowInv, NEW w \in Workers, NEW kind \in {"insert", "update", "delete"},
         MakeCall(w, kind), UNCHANGED <<engine, rwlock>>
  PROVE  RowInv'
<1> USE DEF MakeCall, Goto
<1>1. PICK k \in Keys, F \in (SUBSET Fields) \ {{}} :
        call' = [call EXCEPT ![w] = [kind |-> kind, key |-> k, fields |-> F,
                                     id |-> issued + 1, left |-> F]]
  OBVIOUS
<1>2. /\ issued < MaxCalls /\ issued' = issued + 1 /\ pc[w] = "idle"
      /\ pc' = [pc EXCEPT ![w] = "begin"]
      /\ overlap' = (overlap \/ \E v \in Workers : pc[v] # "idle")
      /\ UNCHANGED <<engineVars, snap, seen, staged, poolVars, result>>
  OBVIOUS
<1>3. issued \in Nat /\ issued + 1 \in Calls
  BY <1>2, ConstantsAssumption DEF RowInv, RowType, Calls
<1> HIDE DEF MakeCall, Goto
<1>4. /\ pc'[w] = "begin" /\ call'[w].id = issued + 1 /\ call'[w].fields = F /\ F # {}
      /\ call'[w].left = F
      /\ \A v \in Workers : v # w => pc'[v] = pc[v] /\ call'[v] = call[v]
  BY <1>1, <1>2 DEF RowInv, RowType
<1>5. RowType'
  <2>1. call' \in [Workers -> [kind : {"insert", "update", "delete"}, key : Keys,
                           fields : SUBSET Fields, id : 0 .. MaxCalls,
                           left : SUBSET Fields]]
    BY <1>1, <1>3 DEF RowInv, RowType, Calls
  <2>2. issued' \in 0 .. MaxCalls
    BY <1>2, <1>3, ConstantsAssumption DEF RowInv, RowType
  <2> QED
    BY <1>2, <2>1, <2>2 DEF RowInv, RowType, engineVars, poolVars
<1>6. VersionInv'
  BY <1>2, <1>3 DEF RowInv, VersionInv, engineVars
<1>7. IdInv'
  <2>1. \A v \in Workers : Active(v) => call[v].id \in 1 .. issued
    BY DEF RowInv, WorkerInv, WorkerOK, CallOK
  <2>2. \A v \in Workers : v # w /\ Active(v)' => Active(v)
    BY <1>4 DEF Active
  <2> QED
    BY <1>3, <1>4, <2>1, <2>2 DEF RowInv, IdInv
<1>8. WorkerInv'
  <2>1. issued + 1 \notin applied /\ result[issued + 1] = "none"
    BY <1>3 DEF RowInv, VersionInv, FutureInv
  <2>2. WorkerOK(w)'
    <3>1. CallOK(w)'
      BY <1>2, <1>3, <1>4, <2>1 DEF CallOK, engineVars
    <3> QED
      BY <1>4, <3>1 DEF WorkerOK, PointOK, SnapOK, StageOK, PastBegin, CommitPoints,
                        CountingPoints
  <2>3. ASSUME NEW v \in Workers, v # w PROVE WorkerOK(v)'
    <3>1. WorkerOK(v) /\ pc'[v] = pc[v] /\ call'[v] = call[v]
      BY <1>4, <2>3 DEF RowInv, WorkerInv
    <3>2. (BlindUpdate(v)' <=> BlindUpdate(v)) /\ (Json(v)' <=> Json(v))
      BY <3>1 DEF BlindUpdate, IsUpdate, Json
    <3>3. CallOK(v)'
      BY <1>2, <1>3, <3>1, <3>2 DEF WorkerOK, CallOK, Active, engineVars
    <3>4. PointOK(v)' /\ StageOK(v)'
      BY <1>2, <3>1 DEF WorkerOK, PointOK, StageOK, poolVars
    <3>5. SnapOK(v)'
      BY <1>2, <3>1, <3>2 DEF WorkerOK, SnapOK, engineVars
    <3> QED
      BY <3>3, <3>4, <3>5 DEF WorkerOK
  <2> QED
    BY <2>2, <2>3 DEF WorkerInv
<1>9. SerialInv'
  BY <1>2, <1>4 DEF SerialInv, Active
<1>10. FieldsKeptByAdapter'
  BY <1>2 DEF RowInv, FieldsKeptByAdapter, FieldsKept, engineVars
<1>11. ResultMatchesEffect'
  BY <1>2 DEF RowInv, ResultMatchesEffect, engineVars
<1>12. FutureInv'
  BY <1>2, <1>3 DEF RowInv, FutureInv, Calls
<1> QED
  BY <1>5, <1>6, <1>7, <1>8, <1>9, <1>10, <1>11, <1>12 DEF RowInv
-----------------------------------------------------------------------------
(* Every action of every adapter has one of the shapes. *)

LEMMA PutBufferKeeps ==
  ASSUME RowInv, NEW w \in Workers, PutBuffer(w)
  PROVE  PoolKept
<1>1. buf[w] \in Buffers \cup {NoBuffer} /\ free \subseteq Buffers
  BY DEF RowInv, RowType
<1> QED
  BY <1>1 DEF PutBuffer, PoolKept

LEMMA PoolUnchanged ==
  ASSUME RowInv, UNCHANGED poolVars
  PROVE  PoolKept
  BY DEF RowInv, RowType, PoolKept, poolVars

\* What a commit without a conflict installs.
LEMMA CommitRow ==
  ASSUME RowInv, NEW w \in Workers, pc[w] = "commit",
         call[w].kind = "update" => seen[w] = version[call[w].key]
  PROVE  /\ StagedRow(w) = Effect(call[w], store[call[w].key])
         /\ StagedRow(w) \in Rows \cup {NoRow}
<1>1. WorkerOK(w) /\ pc[w] \in CommitPoints /\ pc[w] \in PastBegin
  BY DEF RowInv, WorkerInv, CommitPoints, PastBegin
<1>2. StagedRow(w) = staged[w].row /\ staged[w].row = Effect(call[w], snap[w])
  BY <1>1 DEF WorkerOK, StageOK, StagedRow
<1>3. call[w].kind = "update" => snap[w] = store[call[w].key]
  BY <1>1 DEF WorkerOK, PointOK, SnapOK
<1>4. call[w].kind \in {"insert", "update", "delete"} /\ staged[w].row \in Rows \cup {NoRow}
  BY DEF RowInv, RowType
<1>5. Effect(call[w], snap[w]) = Effect(call[w], store[call[w].key])
  BY <1>3, <1>4 DEF Effect
<1> QED
  BY <1>2, <1>4, <1>5

\* The row that an adapter encodes is the effect of its call.
LEMMA EncodedRow ==
  ASSUME NEW w \in Workers
  PROVE  /\ call[w].kind = "insert" =>
              Effect(call[w], snap[w]) = Merge(EmptyRow, call[w].fields, call[w].id)
         /\ call[w].kind = "update" /\ snap[w] # NoRow =>
              Effect(call[w], snap[w]) = Merge(snap[w], call[w].fields, call[w].id)
  BY DEF Effect

LEMMA BadgerRowInv ==
  ASSUME RowInv, NEW w \in Workers, engine = "badger", UNCHANGED engine, BadgerStep(w)
  PROVE  RowInv'
<1>1. LockStep(w) /\ (engine = "boltdb") = FALSE /\ engine \in TxnEngines
      /\ engine \notin GetPutEngines
  BY DEF LockStep, TxnEngines, GetPutEngines
<1>2. CASE BadgerBegin(w)
  BY <1>1, <1>2, ReadingRowInv DEF BadgerBegin, Reading
<1>3. CASE BadgerUpdateMissing(w)
  <2>1. Ending(w, "error")
    BY <1>3, PoolUnchanged DEF BadgerUpdateMissing, Ending, Active
  <2> QED
    BY <1>1, <2>1, EndingRowInv
<1>4. CASE BadgerUpdate(w) \/ BadgerInsert(w) \/ BadgerDelete(w)
  <2>1. Staging(w, "add")
    BY <1>1, <1>4, EncodedRow DEF BadgerUpdate, BadgerInsert, BadgerDelete, Staging
  <2>2. call[w].kind = "update" => snap[w] # NoRow
    BY <1>4 DEF BadgerUpdate, BadgerInsert, BadgerDelete
  <2> QED
    BY <1>1, <2>1, <2>2, StagingRowInv DEF CommitPoints, CountingPoints
<1>5. CASE AddLoad(w) \/ AddStore(w) \/ FlushTest(w) \/ FlushAdd(w) \/ FlushReset(w)
  <2>1. PICK point \in CommitPoints : Goto(w, point)
    BY <1>5 DEF AddLoad, AddStore, FlushTest, FlushAdd, FlushReset, CommitPoints,
                CountingPoints
  <2>2. Moving(w, point)
    BY <1>5, <2>1, PoolUnchanged
    DEF AddLoad, AddStore, FlushTest, FlushAdd, FlushReset, Moving, CommitPoints,
        CountingPoints
  <2> QED
    BY <1>1, <2>2, MovingRowInv
<1>6. CASE BadgerRelease(w)
  <2>1. Moving(w, "commit")
    BY <1>6, PutBufferKeeps DEF BadgerRelease, Moving, CommitPoints
  <2> QED
    BY <1>1, <2>1, MovingRowInv DEF CommitPoints, CountingPoints
<1>7. CASE BadgerCommit(w)
  <2>1. CASE UNCHANGED engineVars /\ Return(w, "error")
    <3>1. Ending(w, "error")
      BY <1>7, <2>1, PoolUnchanged DEF BadgerCommit, Ending, Active
    <3> QED
      BY <1>1, <3>1, EndingRowInv
  <2>2. CASE ~BadgerConflict(w) /\ Install(w, StagedRow(w)) /\ Return(w, "nil")
    <3>1. Installing(w, StagedRow(w))
      BY <1>7, <2>2, PoolUnchanged DEF BadgerCommit, Installing, Active
    <3>2. ~Json(w)
      BY DEF Json, IsUpdate
    <3>3. call[w].kind = "update" => seen[w] = version[call[w].key]
      BY <2>2 DEF BadgerConflict
    <3>4. /\ StagedRow(w) = Effect(call[w], store[call[w].key])
          /\ StagedRow(w) \in Rows \cup {NoRow}
      BY <1>7, <3>3, CommitRow DEF BadgerCommit
    <3> QED
      BY <1>1, <3>1, <3>2, <3>4, InstallingRowInv
  <2> QED
    BY <1>7, <2>1, <2>2 DEF BadgerCommit
<1> QED
  BY <1>2, <1>3, <1>4, <1>5, <1>6, <1>7 DEF BadgerStep

\* Bolt's read-write transactions exclude each other.
LEMMA BoltLockStep ==
  ASSUME RowInv, NEW w \in Workers, engine = "boltdb", BoltStep(w)
  PROVE  LockStep(w)
<1> USE DEF Goto
<1>1. \A v \in Workers : pc[v] \in PastBegin => rwlock = {v}
  BY DEF RowInv, WorkerInv, WorkerOK, SnapOK
<1>2. CASE BoltBegin(w)
  BY <1>1, <1>2 DEF BoltBegin, LockStep
<1>3. CASE ~BoltBegin(w)
  <2>1. pc[w] \in PastBegin
    BY <1>3 DEF BoltStep, BoltBegin, BoltUpdateMissing, BoltUpdate, BoltInsert, BoltDelete,
                BoltRelease, BoltCommit, PastBegin, CommitPoints
  <2>2. \A v \in Workers : v # w => pc[v] \notin PastBegin
    BY <1>1, <2>1
  <2>3. rwlock' = rwlock \/ pc' = [pc EXCEPT ![w] = "idle"]
    BY <1>3 DEF BoltStep, BoltUpdateMissing, BoltUpdate, BoltInsert, BoltDelete,
                BoltRelease, BoltCommit
  <2>4. pc'[w] \in PastBegin => rwlock' = rwlock
    BY <2>3 DEF RowInv, RowType, PastBegin, CommitPoints, CountingPoints
  <2> QED
    BY <1>1, <2>1, <2>2, <2>4 DEF LockStep
<1> QED
  BY <1>2, <1>3

LEMMA BoltRowInv ==
  ASSUME RowInv, NEW w \in Workers, engine = "boltdb", UNCHANGED engine, BoltStep(w)
  PROVE  RowInv'
<1>1. LockStep(w) /\ (engine = "boltdb") = TRUE /\ engine \in TxnEngines
      /\ engine \notin GetPutEngines
  BY BoltLockStep DEF TxnEngines, GetPutEngines
<1>2. CASE BoltBegin(w)
  BY <1>1, <1>2, ReadingRowInv DEF BoltBegin, Reading
<1>3. CASE BoltUpdateMissing(w)
  <2>1. Ending(w, "error")
    BY <1>3, PoolUnchanged DEF BoltUpdateMissing, Ending, Active
  <2> QED
    BY <1>1, <2>1, EndingRowInv
<1>4. CASE BoltUpdate(w) \/ BoltInsert(w) \/ BoltDelete(w)
  <2>1. Staging(w, "release")
    BY <1>1, <1>4, EncodedRow DEF BoltUpdate, BoltInsert, BoltDelete, Staging
  <2>2. call[w].kind = "update" => snap[w] # NoRow
    BY <1>4 DEF BoltUpdate, BoltInsert, BoltDelete
  <2> QED
    BY <1>1, <2>1, <2>2, StagingRowInv DEF CommitPoints, CountingPoints
<1>5. CASE BoltRelease(w)
  <2>1. Moving(w, "commit")
    BY <1>5, PutBufferKeeps DEF BoltRelease, Moving, CommitPoints
  <2> QED
    BY <1>1, <2>1, MovingRowInv DEF CommitPoints, CountingPoints
<1>6. CASE BoltCommit(w)
  <2>1. CASE UNCHANGED engineVars /\ Return(w, "error")
    <3>1. Ending(w, "error")
      BY <1>6, <2>1, PoolUnchanged DEF BoltCommit, Ending, Active
    <3> QED
      BY <1>1, <3>1, EndingRowInv
  <2>2. CASE Install(w, StagedRow(w)) /\ Return(w, "nil")
    <3>1. Installing(w, StagedRow(w))
      BY <1>6, <2>2, PoolUnchanged DEF BoltCommit, Installing, Active
    <3>2. ~Json(w)
      BY DEF Json, IsUpdate
    <3>3. seen[w] = version[call[w].key]
      BY <1>6 DEF BoltCommit, RowInv, WorkerInv, WorkerOK, SnapOK, PastBegin, CommitPoints
    <3>4. /\ StagedRow(w) = Effect(call[w], store[call[w].key])
          /\ StagedRow(w) \in Rows \cup {NoRow}
      BY <1>6, <3>3, CommitRow DEF BoltCommit
    <3> QED
      BY <1>1, <3>1, <3>2, <3>4, InstallingRowInv
  <2> QED
    BY <1>6, <2>1, <2>2 DEF BoltCommit
<1> QED
  BY <1>2, <1>3, <1>4, <1>5, <1>6 DEF BoltStep

LEMMA OptimisticRowInv ==
  ASSUME RowInv, NEW w \in Workers, engine \in {"tikv", "fdb"}, UNCHANGED engine,
         OptimisticStep(w)
  PROVE  RowInv'
<1>1. LockStep(w) /\ (engine = "boltdb") = FALSE /\ engine \in TxnEngines
      /\ engine \notin GetPutEngines
  BY DEF LockStep, TxnEngines, GetPutEngines
<1>2. ~Json(w)
  BY DEF Json, IsUpdate
<1>3. CASE TxnBegin(w)
  BY <1>1, <1>3, ReadingRowInv DEF TxnBegin, Reading
<1>4. CASE TxnFails(w) \/ TxnMissing(w)
  <2>1. Ending(w, "error") \/ Ending(w, "missing")
    BY <1>4, PoolUnchanged DEF TxnFails, TxnMissing, Ending, Active
  <2> QED
    BY <1>1, <2>1, EndingRowInv
<1>5. CASE TikvStage(w) \/ FdbStage(w)
  <2>1. StageWrite(w)
    BY <1>5 DEF TikvStage, FdbStage
  <2>2. PICK point \in {"release", "commit"} : Goto(w, point)
    BY <1>5 DEF TikvStage, FdbStage
  <2>3. Staging(w, point)
    BY <1>1, <2>1, <2>2, EncodedRow DEF StageWrite, Staging
  <2>4. call[w].kind = "update" => snap[w] # NoRow
    BY <2>1 DEF StageWrite
  <2> QED
    BY <1>1, <2>3, <2>4, StagingRowInv DEF CommitPoints, CountingPoints
<1>6. CASE FdbRelease(w)
  <2>1. Moving(w, "commit")
    BY <1>6, PutBufferKeeps DEF FdbRelease, Moving, CommitPoints
  <2> QED
    BY <1>1, <2>1, MovingRowInv DEF CommitPoints, CountingPoints
<1>7. CASE FdbCommit(w) /\ FdbConflict(w)
  <2>1. Moving(w, "begin")
    BY <1>7, PoolUnchanged DEF FdbCommit, Moving, CommitPoints
  <2> QED
    BY <1>1, <2>1, MovingRowInv DEF CountingPoints
<1>8. CASE TikvCommit(w) \/ (FdbCommit(w) /\ ~FdbConflict(w))
  <2>1. PoolKept
    BY <1>8, PutBufferKeeps, PoolUnchanged DEF TikvCommit, FdbCommit, FdbPutBuffer
  <2>2. /\ pc[w] = "commit" /\ Goto(w, "idle")
        /\ UNCHANGED <<callVars, snap, seen, staged>>
    BY <1>8 DEF TikvCommit, FdbCommit
  <2>3. CASE UNCHANGED engineVars /\ Return(w, "error")
    <3>1. Ending(w, "error")
      BY <2>1, <2>2, <2>3 DEF Ending, Active
    <3> QED
      BY <1>1, <3>1, EndingRowInv
  <2>4. CASE /\ Install(w, StagedRow(w)) /\ Return(w, "nil")
             /\ call[w].kind = "update" => seen[w] = version[call[w].key]
    <3>1. Installing(w, StagedRow(w))
      BY <2>1, <2>2, <2>4 DEF Installing, Active
    <3>2. /\ StagedRow(w) = Effect(call[w], store[call[w].key])
          /\ StagedRow(w) \in Rows \cup {NoRow}
      BY <2>2, <2>4, CommitRow
    <3> QED
      BY <1>1, <1>2, <3>1, <3>2, InstallingRowInv
  <2> QED
    BY <1>8, <2>3, <2>4 DEF TikvCommit, TikvConflict, FdbCommit, FdbConflict
<1> QED
  BY <1>3, <1>4, <1>5, <1>6, <1>7, <1>8 DEF OptimisticStep

LEMMA WriteRowInv ==
  ASSUME RowInv, NEW w \in Workers, NEW row \in Rows \cup {NoRow}, Active(w), Write(w, row),
         engine \in GetPutEngines, UNCHANGED engine, ~Json(w),
         Merging => row = Effect(call[w], store[call[w].key])
  PROVE  RowInv'
<1>1. LockStep(w)
  BY DEF LockStep, GetPutEngines
<1>2. CASE UNCHANGED engineVars /\ Return(w, "error")
  <2>1. Ending(w, "error")
    BY <1>2, PoolUnchanged DEF Write, Ending
  <2> QED
    BY <1>1, <2>1, EndingRowInv
<1>3. CASE Install(w, row) /\ Return(w, "nil")
  <2>1. Installing(w, row)
    BY <1>3, PoolUnchanged DEF Write, Installing
  <2> QED
    BY <1>1, <2>1, InstallingRowInv
<1> QED
  BY <1>2, <1>3 DEF Write

LEMMA GetPutRowTypes ==
  ASSUME RowType, NEW w \in Workers
  PROVE  /\ OnlyValues(w) \in Rows /\ Merged(w) \in Rows
         /\ \A row \in Rows : OverCurrent(w, row) \in Rows
<1>1. call[w].fields \in SUBSET Fields /\ call[w].id \in 0 .. MaxCalls
      /\ snap[w] \in Rows \cup {NoRow} /\ store[call[w].key] \in Rows \cup {NoRow}
  BY DEF RowType
<1>2. OnlyValues(w) \in Rows
  BY <1>1, MergeType, EmptyRowType DEF OnlyValues
<1>3. Merged(w) \in Rows
  BY <1>1, MergeType, EmptyRowType DEF Merged
<1>4. ASSUME NEW row \in Rows PROVE OverCurrent(w, row) \in Rows
  <2> DEFINE now == store[call[w].key]
  <2>1. CASE now = NoRow
    BY <2>1 DEF OverCurrent
  <2>2. CASE now # NoRow
    <3>1. now \in Rows
      BY <1>1, <2>2
    <3>2. DOMAIN now \cup DOMAIN row \in SUBSET Fields
      BY <3>1, RowsElim
    <3>3. OverCurrent(w, row) = [f \in DOMAIN now \cup DOMAIN row |->
                                   IF f \in DOMAIN row THEN row[f] ELSE now[f]]
      BY <2>2 DEF OverCurrent
    <3>4. OverCurrent(w, row) \in [DOMAIN now \cup DOMAIN row -> 0 .. MaxCalls]
      BY <3>1, <3>3, RowsElim
    <3> QED
      BY <3>2, <3>4, RowsIntro
  <2> QED
    BY <2>1, <2>2
<1> QED
  BY <1>2, <1>3, <1>4

\* Without an overlap, the row read is still there.
LEMMA SerialSnap ==
  ASSUME RowInv, NEW w \in Workers, pc[w] = "stage", engine \in GetPutEngines, Merging,
         engine \notin FieldEngines, ~BlindUpdate(w)
  PROVE  snap[w] = store[call[w].key]
<1>1. ~overlap
  BY DEF Merging, GetPutEngines, TxnEngines
<1> QED
  BY <1>1 DEF RowInv, WorkerInv, WorkerOK, SnapOK, PastBegin

LEMMA GetPutRowInv ==
  ASSUME RowInv, NEW w \in Workers, engine \in GetPutEngines, UNCHANGED engine,
         GetPutStep(w)
  PROVE  RowInv'
<1>1. LockStep(w)
  BY DEF LockStep, GetPutEngines
<1>2. OnlyValues(w) \in Rows /\ Merged(w) \in Rows
      /\ OverCurrent(w, OnlyValues(w)) \in Rows /\ OverCurrent(w, Merged(w)) \in Rows
  BY GetPutRowTypes DEF RowInv
<1>3. CASE Get(w)
  BY <1>1, <1>3, ReadingRowInv DEF Get, Reading
<1>4. CASE SkipGet(w)
  BY <1>4, SkipGetRowInv
<1>5. CASE GetFails(w)
  <2>1. Ending(w, IF engine = "raw" THEN "nil" ELSE "error")
    BY <1>5, PoolUnchanged DEF GetFails, Ending, Active
  <2> QED
    BY <1>1, <2>1, EndingRowInv
<1>6. CASE RedisMissing(w)
  <2>1. Ending(w, "error")
    BY <1>6, PoolUnchanged DEF RedisMissing, Ending, Active
  <2> QED
    BY <1>1, <2>1, EndingRowInv
<1>7. CASE RocksUpdate(w) \/ RawUpdate(w)
  <2>1. /\ Write(w, Merged(w)) /\ pc[w] = "stage" /\ engine \in {"rocksdb", "raw"}
        /\ call[w].kind = "update"
    BY <1>7 DEF RocksUpdate, RawUpdate, IsUpdate
  <2>2. ~BlindUpdate(w) /\ ~Json(w) /\ engine \notin FieldEngines
    BY <2>1 DEF BlindUpdate, Json, IsUpdate, ReplacingEngines, FieldEngines
  <2>3. Merging => Merged(w) = Effect(call[w], store[call[w].key])
    BY <2>1, <2>2, SerialSnap DEF Merged, Effect
  <2> QED
    BY <1>2, <2>1, <2>2, <2>3, WriteRowInv DEF Active
<1>8. CASE RedisUpdate(w)
  <2>1. /\ Write(w, Merged(w)) /\ pc[w] = "stage" /\ engine = "redis"
        /\ call[w].kind = "update"
    BY <1>8 DEF RedisUpdate, IsUpdate
  <2>2. ~Json(w) /\ engine \notin FieldEngines
    BY <2>1 DEF Json, IsUpdate, FieldEngines
  <2>3. CASE BlindUpdate(w)
    <3>1. call[w].fields = Fields
      BY <2>1, <2>3 DEF BlindUpdate, IsUpdate, ReplacingEngines, FieldEngines
    <3>2. snap[w] = EmptyRow
      BY <2>1, <2>3 DEF RowInv, WorkerInv, WorkerOK, SnapOK, PastBegin
    <3>3. Merged(w) = Merge(EmptyRow, Fields, call[w].id)
      BY <3>1, <3>2 DEF Merged
    <3>4. store[call[w].key] \in Rows \cup {NoRow}
      BY DEF RowInv, RowType
    <3>5. Effect(call[w], store[call[w].key]) = Merge(EmptyRow, Fields, call[w].id)
      BY <2>1, <3>1, <3>4, MergeAll, EmptyRowType DEF Effect
    <3> QED
      BY <1>2, <2>1, <2>2, <3>3, <3>5, WriteRowInv DEF Active
  <2>4. CASE ~BlindUpdate(w)
    <3>1. Merging => Merged(w) = Effect(call[w], store[call[w].key])
      BY <2>1, <2>2, <2>4, SerialSnap DEF Merged, Effect
    <3> QED
      BY <1>2, <2>1, <2>2, <3>1, WriteRowInv DEF Active
  <2> QED
    BY <2>3, <2>4
<1>9. CASE EtcdUpdate(w) \/ PegasusUpdate(w)
  <2>1. Write(w, OnlyValues(w)) /\ pc[w] = "stage" /\ engine \in ReplacingEngines
    BY <1>9 DEF EtcdUpdate, PegasusUpdate, IsUpdate, ReplacingEngines
  <2>2. ~Json(w) /\ ~Merging
    BY <2>1 DEF Json, IsUpdate, Merging, ReplacingEngines, TxnEngines, FieldEngines
  <2> QED
    BY <1>2, <2>1, <2>2, WriteRowInv DEF Active
<1>10. CASE AerospikeUpdate(w)
  <2>1. /\ Write(w, OverCurrent(w, Merged(w))) /\ pc[w] = "stage" /\ engine = "aerospike"
        /\ call[w].kind = "update"
    BY <1>10 DEF AerospikeUpdate, IsUpdate
  <2>2. ~BlindUpdate(w) /\ ~Json(w) /\ engine \notin FieldEngines
    BY <2>1 DEF BlindUpdate, Json, IsUpdate, ReplacingEngines, FieldEngines
  <2>3. Merging => OverCurrent(w, Merged(w)) = Effect(call[w], store[call[w].key])
    BY <2>1, <2>2, SerialSnap, OverCurrentMerged DEF RowInv
  <2> QED
    BY <1>2, <2>1, <2>2, <2>3, WriteRowInv DEF Active
<1>11. CASE HashSet(w)
  <2>1. /\ Write(w, OverCurrent(w, OnlyValues(w))) /\ pc[w] = "stage"
        /\ engine = "redisHash" /\ call[w].kind = "update"
    BY <1>11 DEF HashSet, IsUpdate
  <2>2. ~Json(w)
    BY <2>1 DEF Json, IsUpdate
  <2>3. OverCurrent(w, OnlyValues(w)) = Effect(call[w], store[call[w].key])
    BY <2>1, OverCurrentValues DEF RowInv
  <2> QED
    BY <1>2, <2>1, <2>2, <2>3, WriteRowInv DEF Active
<1>12. CASE JsonSet(w)
  BY <1>12, JsonSetRowInv
<1>13. CASE JsonReplies(w)
  <2>1. Json(w) /\ Active(w) /\ call[w].left = {}
    BY <1>13 DEF JsonReplies, Json, Active
  <2>2. Ending(w, IF result[call[w].id] = "error" THEN "error" ELSE "nil")
    BY <1>13, <2>1, PoolUnchanged DEF JsonReplies, Ending
  <2>3. result[call[w].id] # "error" => call[w].id \in applied
    BY <2>1 DEF RowInv, WorkerInv, WorkerOK, CallOK
  <2> QED
    BY <1>1, <2>2, <2>3, EndingRowInv
<1>14. CASE PutNew(w)
  <2>1. Write(w, OnlyValues(w)) /\ pc[w] = "begin" /\ call[w].kind = "insert"
    BY <1>14 DEF PutNew
  <2>2. ~Json(w) /\ OnlyValues(w) = Effect(call[w], store[call[w].key])
    BY <2>1 DEF Json, IsUpdate, OnlyValues, Effect
  <2> QED
    BY <1>2, <2>1, <2>2, WriteRowInv DEF Active
<1>15. CASE PutNothing(w)
  <2>1. Write(w, NoRow) /\ pc[w] = "begin" /\ call[w].kind = "delete"
    BY <1>15 DEF PutNothing
  <2>2. ~Json(w) /\ NoRow = Effect(call[w], store[call[w].key])
    BY <2>1 DEF Json, IsUpdate, Effect
  <2> QED
    BY <2>1, <2>2, WriteRowInv DEF Active
<1> QED
  BY <1>3, <1>4, <1>5, <1>6, <1>7, <1>8, <1>9, <1>10, <1>11, <1>12, <1>13, <1>14, <1>15
  DEF GetPutStep

LEMMA StutterRowInv == ASSUME RowInv, UNCHANGED <<engine, rowVars, rwlock>> PROVE RowInv'
<1> USE DEF rowVars, engineVars, callVars, poolVars
<1>1. RowType' /\ VersionInv' /\ FutureInv' /\ ResultMatchesEffect' /\ FieldsKeptByAdapter'
  BY DEF RowInv, RowType, VersionInv, FutureInv, ResultMatchesEffect, FieldsKeptByAdapter,
         FieldsKept
<1>2. IdInv' /\ SerialInv'
  BY DEF RowInv, IdInv, SerialInv, Active
<1>3. ASSUME NEW w \in Workers PROVE WorkerOK(w)'
  <2>1. WorkerOK(w) /\ (BlindUpdate(w)' <=> BlindUpdate(w)) /\ (Json(w)' <=> Json(w))
    BY DEF RowInv, WorkerInv, BlindUpdate, Json, IsUpdate
  <2>2. CallOK(w)' /\ PointOK(w)' /\ StageOK(w)'
    BY <2>1 DEF WorkerOK, CallOK, Active, PointOK, StageOK
  <2>3. SnapOK(w)'
    BY <2>1 DEF WorkerOK, SnapOK
  <2> QED
    BY <2>2, <2>3 DEF WorkerOK
<1> QED
  BY <1>1, <1>2, <1>3 DEF RowInv, WorkerInv
-----------------------------------------------------------------------------
(* The byte count of badger. *)

Between == {"addStore", "flushReset"}

\* A step that leaves the counters alone, and starts or ends no access to them.
LEMMA BytesKept ==
  ASSUME BytesInv, UNCHANGED byteVars, overlap => overlap',
         \A v \in Workers : pc'[v] = pc[v] \/ (pc[v] \notin Between /\ pc'[v] \notin Between)
  PROVE  BytesInv'
  BY DEF BytesInv, byteVars, Between, LogicalBytesExact

\* The only call in progress counts its bytes.
LEMMA CountingBytes ==
  ASSUME RowInv, BytesInv, NEW w \in Workers, ~closed, UNCHANGED overlap,
         \/ AddLoad(w) \/ AddStore(w) \/ FlushAdd(w) \/ FlushReset(w)
  PROVE  BytesInv'
<1> USE DEF AddLoad, AddStore, FlushAdd, FlushReset, Goto
<1>1. /\ localBytesCount \in Nat /\ GlobalLogicalWriteBytes \in Nat /\ payload \in Nat
      /\ sum[w] \in Nat /\ PayloadSize(w) \in Nat
  BY DEF BytesInv, PayloadSize
<1>2. {localBytesCount, GlobalLogicalWriteBytes, payload}' \subseteq Nat
  BY <1>1 DEF BytesInv
<1>3. sum' \in [Workers -> Nat]
  BY <1>1 DEF BytesInv
<1>4. ~closed'
  OBVIOUS
<1>5. ASSUME ~overlap
      PROVE  /\ \/ \E v \in Workers : pc'[v] \in Between
                \/ GlobalLogicalWriteBytes' + localBytesCount' = payload'
             /\ \A v \in Workers :
                  /\ pc'[v] = "addStore" => GlobalLogicalWriteBytes' + sum'[v] = payload'
                  /\ pc'[v] = "flushReset" => GlobalLogicalWriteBytes' = payload'
  <2>1. \A v \in Workers : v # w => pc[v] = "idle" /\ pc'[v] = "idle"
    BY <1>5 DEF RowInv, RowType, SerialInv, Active
  <2>2. w \in DOMAIN pc /\ w \in DOMAIN sum
    BY DEF RowInv, RowType, BytesInv
  <2>3. CASE AddLoad(w)
    <3>1. GlobalLogicalWriteBytes + localBytesCount = payload
      BY <1>5, <2>1, <2>3 DEF BytesInv
    <3> QED
      BY <1>1, <2>1, <2>2, <2>3, <3>1 DEF Between
  <2>4. CASE AddStore(w)
    <3>1. GlobalLogicalWriteBytes + sum[w] = payload
      BY <1>5, <2>4 DEF BytesInv
    <3> QED
      BY <1>1, <2>1, <2>2, <2>4, <3>1 DEF Between
  <2>5. CASE FlushAdd(w)
    <3>1. GlobalLogicalWriteBytes + localBytesCount = payload
      BY <1>5, <2>1, <2>5 DEF BytesInv
    <3> QED
      BY <1>1, <2>1, <2>2, <2>5, <3>1 DEF Between
  <2>6. CASE FlushReset(w)
    <3>1. GlobalLogicalWriteBytes = payload
      BY <1>5, <2>6 DEF BytesInv
    <3> QED
      BY <1>1, <2>1, <2>2, <2>6, <3>1 DEF Between
  <2> QED
    BY <2>3, <2>4, <2>5, <2>6
<1> QED
  BY <1>2, <1>3, <1>4, <1>5 DEF BytesInv, LogicalBytesExact, Between

LEMMA BadgerBytes ==
  ASSUME RowInv, BytesInv, NEW w \in Workers, ~closed, BadgerStep(w)
  PROVE  BytesInv'
<1>1. UNCHANGED overlap
  BY DEF BadgerStep, BadgerBegin, BadgerUpdateMissing, BadgerUpdate, BadgerInsert,
         BadgerDelete, AddLoad, AddStore, FlushTest, FlushAdd, FlushReset, BadgerRelease,
         BadgerCommit, callVars
<1>2. CASE AddLoad(w) \/ AddStore(w) \/ FlushAdd(w) \/ FlushReset(w)
  BY <1>1, <1>2, CountingBytes
<1>3. CASE \/ BadgerBegin(w) \/ BadgerUpdateMissing(w) \/ BadgerUpdate(w) \/ BadgerInsert(w)
           \/ BadgerDelete(w) \/ FlushTest(w) \/ BadgerRelease(w) \/ BadgerCommit(w)
  <2>1. UNCHANGED byteVars /\ pc[w] \notin Between
    BY <1>3 DEF BadgerBegin, BadgerUpdateMissing, BadgerUpdate, BadgerInsert,
                BadgerDelete, FlushTest, BadgerRelease, BadgerCommit, Between
  <2>2. \E p \in {"stage", "idle", "add", "flushAdd", "release", "commit"} :
          pc' = [pc EXCEPT ![w] = p]
    BY <1>3 DEF BadgerBegin, BadgerUpdateMissing, BadgerUpdate, BadgerInsert,
                BadgerDelete, FlushTest, BadgerRelease, BadgerCommit, Goto
  <2>3. \A v \in Workers :
          pc'[v] = pc[v] \/ (pc[v] \notin Between /\ pc'[v] \notin Between)
    BY <2>1, <2>2 DEF RowInv, RowType, Between
  <2> QED
    BY <1>1, <2>1, <2>3, BytesKept
<1> QED
  BY <1>2, <1>3 DEF BadgerStep

\* The other adapters count nothing.
LEMMA OtherBytes ==
  ASSUME RowInv, BytesInv, NEW w \in Workers, engine # "badger", UNCHANGED byteVars,
         BoltStep(w) \/ OptimisticStep(w) \/ GetPutStep(w)
  PROVE  BytesInv'
<1>1. pc[w] \notin Between
  BY DEF RowInv, WorkerInv, WorkerOK, PointOK, CountingPoints, Between
<1>2. UNCHANGED overlap
  BY DEF BoltStep, BoltBegin, BoltUpdateMissing, BoltUpdate, BoltInsert, BoltDelete,
         BoltRelease, BoltCommit, OptimisticStep, TxnBegin, TxnFails, TxnMissing, TikvStage,
         FdbStage, StageWrite, TikvCommit, FdbRelease, FdbCommit, GetPutStep, Get, SkipGet,
         GetFails, RedisMissing, Write, RocksUpdate, RawUpdate, RedisUpdate, EtcdUpdate,
         PegasusUpdate, AerospikeUpdate, HashSet, JsonSet, JsonReplies, PutNew, PutNothing,
         callVars
<1>3. \/ UNCHANGED pc
      \/ \E p \in {"begin", "stage", "idle", "release", "commit"} :
           pc' = [pc EXCEPT ![w] = p]
  BY DEF BoltStep, BoltBegin, BoltUpdateMissing, BoltUpdate, BoltInsert, BoltDelete,
         BoltRelease, BoltCommit, OptimisticStep, TxnBegin, TxnFails, TxnMissing, TikvStage,
         FdbStage, StageWrite, TikvCommit, FdbRelease, FdbCommit, GetPutStep, Get, SkipGet,
         GetFails, RedisMissing, Write, RocksUpdate, RawUpdate, RedisUpdate, EtcdUpdate,
         PegasusUpdate, AerospikeUpdate, HashSet, JsonSet, JsonReplies, PutNew, PutNothing,
         Goto
<1>4. \A v \in Workers : pc'[v] = pc[v] \/ (pc[v] \notin Between /\ pc'[v] \notin Between)
  BY <1>1, <1>3 DEF RowInv, RowType, Between
<1> QED
  BY <1>2, <1>4, BytesKept

LEMMA CloseBytes ==
  ASSUME RowInv, BytesInv, Close
  PROVE  BytesInv'
<1>1. /\ localBytesCount \in Nat /\ GlobalLogicalWriteBytes \in Nat /\ payload \in Nat
  BY DEF BytesInv
<1>2. UNCHANGED <<pc, overlap, sum, payload>> /\ \A w \in Workers : pc[w] = "idle"
  BY DEF Close, rowVars, callVars
<1>3. ~overlap => GlobalLogicalWriteBytes + localBytesCount = payload
  BY <1>2 DEF BytesInv
<1>4. GlobalLogicalWriteBytes' = GlobalLogicalWriteBytes + localBytesCount
      /\ localBytesCount' = 0
  BY DEF Close
<1> QED
  BY <1>1, <1>2, <1>3, <1>4 DEF BytesInv, LogicalBytesExact
-----------------------------------------------------------------------------
(* The theorems. *)

LEMMA InitIInv == Init => IInv
<1> SUFFICES ASSUME Init PROVE IInv
  OBVIOUS
<1> USE ConstantsAssumption DEF Init, RowInit
<1>1. RowType
  <2>1. (CHOOSE k \in Keys : TRUE) \in Keys
    OBVIOUS
  <2>2. NoCall(CHOOSE k \in Keys : TRUE)
          \in [kind : {"insert", "update", "delete"}, key : Keys,
               fields : SUBSET Fields, id : 0 .. MaxCalls, left : SUBSET Fields]
    BY <2>1 DEF NoCall
  <2>3. [f \in Fields |-> 0] \in Rows
    <3>1. [f \in Fields |-> 0] \in [Fields -> 0 .. MaxCalls]
      OBVIOUS
    <3> QED
      BY <3>1, RowsIntro
  <2>4. store \in [Keys -> Rows \cup {NoRow}] /\ expect \in [Keys -> Rows \cup {NoRow}]
    BY <2>3
  <2>5. content \in [Buffers -> Rows]
    BY EmptyRowType
  <2>6. call \in [Workers -> [kind : {"insert", "update", "delete"}, key : Keys,
                  fields : SUBSET Fields, id : 0 .. MaxCalls, left : SUBSET Fields]]
    BY <2>2
  <2>7. staged \in [Workers -> [ref : BOOLEAN, row : Rows \cup {NoRow}]]
    OBVIOUS
  <2> QED
    BY <2>4, <2>5, <2>6, <2>7 DEF RowType
<1>2. VersionInv /\ FutureInv
  BY FS_EmptySet DEF VersionInv, FutureInv
<1>3. IdInv /\ SerialInv
  BY DEF IdInv, SerialInv, Active
<1>4. WorkerInv
  BY DEF WorkerInv, WorkerOK, CallOK, PointOK, SnapOK, StageOK, Active, PastBegin,
         CommitPoints, CountingPoints
<1>5. FieldsKeptByAdapter /\ ResultMatchesEffect
  BY DEF FieldsKeptByAdapter, FieldsKept, ResultMatchesEffect
<1>6. BytesInv
  BY DEF BadgerInit, BytesInv, LogicalBytesExact
<1>7. overlap \in BOOLEAN
  OBVIOUS
<1> QED
  BY <1>1, <1>2, <1>3, <1>4, <1>5, <1>6, <1>7 DEF IInv, RowInv

LEMMA OverlapType ==
  ASSUME overlap \in BOOLEAN, NEW w \in Workers, NEW kind, MakeCall(w, kind)
  PROVE  overlap' \in BOOLEAN
  BY Zenon DEF MakeCall

LEMMA NextIInv == IInv /\ [Next]_vars => IInv'
<1> SUFFICES ASSUME IInv, [Next]_vars PROVE IInv'
  OBVIOUS
<1> USE DEF IInv
<1>1. CASE UNCHANGED vars
  <2>1. UNCHANGED <<engine, rowVars, rwlock, byteVars, pc, overlap>>
    BY <1>1 DEF vars, rowVars, callVars
  <2>2. RowInv'
    BY <2>1, StutterRowInv
  <2>3. BytesInv'
    BY <2>1, BytesKept
  <2> QED
    BY <2>1, <2>2, <2>3
<1>2. CASE Next
  <2>1. ~closed /\ UNCHANGED engine
    BY <1>2 DEF Next
  <2>2. ASSUME NEW w \in Workers, StartCall(w) PROVE IInv'
    <3>1. PICK kind \in {"insert", "update", "delete"} : MakeCall(w, kind)
      BY <2>2 DEF StartCall
    <3>2. UNCHANGED <<byteVars, rwlock>>
      BY <2>2 DEF StartCall
    <3>3. RowInv'
      BY <2>1, <3>1, <3>2, MakeCallRowInv
    <3>4. overlap => overlap'
      BY <3>1 DEF MakeCall
    <3>5. \A v \in Workers : pc'[v] = pc[v] \/ (pc[v] \notin Between /\ pc'[v] \notin Between)
      BY <3>1 DEF MakeCall, Goto, RowInv, RowType, Between
    <3>6. BytesInv'
      BY <3>2, <3>4, <3>5, BytesKept
    <3> QED
      BY <3>1, <3>3, <3>6, OverlapType
  <2>3. ASSUME NEW w \in Workers, AdapterStep(w) PROVE IInv'
    <3>1. RowInv'
      BY <2>1, <2>3, BadgerRowInv, BoltRowInv, OptimisticRowInv, GetPutRowInv
      DEF AdapterStep
    <3>2. BytesInv'
      <4>1. CASE engine = "badger" /\ BadgerStep(w)
        BY <2>1, <4>1, BadgerBytes
      <4>2. CASE engine # "badger"
        BY <2>3, <4>2, OtherBytes DEF AdapterStep, byteVars
      <4> QED
        BY <2>3, <4>1, <4>2 DEF AdapterStep, GetPutEngines
    <3>3. UNCHANGED overlap
      BY <2>3
      DEF AdapterStep, BadgerStep, BadgerBegin, BadgerUpdateMissing, BadgerUpdate,
          BadgerInsert, BadgerDelete, AddLoad, AddStore, FlushTest, FlushAdd, FlushReset,
          BadgerRelease, BadgerCommit, BoltStep, BoltBegin, BoltUpdateMissing, BoltUpdate,
          BoltInsert, BoltDelete, BoltRelease, BoltCommit, OptimisticStep, TxnBegin,
          TxnFails, TxnMissing, TikvStage, FdbStage, StageWrite, TikvCommit, FdbRelease,
          FdbCommit, GetPutStep, Get, SkipGet, GetFails, RedisMissing, Write, RocksUpdate,
          RawUpdate, RedisUpdate, EtcdUpdate, PegasusUpdate, AerospikeUpdate, HashSet,
          JsonSet, JsonReplies, PutNew, PutNothing, callVars
    <3> QED
      BY <3>1, <3>2, <3>3
  <2>4. ASSUME CloseDB PROVE IInv'
    <3>1. Close /\ UNCHANGED <<rowVars, rwlock, overlap>>
      BY <2>4 DEF CloseDB, Close, rowVars, callVars
    <3>2. RowInv'
      BY <2>1, <3>1, StutterRowInv
    <3>3. BytesInv'
      BY <3>1, CloseBytes
    <3> QED
      BY <3>1, <3>2, <3>3
  <2> QED
    BY <1>2, <2>2, <2>3, <2>4 DEF Next
<1> QED
  BY <1>1, <1>2

LEMMA Invariance == Spec => []IInv
  BY InitIInv, NextIInv, PTL DEF Spec

\* The rows are what the calls give one after the other: with the transactional adapters
\* and redis's hash and JSON types however the calls overlap, with the adapters that Get
\* and Put while no two calls overlap.
THEOREM FieldsKeptHolds == Spec => []FieldsKeptByAdapter
<1>1. IInv => FieldsKeptByAdapter
  BY DEF IInv, RowInv
<1> QED
  BY <1>1, Invariance, PTL

\* What a transaction installs is what it encoded, although its buffer may be back in
\* the pool (util.go, BufPool; badger/db.go and boltdb/db.go, the deferred Put).
THEOREM StagedRowIntactHolds == Spec => []StagedRowIntact
<1>1. IInv => StagedRowIntact
  <2> SUFFICES ASSUME IInv PROVE StagedRowIntact
    OBVIOUS
  <2>1. version \in [Keys -> 0 .. MaxCalls]
    BY VersionBound DEF IInv, RowInv, RowType
  <2>2. {store, expect} \subseteq [Keys -> Rows \cup {NoRow}]
    BY DEF IInv, RowInv, RowType
  <2>3. TypeOK
    BY <2>1, <2>2 DEF IInv, RowInv, RowType, TypeOK, PastBegin, CommitPoints
  <2>4. ASSUME NEW w \in Workers, pc[w] \in CommitPoints
        PROVE  StagedRow(w) = staged[w].row
    BY <2>4 DEF IInv, RowInv, WorkerInv, WorkerOK, StageOK, StagedRow
  <2> QED
    BY <2>3, <2>4 DEF StagedRowIntact, CommitPoints
<1> QED
  BY <1>1, Invariance, PTL

\* A call that returned nil took effect and one that returned an error did not, with the
\* exceptions that ResultMatchesEffect names.
THEOREM ResultMatchesEffectHolds == Spec => []ResultMatchesEffect
<1>1. IInv => ResultMatchesEffect
  BY DEF IInv, RowInv
<1> QED
  BY <1>1, Invariance, PTL

\* The logical bytes that badger's Close reports are those of all the writes when no two
\* calls overlapped, for every FlushSize (badger/db.go, localBytesCount).
THEOREM SerialBytesExactHolds == Spec => []SerialBytesExact
<1>1. IInv => SerialBytesExact
  BY DEF IInv, BytesInv, SerialBytesExact
<1> QED
  BY <1>1, Invariance, PTL
=============================================================================
