------------------------------ MODULE CoreRun -------------------------------
(***************************************************************************)
(* The run phase of the core workload (pkg/workload/core.go): workers that *)
(* call DoTransaction or DoBatchTransaction in a loop.  The insert keys    *)
(* come from AckSequence, which AckCounter implements; the keys of the     *)
(* other operations come from the chooser of requestdistribution, which    *)
(* for "latest" and "exponential" counts back from Last.                   *)
(*                                                                         *)
(* The database is external: a call takes effect and returns nil, or       *)
(* returns an error after any part of it took effect.  A row is the set of *)
(* fields it has; the values are left out.  The load stored the keys       *)
(* 0 .. RecordCount-1 (insertstart 0, insertcount recordcount).            *)
(***************************************************************************)
EXTENDS Integers, FiniteSets

CONSTANTS Workers,          \* the worker goroutines
          RecordCount,      \* recordcount
          ExpectedNewKeys,  \* keys "zipfian" adds to its range for inserts
          Fields,           \* the field names
          Modes,            \* the properties tried: chooser, batchSize, and
                            \* writeAllFields
          MaxKey            \* bound on the keys inserted in a behaviour

Choosers == {"uniform", "zipfian", "latest", "exponential", "mixgraph"}

ASSUME ConstantsAssumption ==
  /\ RecordCount \in Nat /\ RecordCount > 3  \* "latest" needs four: see Zipfian
  /\ ExpectedNewKeys \in Nat
  /\ MaxKey \in Nat /\ RecordCount <= MaxKey
  /\ IsFiniteSet(Workers)
  /\ Modes \subseteq [chooser : Choosers, batchSize : Nat \ {0},
                      writeAllFields : BOOLEAN]

VARIABLES mode,     \* the properties of this process
          issued,   \* AckSequence: the next insert key
          unacked,  \* AckSequence: the keys issued and not acknowledged
          last,     \* AckSequence: transactionInsertKeySequence.Last()
          rows,     \* the fields stored under each key
          ended,    \* the keys whose insert call has returned
          whole,    \* the keys whose insert call returned nil
          pc,       \* program point of each worker
          op,       \* the operation of each worker
          keys,     \* the keys of that operation
          left      \* keys the operation still has to choose

seqVars == <<issued, unacked, last>>
dbVars == <<rows, ended, whole>>
vars == <<mode, seqVars, dbVars, pc, op, keys, left>>

KeySeq == INSTANCE AckSequence WITH Start <- RecordCount

AllKeys == (0 .. MaxKey) \cup (0 .. RecordCount + ExpectedNewKeys)

Init ==
  /\ mode \in Modes
  /\ KeySeq!SeqInit
  /\ rows = [k \in AllKeys |-> IF k < RecordCount THEN Fields ELSE {}]
  /\ ended = {}
  /\ whole = {}
  /\ pc = [w \in Workers |-> "idle"]
  /\ op = [w \in Workers |-> "read"]
  /\ keys = [w \in Workers |-> {}]
  /\ left = [w \in Workers |-> 0]

Goto(w, point) == pc' = [pc EXCEPT ![w] = point]

Begin(w, operation, K, n) ==
  /\ op' = [op EXCEPT ![w] = operation]
  /\ keys' = [keys EXCEPT ![w] = K]
  /\ left' = [left EXCEPT ![w] = n]
  /\ UNCHANGED <<mode, seqVars, dbVars>>

\* What keyChooser.Next, and nextKeyNum for "exponential", can return: the ranges
\* given to the generators by Create.
KeyRange ==
  CASE mode.chooser \in {"uniform", "mixgraph"} -> 0 .. RecordCount - 1
    [] mode.chooser = "zipfian" -> 0 .. RecordCount + ExpectedNewKeys
    [] mode.chooser \in {"latest", "exponential"} -> 0 .. last

KeyFirst == mode.chooser = "mixgraph" /\ mode.batchSize = 1

\* DoTransaction with "mixgraph": the key comes first, and its region decides
\* between a read and an update.
ChooseKeyFirst(w) ==
  /\ pc[w] = "idle"
  /\ KeyFirst
  /\ \E k \in KeyRange, operation \in {"read", "update"} :
       Begin(w, operation, {k}, 0)
  /\ Goto(w, "call")

Operations ==
  IF mode.batchSize = 1 THEN {"read", "update", "scan", "readModifyWrite"}
  ELSE {"read", "update"}

\* Otherwise the operation comes first.  In batch mode a read-modify-write does
\* nothing, and a scan panics, so that batch workloads have none.
ChooseOperation(w) ==
  /\ pc[w] = "idle"
  /\ ~KeyFirst
  /\ \E operation \in Operations : Begin(w, operation, {}, mode.batchSize)
  /\ Goto(w, "choose")

\* Keys that the inserts in progress still take count against MaxKey.
Reserved ==
  {p \in Workers \X (1 .. mode.batchSize) : op[p[1]] = "insert" /\ p[2] <= left[p[1]]}

ChooseInsert(w) ==
  /\ pc[w] = "idle"
  /\ ~KeyFirst
  /\ issued + Cardinality(Reserved) + mode.batchSize - 1 <= MaxKey
  /\ Begin(w, "insert", {}, mode.batchSize)
  /\ Goto(w, "take")

\* Mutant: nextKeyNum counts back from the counter, not from Last.
ChooseKeyFromCounter(w) ==
  /\ pc[w] = "choose"
  /\ \E k \in 0 .. issued - 1 : keys' = [keys EXCEPT ![w] = @ \cup {k}]
  /\ left' = [left EXCEPT ![w] = @ - 1]
  /\ Goto(w, IF left[w] = 1 THEN "call" ELSE "choose")
  /\ UNCHANGED <<mode, seqVars, dbVars, op>>

\* nextKeyNum, once per key of a batch.
ChooseKey(w) ==
  /\ pc[w] = "choose"
  /\ \E k \in KeyRange : keys' = [keys EXCEPT ![w] = @ \cup {k}]
  /\ left' = [left EXCEPT ![w] = @ - 1]
  /\ Goto(w, IF left[w] = 1 THEN "call" ELSE "choose")
  /\ UNCHANGED <<mode, seqVars, dbVars, op>>

\* Mutant: the keys taken are not counted.
TakeInsertKeyEndless(w) ==
  /\ pc[w] = "take"
  /\ KeySeq!Issue
  /\ keys' = [keys EXCEPT ![w] = @ \cup {issued}]
  /\ Goto(w, IF mode.batchSize = 1 THEN "insert" ELSE "batchAck")
  /\ UNCHANGED <<mode, dbVars, op, left>>

\* transactionInsertKeySequence.Next.
TakeInsertKey(w) ==
  /\ pc[w] = "take"
  /\ KeySeq!Issue
  /\ keys' = [keys EXCEPT ![w] = @ \cup {issued}]
  /\ left' = [left EXCEPT ![w] = @ - 1]
  /\ Goto(w, IF mode.batchSize = 1 THEN "insert" ELSE "batchAck")
  /\ UNCHANGED <<mode, dbVars, op>>

\* A batch acknowledges each key as soon as it has its values, before the insert.
BatchAcknowledge(w) ==
  /\ pc[w] = "batchAck"
  /\ \E k \in keys[w] \cap unacked : KeySeq!Acked(k)
  /\ Goto(w, IF left[w] = 0 THEN "insert" ELSE "take")
  /\ UNCHANGED <<mode, dbVars, op, keys, left>>

\* buildValues or buildSingleValue, for an update and for every insert of a batch.
UpdatedFields ==
  IF mode.writeAllFields THEN {Fields} ELSE {{f} : f \in Fields}

\* The database stores new rows for K, each with one of the choices of F.
InsertRows(K, F) ==
  \E fs \in [K -> F] :
    rows' = [k \in AllKeys |-> IF k \in K THEN fs[k] ELSE rows[k]]

\* The database writes one of the choices of F over the rows of K.
UpdateRows(K, F) ==
  \E fs \in [K -> F] :
    rows' = [k \in AllKeys |-> IF k \in K THEN rows[k] \cup fs[k] ELSE rows[k]]

\* The call stores all its keys and returns nil, or any of them and an error.
InsertReturns(w, F) ==
  /\ pc[w] = "insert"
  /\ \/ InsertRows(keys[w], F) /\ whole' = whole \cup keys[w]
     \/ (\E K \in SUBSET keys[w] : InsertRows(K, F)) /\ UNCHANGED whole
  /\ ended' = ended \cup keys[w]
  /\ UNCHANGED <<mode, seqVars, op, keys, left>>

\* Mutant: the values are built as for an update.
InsertCallSingle(w) ==
  mode.batchSize = 1 /\ InsertReturns(w, UpdatedFields) /\ Goto(w, "ack")

\* db.Insert, of buildValues.
InsertCall(w) ==
  mode.batchSize = 1 /\ InsertReturns(w, {Fields}) /\ Goto(w, "ack")

\* db.BatchInsert.
BatchInsertCall(w) ==
  mode.batchSize > 1 /\ InsertReturns(w, UpdatedFields) /\ Goto(w, "idle")

\* Mutant: a failed insert is not acknowledged.
AcknowledgeOnSuccess(w) ==
  /\ pc[w] = "ack"
  /\ IF keys[w] \subseteq whole
     THEN \E k \in keys[w] : KeySeq!Acked(k)
     ELSE UNCHANGED seqVars
  /\ Goto(w, "idle")
  /\ UNCHANGED <<mode, dbVars, op, keys, left>>

\* The deferred Acknowledge of a single insert, after success and failure.
Acknowledge(w) ==
  /\ pc[w] = "ack"
  /\ \E k \in keys[w] : KeySeq!Acked(k)
  /\ Goto(w, "idle")
  /\ UNCHANGED <<mode, dbVars, op, keys, left>>

\* The read of doTransactionReadModifyWrite: an error ends the operation.
ReadBeforeUpdate(w) ==
  /\ pc[w] = "call"
  /\ op[w] = "readModifyWrite"
  /\ Goto(w, "update") \/ Goto(w, "idle")
  /\ UNCHANGED <<mode, seqVars, dbVars, op, keys, left>>

\* Reads and scans change nothing.
CallChangesNothing(w, operation) ==
  /\ pc[w] = "call"
  /\ op[w] = operation
  /\ Goto(w, "idle")
  /\ UNCHANGED <<mode, seqVars, dbVars, op, keys, left>>

ReadCall(w) == mode.batchSize = 1 /\ CallChangesNothing(w, "read")

ScanCall(w) == CallChangesNothing(w, "scan")

BatchReadCall(w) == mode.batchSize > 1 /\ CallChangesNothing(w, "read")

\* Databases differ in what they do with a key that is not there; one that stores it
\* may do so here.
UpdateReturns(w) ==
  /\ \E K \in SUBSET keys[w] : UpdateRows(K, UpdatedFields)
  /\ Goto(w, "idle")
  /\ UNCHANGED <<mode, seqVars, ended, whole, op, keys, left>>

\* db.Update, of an update or of a read-modify-write.
UpdateCall(w) ==
  /\ mode.batchSize = 1
  /\ (pc[w] = "call" /\ op[w] = "update") \/ pc[w] = "update"
  /\ UpdateReturns(w)

\* db.BatchUpdate.
BatchUpdateCall(w) ==
  mode.batchSize > 1 /\ pc[w] = "call" /\ op[w] = "update" /\ UpdateReturns(w)

\* An Acknowledge of some worker moves limit: AckSequence leaves open when.
AdvanceLast ==
  /\ KeySeq!Advance
  /\ UNCHANGED <<mode, dbVars, pc, op, keys, left>>

Step(w) ==
  \/ ChooseKeyFirst(w) \/ ChooseOperation(w) \/ ChooseInsert(w) \/ ChooseKey(w)
  \/ TakeInsertKey(w) \/ BatchAcknowledge(w) \/ InsertCall(w) \/ BatchInsertCall(w)
  \/ Acknowledge(w) \/ ReadBeforeUpdate(w) \/ ReadCall(w) \/ ScanCall(w)
  \/ BatchReadCall(w) \/ UpdateCall(w) \/ BatchUpdateCall(w)

Next == (\E w \in Workers : Step(w)) \/ AdvanceLast

Spec == Init /\ [][Next]_vars
-----------------------------------------------------------------------------
(* Properties. *)

\* Type correctness of the workload's state.
TypeOK ==
  /\ mode \in Modes
  /\ issued \in RecordCount .. MaxKey + 1
  /\ unacked \subseteq AllKeys
  /\ last \in RecordCount - 1 .. MaxKey
  /\ rows \in [AllKeys -> SUBSET Fields]
  /\ ended \subseteq AllKeys /\ whole \subseteq ended
  /\ pc \in [Workers -> {"idle", "choose", "take", "batchAck", "insert", "ack",
                         "call", "update"}]
  /\ op \in [Workers -> {"read", "update", "insert", "scan",
                         "readModifyWrite"}]
  /\ keys \in [Workers -> SUBSET AllKeys]
  /\ left \in [Workers -> Nat]

\* The distributions that follow the inserts ("latest", "exponential") send a
\* read, an update or a scan only to a key that was loaded or whose insert call
\* has returned, however slow the insert and whichever worker made it
\* (core.go:416-428, 507-508).  A batch acknowledges its keys before it inserts
\* them (core.go:598): there the key was issued, and no more is known of it.
ChosenKeysInserted ==
  mode.chooser \in {"latest", "exponential"} =>
    \A w \in Workers : op[w] # "insert" =>
      \A k \in keys[w] :
        \/ k < RecordCount
        \/ IF mode.batchSize = 1 THEN k \in ended ELSE k < issued

\* Every key that was issued is acknowledged when its operation is over, whether
\* or not the insert failed: a key that stayed unacknowledged would hold back
\* Last and fill the window of the counter (core.go:508).
NoAckLeak ==
  \A k \in unacked : \E w \in Workers :
    k \in keys[w] /\ op[w] = "insert" /\ pc[w] # "idle"

\* Types, and a record whose insert returned nil has all its fields, whatever updates and failed
\* inserts come next to it (core.go:509-513).  The inserts of a batch without
\* writeallfields have one field only (core.go:593-597).
InsertsWhole ==
  /\ TypeOK
  /\ mode.batchSize = 1 \/ mode.writeAllFields => \A k \in whole : rows[k] = Fields
=============================================================================
