------------------------------ MODULE BadgerDB ------------------------------
(***************************************************************************)
(* The badger adapter (db/badger/db.go): each call is one db.Update        *)
(* transaction.  Badger is external: a transaction reads a snapshot, keeps *)
(* the value slice it is given until it commits, and fails to commit with  *)
(* ErrConflict when a key it read has been written since.                  *)
(*                                                                         *)
(* Inside the transaction the adapter adds the payload's size to           *)
(* localBytesCount, a plain field shared by all workers, and moves the     *)
(* field to GlobalLogicalWriteBytes when it reaches FlushSize; every       *)
(* access to the field is a step of its own.                               *)
(***************************************************************************)
EXTENDS RowStore

CONSTANT FlushSize    \* 1 << 20 in the code

ASSUME FlushAssumption == FlushSize \in Nat \ {0}

VARIABLES localBytesCount,          \* the shared accumulator
          GlobalLogicalWriteBytes,  \* the atomic total
          sum,                      \* each worker's register of the addition
          payload,                  \* bytes of all the writes counted
          closed                    \* Close has run

byteVars == <<localBytesCount, GlobalLogicalWriteBytes, sum, payload, closed>>

BadgerInit ==
  /\ localBytesCount = 0
  /\ GlobalLogicalWriteBytes = 0
  /\ sum = [w \in Workers |-> 0]
  /\ payload = 0
  /\ closed = FALSE

\* len(rowKey) + len(safeBuf), or the key alone: a row is larger than its key.
PayloadSize(w) == IF call[w].kind = "delete" THEN 1 ELSE 2

\* db.Update starts a transaction; only Update reads its key.
BadgerBegin(w) ==
  /\ pc[w] = "begin"
  /\ ReadRow(w)
  /\ Goto(w, "stage")
  /\ UNCHANGED <<engineVars, callVars, staged, poolVars, result, byteVars>>

\* Update of a key that is not there: txn.Get fails and so does the call.
BadgerUpdateMissing(w) ==
  /\ pc[w] = "stage"
  /\ call[w].kind = "update"
  /\ snap[w] = NoRow
  /\ Return(w, "error")
  /\ Goto(w, "idle")
  /\ UNCHANGED <<engineVars, callVars, snap, seen, staged, poolVars, byteVars>>

\* Mutant: the slice from the pool goes to the transaction.
BadgerUpdateNoCopy(w) ==
  /\ pc[w] = "stage"
  /\ call[w].kind = "update"
  /\ snap[w] # NoRow
  /\ EncodeAndSet(w, Merge(snap[w], call[w].fields, call[w].id), TRUE)
  /\ Goto(w, "add")
  /\ UNCHANGED <<engineVars, callVars, snap, seen, result, byteVars>>

\* Update: the row read is decoded, merged, encoded, copied out of the pool's
\* buffer (safeBuf) and set.  The bytes are counted between the copy and the Set;
\* the Set stays inside the transaction, so the order of the two shows nowhere.
BadgerUpdate(w) ==
  /\ pc[w] = "stage"
  /\ call[w].kind = "update"
  /\ snap[w] # NoRow
  /\ EncodeAndSet(w, Merge(snap[w], call[w].fields, call[w].id), FALSE)
  /\ Goto(w, "add")
  /\ UNCHANGED <<engineVars, callVars, snap, seen, result, byteVars>>

\* Insert: the values are encoded, copied and set.
BadgerInsert(w) ==
  /\ pc[w] = "stage"
  /\ call[w].kind = "insert"
  /\ EncodeAndSet(w, Merge(EmptyRow, call[w].fields, call[w].id), FALSE)
  /\ Goto(w, "add")
  /\ UNCHANGED <<engineVars, callVars, snap, seen, result, byteVars>>

BadgerDelete(w) ==
  /\ pc[w] = "stage"
  /\ call[w].kind = "delete"
  /\ SetTombstone(w)
  /\ Goto(w, "add")
  /\ UNCHANGED <<engineVars, callVars, snap, seen, result, byteVars>>

\* db.localBytesCount += payloadSize: a load and a store.
AddLoad(w) ==
  /\ pc[w] = "add"
  /\ sum' = [sum EXCEPT ![w] = localBytesCount + PayloadSize(w)]
  /\ payload' = payload + PayloadSize(w)
  /\ Goto(w, "addStore")
  /\ UNCHANGED <<engineVars, callVars, snap, seen, staged, poolVars, result,
                 localBytesCount, GlobalLogicalWriteBytes, closed>>

AddStore(w) ==
  /\ pc[w] = "addStore"
  /\ localBytesCount' = sum[w]
  /\ Goto(w, "flush")
  /\ UNCHANGED <<engineVars, callVars, snap, seen, staged, poolVars, result,
                 GlobalLogicalWriteBytes, sum, payload, closed>>

\* if db.localBytesCount >= 1048576
FlushTest(w) ==
  /\ pc[w] = "flush"
  /\ Goto(w, IF localBytesCount >= FlushSize THEN "flushAdd" ELSE "release")
  /\ UNCHANGED <<engineVars, callVars, snap, seen, staged, poolVars, result,
                 byteVars>>

\* GlobalLogicalWriteBytes.Add(db.localBytesCount)
FlushAdd(w) ==
  /\ pc[w] = "flushAdd"
  /\ GlobalLogicalWriteBytes' = GlobalLogicalWriteBytes + localBytesCount
  /\ Goto(w, "flushReset")
  /\ UNCHANGED <<engineVars, callVars, snap, seen, staged, poolVars, result,
                 localBytesCount, sum, payload, closed>>

\* Mutant: the accumulator is not reset.
FlushResetForgotten(w) ==
  /\ pc[w] = "flushReset"
  /\ Goto(w, "release")
  /\ UNCHANGED <<engineVars, callVars, snap, seen, staged, poolVars, result,
                 byteVars>>

\* db.localBytesCount = 0
FlushReset(w) ==
  /\ pc[w] = "flushReset"
  /\ localBytesCount' = 0
  /\ Goto(w, "release")
  /\ UNCHANGED <<engineVars, callVars, snap, seen, staged, poolVars, result,
                 GlobalLogicalWriteBytes, sum, payload, closed>>

\* The callback returns and its deferred bufPool.Put runs, before the commit.
BadgerRelease(w) ==
  /\ pc[w] = "release"
  /\ PutBuffer(w)
  /\ Goto(w, "commit")
  /\ UNCHANGED <<engineVars, callVars, snap, seen, staged, result, byteVars>>

\* Mutant: the transaction commits although its row was written since.
BadgerConflictIgnored(w) == FALSE

\* Badger tracks the keys a transaction read: only Update reads one.
BadgerConflict(w) ==
  call[w].kind = "update" /\ version[call[w].key] # seen[w]

\* The commit of db.Update, whose error is the call's.
BadgerCommit(w) ==
  /\ pc[w] = "commit"
  /\ \/ ~BadgerConflict(w) /\ Install(w, StagedRow(w)) /\ Return(w, "nil")
     \/ UNCHANGED engineVars /\ Return(w, "error")
  /\ Goto(w, "idle")
  /\ UNCHANGED <<callVars, snap, seen, staged, poolVars, byteVars>>

\* Close, called by main when no worker is left: the rest of the accumulator is
\* added before the total is reported.
Close ==
  /\ \A w \in Workers : pc[w] = "idle"
  /\ closed' = TRUE
  /\ GlobalLogicalWriteBytes' = GlobalLogicalWriteBytes + localBytesCount
  /\ localBytesCount' = 0
  /\ UNCHANGED <<rowVars, sum, payload>>

BadgerStep(w) ==
  \/ BadgerBegin(w) \/ BadgerUpdateMissing(w) \/ BadgerUpdate(w) \/ BadgerInsert(w) \/ BadgerDelete(w)
  \/ AddLoad(w) \/ AddStore(w) \/ FlushTest(w) \/ FlushAdd(w) \/ FlushReset(w)
  \/ BadgerRelease(w) \/ BadgerCommit(w)

-----------------------------------------------------------------------------
(* Properties; those about rows are in RowStore. *)

\* The logical bytes that Close reports (badger/db.go:211, the denominator of the
\* write amplification) are the bytes of all the writes handed to badger.
LogicalBytesExact == closed => GlobalLogicalWriteBytes = payload

\* LogicalBytesExact when no two calls overlapped: however the flushes fall, no byte
\* is lost or counted twice.
SerialBytesExact == ~overlap => LogicalBytesExact
=============================================================================
