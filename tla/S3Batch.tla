------------------------------ MODULE S3Batch -------------------------------
(***************************************************************************)
(* The S3 adapter (db/s3/db.go).  A record is an object that GetObject,    *)
(* PutObject and DeleteObject read, replace and remove; the batch calls    *)
(* are loops; an Update reads and puts unless s3.update_overwrite is set;  *)
(* a Scan lists keys page by page and reads the objects.                   *)
(***************************************************************************)
EXTENDS BatchCalls

CONSTANTS PageMax  \* the most keys of one listing (1000)

ASSUME PageAssumption == PageMax \in Nat \ {0}

\* What Insert, Update and Delete do to an object.
S3Single(c, i, row) ==
  CASE c.kind = "insert" -> NewRow(Vals(c, i))
    [] c.kind = "update" -> IF options.overwrite \/ row = NoRow THEN NewRow(Vals(c, i))
                                                               ELSE Over(row, Vals(c, i))
    [] c.kind = "delete" -> NoRow
    [] OTHER -> row

ReadsFirst(w) == call[w].kind = "update" /\ ~options.overwrite

\* BatchInsert, BatchDelete, and BatchUpdate with s3.update_overwrite.
S3Loop(w) ==
  /\ call[w].kind \in {"insert", "update", "delete"}
  /\ ReadsFirst(w) => next[w] \notin DOMAIN call[w].keys
  /\ StatementLoop(w, S3Single)

\* The first half of an Update that merges: the error of its Read is ignored, and
\* the object taken for an empty one.
S3UpdateRead(w) ==
  LET k == call[w].keys[next[w]] IN
  /\ at[w] = "begin"
  /\ ReadsFirst(w)
  /\ next[w] \in DOMAIN call[w].keys
  /\ \E row \in {table[k], NoRow} :
       snap' = [snap EXCEPT ![w].table[k] = row]
  /\ MoveTo(w, "merge")
  /\ UNCHANGED <<tableVars, steady, issueVars, out, page, skipped, retried,
                 returnVars, next>>

\* The second half: the merged object is put.
S3UpdatePut(w) ==
  LET c == call[w]
      i == next[w]
      k == c.keys[i] IN
  /\ at[w] = "merge"
  /\ \/ /\ Store(w, [table EXCEPT ![k] = S3Single(c, i, snap[w].table[k])],
                 [expect EXCEPT ![k] = S3Single(c, i, @)], {i})
        /\ next' = [next EXCEPT ![w] = i + 1]
        /\ MoveTo(w, "begin")
        /\ UNCHANGED returnVars
     \/ Return(w, "error") /\ UNCHANGED <<tableVars, steady, next>>
  /\ UNCHANGED <<issueVars, readVars>>

\* Mutant: a record that cannot be read is left out of the result.
S3BatchReadSkips(w) ==
  LET c == call[w]
      k == c.keys[next[w]] IN
  /\ at[w] = "begin"
  /\ c.kind = "read"
  /\ \/ /\ next[w] \in DOMAIN c.keys
        /\ out' = [out EXCEPT ![w] = IF table[k] = NoRow THEN @
                                     ELSE Append(@, <<k, table[k]>>)]
        /\ next' = [next EXCEPT ![w] = @ + 1]
        /\ UNCHANGED <<returnVars, at>>
     \/ /\ next[w] \notin DOMAIN c.keys
        /\ ReturnRows(w, "nil", out[w])
        /\ UNCHANGED <<out, next>>
  /\ UNCHANGED <<tableVars, steady, issueVars, snap, page, skipped, retried>>

\* BatchRead: a record that does not exist is an error, and ends the call.
S3BatchRead(w) ==
  LET c == call[w]
      k == c.keys[next[w]] IN
  /\ at[w] = "begin"
  /\ c.kind = "read"
  /\ \/ /\ next[w] \in DOMAIN c.keys
        /\ table[k] # NoRow
        /\ out' = [out EXCEPT ![w] = Append(@, <<k, table[k]>>)]
        /\ next' = [next EXCEPT ![w] = @ + 1]
        /\ UNCHANGED <<returnVars, at>>
     \/ /\ IF next[w] \in DOMAIN c.keys THEN Return(w, "error")
                                       ELSE ReturnRows(w, "nil", out[w])
        /\ UNCHANGED <<out, next>>
  /\ UNCHANGED <<tableVars, steady, issueVars, snap, page, skipped, retried>>

Remaining(w) == call[w].count - Len(out[w])

\* The read of a listed object, or only its key with s3.scan_keys_only.
Reads(w, k) ==
  \/ /\ options.keysOnly \/ table[k] # NoRow
     /\ out' = [out EXCEPT ![w] = Append(@, <<k, table[k]>>)]
     /\ UNCHANGED skipped
  \/ /\ ~options.keysOnly
     /\ skipped' = [skipped EXCEPT ![w] = @ \cup {k}]
     /\ UNCHANGED out

\* A Scan reads its start key; next is the key that the listing starts after.
S3ScanStart(w) ==
  LET k == call[w].keys[1] IN
  /\ at[w] = "begin"
  /\ call[w].kind = "scan"
  /\ Reads(w, k)
  /\ next' = [next EXCEPT ![w] = k]
  /\ MoveTo(w, "list")
  /\ UNCHANGED <<tableVars, steady, issueVars, snap, page, retried, returnVars>>

\* Mutant: every listing starts after the start key.
S3ListRestarts(w) ==
  LET after == {k \in Present(table) : k > call[w].keys[1]}
      n == IF Remaining(w) < PageMax THEN Remaining(w) ELSE PageMax
      ks == InOrder(after) IN
  /\ at[w] = "list"
  /\ Remaining(w) > 0 /\ ks # <<>>
  /\ page' = [page EXCEPT ![w] = SubSeq(ks, 1, IF n < Len(ks) THEN n ELSE Len(ks))]
  /\ retried' = [retried EXCEPT ![w] = n < Len(ks)]
  /\ MoveTo(w, "item")
  /\ UNCHANGED <<tableVars, steady, issueVars, snap, out, skipped, returnVars, next>>

\* ListObjectsV2: at most the records still wanted, and at most PageMax; whether the
\* listing is truncated is kept in retried.
S3List(w) ==
  LET after == {k \in Present(table) : k > next[w]}
      n == IF Remaining(w) < PageMax THEN Remaining(w) ELSE PageMax
      ks == InOrder(after) IN
  /\ at[w] = "list"
  /\ Remaining(w) > 0 /\ ks # <<>>
  /\ page' = [page EXCEPT ![w] = SubSeq(ks, 1, IF n < Len(ks) THEN n ELSE Len(ks))]
  /\ retried' = [retried EXCEPT ![w] = n < Len(ks)]
  /\ MoveTo(w, "item")
  /\ UNCHANGED <<tableVars, steady, issueVars, snap, out, skipped, returnVars, next>>

\* The next listed object.
S3ScanItem(w) ==
  /\ at[w] = "item"
  /\ page[w] # <<>>
  /\ Reads(w, Head(page[w]))
  /\ next' = [next EXCEPT ![w] = Head(page[w])]
  /\ page' = [page EXCEPT ![w] = Tail(@)]
  /\ UNCHANGED <<tableVars, steady, issueVars, snap, retried, returnVars, at>>

\* The page is read: the next one is listed if there is one and records are missing.
S3NextPage(w) ==
  /\ at[w] = "item"
  /\ page[w] = <<>>
  /\ IF retried[w] /\ Remaining(w) > 0
     THEN MoveTo(w, "list") /\ UNCHANGED returnVars
     ELSE ReturnRows(w, "nil", out[w])
  /\ UNCHANGED <<tableVars, steady, issueVars, readVars, next>>

\* The scan ends at the count or at the last object, or a listing fails.
S3ScanEnd(w) ==
  /\ at[w] = "list"
  /\ IF Remaining(w) = 0 THEN ReturnRows(w, "nil", out[w])
     ELSE \/ /\ \A k \in Present(table) : k <= next[w]
             /\ ReturnRows(w, "nil", out[w])
          \/ Return(w, "error")
  /\ UNCHANGED <<tableVars, steady, issueVars, readVars, next>>

S3Step(w) ==
  \/ S3Loop(w) \/ S3UpdateRead(w) \/ S3UpdatePut(w) \/ S3BatchRead(w)
  \/ S3ScanStart(w) \/ S3List(w) \/ S3ScanItem(w) \/ S3NextPage(w) \/ S3ScanEnd(w)
=============================================================================
