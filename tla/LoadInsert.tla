----------------------------- MODULE LoadInsert -----------------------------
(***************************************************************************)
(* The inserts of a load: core.DoInsert and core.DoBatchInsert of          *)
(* pkg/workload/core.go, called in a loop by every worker.  DoInsert is    *)
(* DoBatchInsert with a batch of one key: the two bodies are the same but  *)
(* for the call they make.                                                 *)
(*                                                                         *)
(* The database is external: a call stores all its keys and returns nil,   *)
(* or returns an error after having stored any part of them.               *)
(***************************************************************************)
EXTENDS Integers, FiniteSets

CONSTANTS Workers,              \* the worker goroutines
          BatchSizes,           \* the values of batch.size tried
          insertionRetryLimit,  \* core_workload_insertion_retry_limit
          Start,                \* insertstart
          MaxKeys               \* bound on the keys handed out

ASSUME ConstantsAssumption ==
  /\ BatchSizes \subseteq Nat \ {0}
  /\ insertionRetryLimit \in Nat
  /\ Start \in Nat
  /\ MaxKeys \in Nat
  /\ IsFiniteSet(Workers)

VARIABLES batchSize,     \* batch.size of this load
          keySequence,   \* next key of the shared Counter
          pc,            \* each worker's program point
          keys,          \* the keys of the insert in progress
          numOfRetries,  \* the local of the insert in progress
          stored,        \* how often the database stored each key
          returned,      \* keys of inserts that returned nil
          failed,        \* keys of inserts that returned an error
          cancelled      \* ctx.Done()

vars == <<batchSize, keySequence, pc, keys, numOfRetries, stored, returned, failed,
          cancelled>>

AllKeys == Start .. Start + MaxKeys - 1

Init ==
  /\ batchSize \in BatchSizes
  /\ keySequence = Start
  /\ pc = [w \in Workers |-> "idle"]
  /\ keys = [w \in Workers |-> {}]
  /\ numOfRetries = [w \in Workers |-> 0]
  /\ stored = [k \in AllKeys |-> 0]
  /\ returned = {}
  /\ failed = {}
  /\ cancelled = FALSE

Goto(w, point) == pc' = [pc EXCEPT ![w] = point]

\* The keys that the batches in progress still take: they count against MaxKeys.
Promised ==
  {p \in Workers \X (1 .. batchSize) :
     pc[p[1]] = "keys" /\ p[2] > Cardinality(keys[p[1]])}

\* Mutant: the keys of the last insert are kept.
BeginKeepsKeys(w) ==
  /\ pc[w] = "idle"
  /\ ~cancelled
  /\ keySequence + Cardinality(Promised) + batchSize <= Start + MaxKeys
  /\ numOfRetries' = [numOfRetries EXCEPT ![w] = 0]
  /\ Goto(w, "keys")
  /\ UNCHANGED <<batchSize, keySequence, keys, stored, returned, failed, cancelled>>

\* The worker loop polls ctx.Done() before the next insert.
Begin(w) ==
  /\ pc[w] = "idle"
  /\ ~cancelled
  /\ keySequence + Cardinality(Promised) + batchSize <= Start + MaxKeys
  /\ keys' = [keys EXCEPT ![w] = {}]
  /\ numOfRetries' = [numOfRetries EXCEPT ![w] = 0]
  /\ Goto(w, "keys")
  /\ UNCHANGED <<batchSize, keySequence, stored, returned, failed, cancelled>>

\* Mutant: the key is the counter after the increment.
TakeKeyOffByOne(w) ==
  /\ pc[w] = "keys"
  /\ keys' = [keys EXCEPT ![w] = @ \cup {keySequence + 1}]
  /\ keySequence' = keySequence + 1
  /\ Goto(w, IF Cardinality(keys'[w]) = batchSize THEN "insert" ELSE "keys")
  /\ UNCHANGED <<batchSize, numOfRetries, stored, returned, failed, cancelled>>

\* keySequence.Next, once per key of the batch: batches of two workers may
\* interleave.
TakeKey(w) ==
  /\ pc[w] = "keys"
  /\ keys' = [keys EXCEPT ![w] = @ \cup {keySequence}]
  /\ keySequence' = keySequence + 1
  /\ Goto(w, IF Cardinality(keys'[w]) = batchSize THEN "insert" ELSE "keys")
  /\ UNCHANGED <<batchSize, numOfRetries, stored, returned, failed, cancelled>>

Store(S) == stored' = [k \in AllKeys |-> stored[k] + (IF k \in S THEN 1 ELSE 0)]

\* Mutant: an error ends the insert like a success.
InsertErrorDropped(w) ==
  /\ pc[w] = "insert"
  /\ \E S \in SUBSET keys[w] : Store(S)
  /\ Goto(w, "poll")
  /\ UNCHANGED <<batchSize, keySequence, keys, numOfRetries, returned, failed, cancelled>>

\* The call of the database.  An error ends the loop: `if err != nil { break }'.
Insert(w) ==
  /\ pc[w] = "insert"
  /\ \/ /\ Store(keys[w])
        /\ Goto(w, "poll")
        /\ UNCHANGED failed
     \/ /\ \E S \in SUBSET keys[w] : Store(S)
        /\ failed' = failed \cup keys[w]
        /\ Goto(w, "idle")
  /\ UNCHANGED <<batchSize, keySequence, keys, numOfRetries, returned, cancelled>>

\* Mutant: the limit is checked before the retry is counted.
AfterSuccessUncounted(w) ==
  /\ pc[w] = "poll"
  /\ LET n == numOfRetries[w] + 1 IN
     /\ numOfRetries' = [numOfRetries EXCEPT ![w] = n]
     /\ IF cancelled \/ n > insertionRetryLimit + 1
        THEN returned' = returned \cup keys[w] /\ Goto(w, "idle")
        ELSE UNCHANGED returned /\ Goto(w, "insert")
  /\ UNCHANGED <<batchSize, keySequence, keys, stored, failed, cancelled>>

\* Mutant: the select has no default branch.
AfterSuccessBlocks(w) ==
  /\ pc[w] = "poll"
  /\ cancelled
  /\ returned' = returned \cup keys[w]
  /\ Goto(w, "idle")
  /\ UNCHANGED <<batchSize, keySequence, keys, numOfRetries, stored, failed, cancelled>>

\* After a call that returned nil: a cancelled context ends the insert with nil,
\* otherwise the retry is counted against the limit and the insert is repeated.
AfterSuccess(w) ==
  /\ pc[w] = "poll"
  /\ IF cancelled
     THEN /\ returned' = returned \cup keys[w]
          /\ Goto(w, "idle")
          /\ UNCHANGED numOfRetries
     ELSE LET n == numOfRetries[w] + 1 IN
          /\ numOfRetries' = [numOfRetries EXCEPT ![w] = n]
          /\ IF n > insertionRetryLimit
             THEN returned' = returned \cup keys[w] /\ Goto(w, "idle")
             ELSE UNCHANGED returned /\ Goto(w, "insert")
  /\ UNCHANGED <<batchSize, keySequence, keys, stored, failed, cancelled>>

\* The signal handler cancels the context.
Cancel ==
  /\ ~cancelled
  /\ cancelled' = TRUE
  /\ UNCHANGED <<batchSize, keySequence, pc, keys, numOfRetries, stored, returned, failed>>

Step(w) == Begin(w) \/ TakeKey(w) \/ Insert(w) \/ AfterSuccess(w)

Next == (\E w \in Workers : Step(w)) \/ Cancel

\* Goroutines keep running and database calls return; nobody has to cancel.
Spec == Init /\ [][Next]_vars /\ \A w \in Workers : WF_vars(Step(w))
-----------------------------------------------------------------------------
(* Properties. *)

\* Type correctness of the load's state.
TypeOK ==
  /\ batchSize \in BatchSizes
  /\ keySequence \in Start .. Start + MaxKeys
  /\ pc \in [Workers -> {"idle", "keys", "insert", "poll"}]
  /\ keys \in [Workers -> SUBSET AllKeys]
  /\ numOfRetries \in [Workers -> Nat]
  /\ stored \in [AllKeys -> Nat]
  /\ returned \subseteq AllKeys
  /\ failed \subseteq AllKeys
  /\ cancelled \in BOOLEAN

\* DoInsert returns nil only for keys the database has stored, also when the
\* context is cancelled between the call and the return (core.go:279-285).
NilMeansStored == \A k \in returned : stored[k] > 0

\* Types, and the retry loop repeats an insert at most insertionRetryLimit times, and no key
\* is inserted by two workers (core.go:265, 290-293).
BoundedInserts == TypeOK /\ \A k \in AllKeys : stored[k] <= insertionRetryLimit + 1

\* Every key taken from the sequence gets its insert: when all workers are idle,
\* each key below keySequence was stored, or its insert reported an error; none
\* is skipped.
EveryKeyAttempted ==
  (\A w \in Workers : pc[w] = "idle") =>
    \A k \in Start .. keySequence - 1 :
      k \in returned \/ k \in failed

\* Every insert ends: the retries are bounded whatever the database answers.
InsertsReturn == \A w \in Workers : pc[w] # "idle" ~> pc[w] = "idle"

=============================================================================
