# go-ycsb in TLA+

A TLA+ model of this fork of go-ycsb: the benchmark client, its core workload, the
generators, the adapters of thirteen databases and the gc command. Modules are
model-checked with TLC on small instances; every safety property of the runs that pass
is also proved with TLAPS, for every value of the constants.

`PROJECT.json` lists the components, the runs, the mutants each property is tested
against, the source lines behind every definition, the findings, the hazards and the
theorems. Run a check with `tlc -config <X>.cfg <MC module>` and the proofs of a
module with `tlapm <X>Proofs.tla` (`AdapterProofs` takes about eight minutes, the others
less).

## The system

| Part | State | Operations | Interacts with |
|---|---|---|---|
| Client (`pkg/client/client.go`) | per worker `opCount`, `opsDone`; `wg`, `measureCtx`, `measureCh` | `newWorker`, `run`, `Client.Run` | calls the workload in a loop; waits for the measurement goroutine; reads the warm-up flag |
| Measuring wrapper (`pkg/client/dbwrapper.go`) | none | one wrapper per database call, `Analyze` | calls the database, then `measurement.Measure` twice |
| Measurement (`pkg/measurement`) | `warmUp`, the measurer, a lock | `Measure`, `Output`, `Summary`, `EnableWarmUp` | written by all workers, read by the measurement goroutine and main |
| Process (`cmd/go-ycsb/main.go`) | `globalContext`, signal channel, `closeDone` | signal goroutine, shutdown | cancels everybody; closes the database |
| Core workload (`pkg/workload/core.go`) | `keySequence`, `transactionInsertKeySequence`, choosers, value pool | `DoInsert`, `DoBatchInsert`, `DoTransaction`, `DoBatchTransaction` | takes keys from generators, calls the database |
| Insert keys (`pkg/generator/acknowledged_counter.go`) | `c`, `window`, `limit`, `lock` | `Next`, `Acknowledge`, `Last` | shared by all workers; `Last` feeds "latest" and "exponential" |
| Other generators (`pkg/generator`) | last value, zipfian sums, mixgraph regions | `Next`, `Last` | shared by all workers |
| Row codec (`pkg/util`) | field indices, buffer pool | `Encode`, `Decode` | used by the key-value adapters |
| Key-value adapters (`db/badger`, `boltdb`, `tikv`, `foundationdb`, `rocksdb`, `redis`, `etcd`, `pegasus`, `aerospike`) | buffer pool, badger's byte count | `Read`, `Scan`, `Insert`, `Update`, `Delete`, some `Batch*` | most encode a row as one value, so `Update` reads, merges and writes |
| SQL adapters (`db/mysql`, `pg`, `sqlite`) | per-thread connection and statement cache (mysql, pg), transactions (sqlite) | the same, `Batch*` of mysql and sqlite | `database/sql` |
| Object and search adapters (`db/s3`, `db/elasticsearch`) | the bulk indexer that all threads share | the same | - |
| gc command (`cmd/go-ycsb/gc.go`) | results of the rounds, samples of `write_bytes` and of the directory | one round, `runGC` | badger, whose compactions go on meanwhile |
| Other adapters, shell, reports | see `PROJECT.json` | | - |

What makes it hard: all workers share the generators, the adapter and the measurer;
`Acknowledge` is a hand-written lock-free protocol; the warm-up flag changes while
operations are in flight; adapters give buffers back to a pool before the engine has
written them; the values themselves are in pooled buffers; adapters keep state
between calls that outlives a broken connection; batches fail in the middle and
transactions are run again; and an interrupted run must still close the database.

What correctness means, per part:

- insert keys: `Last` never covers a key whose insert is unfinished, never moves
  back, loses no acknowledgement, and the window never overflows;
- client: nothing of `operationcount` or `recordcount` is skipped or repeated,
  measured and counted operations agree, `Output` and `Close` run when no worker is
  left, and the process ends;
- load: nil means stored, repeats are bounded, every key is attempted;
- run phase: the choosers that follow the inserts only reach inserted keys, every
  issued key is acknowledged, an insert writes a whole record;
- adapters: `Update` changes the given fields and no others, a transaction installs
  the row it encoded, a result tells whether the write happened;
- values: what is stored under a key and field was built for them, reads give what is
  there, `verifyRow` accepts what the workload wrote;
- batches and scans: an error leaves nothing or a prefix, a batch is the loop of its
  single calls, rows answer the keys asked for, scans pass nothing over;
- sessions: connections and statements do not leak, failures end with the faults, no
  accepted item is lost;
- generators: every key drawn is in the range the workload asked for, and workers that
  race neither break the sums nor wait for ever;
- gc: the totals account for the rounds, and the command collects all it can.

## Modules

| Module | Models |
|---|---|
| `AckSequence` | abstract: keys issued in order, acknowledged in any order, `Last` moves over acknowledged keys only |
| `AckCounter` | `AcknowledgedCounter`, `Counter`, `SpinLock`; one step per shared-memory access |
| `ClientRun` | `Client.Run`, the workers, the measurement goroutine, `main`'s signals and shutdown |
| `LoadInsert` | `DoInsert` and `DoBatchInsert` with the retry loop |
| `CoreRun` | `DoTransaction` and `DoBatchTransaction`; composes with `AckSequence` |
| `RowStore` | what the key-value adapters share: rows, calls, buffer pool |
| `BadgerDB`, `BoltDB`, `OptimisticDB` (TiKV transactions, FoundationDB), `GetPutDB` (rocksdb, TiKV raw, redis, etcd, pegasus, aerospike) | the writes of each adapter |
| `KVAdapters` | composes them: a process runs with one adapter |
| `RowReads` | the value pool, the row codec, `Read` and `Scan` of the same adapters, `verifyRow` |
| `SQLSession`, `BulkIndexer` | the per-thread state of mysql and pg; elasticsearch's shared indexer |
| `SessionAdapters` | composes them with the start and end of the threads |
| `BatchCalls` | what batch calls and scans share |
| `SQLBatch`, `SqliteBatch`, `TikvBatch`, `S3Batch` | the statements, transactions and objects of each adapter |
| `BatchAdapters` | composes them |
| `Zipfian` | the generator of "latest", one step per shared-memory access |
| `KeyChoosers` | the other generators, as functions of their random input |
| `Generators` | composes them |
| `GCCommand` | the gc command |
| `MC*` | constants, modes and symmetry for TLC |
| `*Proofs` | TLAPS proofs about the module of that name; `CommandProofs` about `ClientRun` and `GCCommand`, `AdapterProofs` about `SessionAdapters` and `BatchAdapters` |

State and actions keep the names of the code where possible. A worker's program point is
`pc[w]`; locals of a function (`index`, `beforeFirstSlot`, `numOfRetries`) are functions
of the worker. History variables are few and marked: `executed`, `hit`/`hits`
(ClientRun), `stored`, `returned`, `failed` (LoadInsert), `ended`, `whole` (CoreRun),
`expect`, `applied`, `overlap` (RowStore), `payload` (BadgerDB), `expect`, `done`,
`steady`, `absent`, `skipped`, `retried` (BatchCalls), `wanted` and `commit` of a result
(RowReads), `covered`, `overlapped`, `last` (Zipfian), `bucket`, `random`, `hits`
(KeyChoosers), `missedWrites`, `missedFiles`, `inRounds`, `origin` (GCCommand).
Definitions whose comment starts with "Mutant:" are plausible bugs; they occur in no
specification and exist to show that the properties notice them. The type invariant of a
module is a conjunct of one of its properties (its comment says "Types, and ...").

### AckCounter

`window` is read and written without the lock and without atomics, a data race in Go
terms. Between a worker's plain accesses to `window` lie an atomic operation on
`lock` or `limit`, each byte is stored whole, and on the supported platforms those
atomics are full barriers; so the outcomes are those of interleaving the accesses,
which the model does. A panic ends the process (`Crashed`).

`MaxLead` bounds how far the issued keys run ahead of `limit`. The code has no such
bound: it is the premise under which the sequence is correct. It holds when no insert
is overtaken by a window's worth (2^20) of later inserts; see "Known deviations" for
what happens without it.

### ClientRun

A workload operation makes one to `MaxCalls` measured calls and stops at the first
error. Throttling, latencies and printed text change no state and are left out.
`TotalAgrees` is about the calls of `DbWrapper`, which are measured twice, under their
own name and under TOTAL; the READ_MODIFY_WRITE line (core.go:461-463) spans two such
calls, is never added to TOTAL and is left out.
`executed` saturates, because a warm-up of unknown length allows any number of
operations. The sum of all `opsDone` is the size of the set of counted operations
(`CountedOps`), which needs no fold. A worker rounds its last batch up, so that
`recordcount` 3 with `batch.size` 2 on one thread inserts 4 records: `AllExecuted`
allows `batch.size - 1` more for each worker, and `LoadExact` is checked for batches
of one.

### LoadInsert, CoreRun

The database is external: it may fail, and then have stored any part of the call. The
bound on the keys is kept by counting the keys that inserts in progress still take
(`Promised`, `Reserved`), so that a batch once begun can be completed. In
CoreRun a chooser is the range `Create` gives it; the shape of the distribution is left
out (`Generators` has what is behind the ranges; that "latest" stays in its range takes
four records, which CoreRun assumes). `AckSequence` leaves open when `Last` moves, so
what holds for CoreRun holds for every implementation of the sequence, `AckCounter`
among them.

### Adapters

The engines are external and modelled from what the adapters rely on: badger commits
with snapshot reads and conflict detection on the keys read, and keeps the slice it
is given; bolt runs one writer at a time and keeps the slice; TiKV rejects a commit
when the key was written since the start; FoundationDB's `Transact` runs its function
again on a conflict; the engines of `GetPutDB` have atomic commands. A call that
returns an error left nothing behind (a commit whose outcome is unknown, as after a
lost connection, is not modelled). A row maps each field to the call that wrote it,
and `expect` applies the installed calls one after the other: `store = expect` says
that the interleaving lost nothing.

Where an adapter's code does otherwise, the property excepts it by name and says why:
etcd's and pegasus's `Update` replace the record and the get-and-put updates may
overlap (`FieldsKeptByAdapter`); `Update` of TiKV's raw mode returns nil when its read
fails (`ResultMatchesEffect`).

In `RowReads` a deterministic value is its key and its field, an encoded row is the
sequence of pairs of column id and value in the order in which Go's map happened to
give them, and writes are single steps, since `KVAdapters` has their interleavings.
A value is in a buffer between `buildValues` and the deferred `putValues`. A scan gives
the stored keys in `Ascending` order. Only an update that reads the old record fails
without one; redis's string type does not read it when all fields are given
(`WritesMissing`). bolt's page
of a row is free after the next commit and may be reused by the one after it.

### Sessions and batches

`database/sql` is external: a connection whose driver connection broke is done, and
every use of it or of its statements returns `ErrConnDone`; a nil connection panics.
A `db.Conn` that fails (`Refuse`) stands for every error it has: the server refuses,
or the context is cancelled. `MaxFaults` bounds the breaks and these. esutil's indexer is
external: `Add` after `Close` panics, `Close` drains the queue.

A batch call has a list of keys (with a repeated key, or fields that differ between
records), and each adapter's module says which atomic statements it becomes. `expect` is
the table after the same records one by one, through the adapter's own single calls. A
pg or mysql statement is atomic; sqlite has one writer at a time on the latest state, a
`BeginTx` that may fail and commits that may be busy; raw TiKV batches are executed
record by record in any order; S3 lists pages of at most `PageMax` keys. `at[w]` is the
point of a caller in its call and `next[w]` the record, or the key of an S3 listing, it
is at. A batch that is one statement or one commit is a loop over its records all the
same: `After(t, c, f)[n]` is table `t` after the first `n` records of call `c`, a
recursive function, and `Each` the table after all. `InOrder` gives the keys of a set in
order. For the scans, `steady` has the records that were there since the scan began and
`absent` those that were not there at any moment of it: the first must not be passed
over, the second not be returned.

### Generators

`zetan` is a floating-point sum; the model keeps how often each of its terms was
added, which is what the incremental update can get wrong. The reads and writes of
`countForZeta`, `zetan` and `eta` without the lock are a data race; all are words that are
read and written whole, so that the interleavings are the outcomes. `eta` is stored after
`zetan` (zipfian.go:140-141) and computed from it and from the item count of the start;
the model keeps how many terms that sum had. `RankByEta` says which ranks the formula
gives with such an `eta`; for three records or fewer it can be not a number, infinite or
negative, and what is not a number converts to the least integer (as on amd64). A draw
reads `zetan` in one step (`Draw`) and `eta` in another (`DrawRank`). The other generators
are functions of a random input, a dart of `Darts` equal ones, and integers go up to
`MaxInt`, so that the least one is reached by the hash. `Discrete.Next` takes the
proportions off a random float one after the other; with several of them the rounded
differences can leave a float close to 1 beyond the last, which is the dart `Darts`
(`DiscreteDarts`) and makes it panic. The sum of the first weights is
the size of a set of unit squares, one column for each weight (`Area`), and the shuffle
of the mixgraph regions takes one position per step, as its loop does; neither needs a
fold.

### GCCommand

Sizes are in blocks and ratios in percent. A sample of the directory passes over the
files whose `Info` fails, without an error (gc.go:52-55), so it is the sum over any of
the files (`Used`), or -1 when the directory cannot be read; one of `write_bytes` is
exact or -1. `missedWrites` and `missedFiles` remember that some sample was not exact.
Badger's collection is modelled from its documented behaviour.

## Runs

| Run | Bounds | Shows |
|---|---|---|
| `ack_counter` | 3 workers, window 2, 6 keys | the safety of the sequence, its inductive invariant, and refinement of `AckSequence` |
| `client_run` | 2 workers, 1 or 3 operations, 2 signals, runs and loads, batches of 1 and 2 | accounting, quiet output, termination |
| `client_load_warm_up` | 1 worker, 2 records | **violated**: a load with `warmuptime` inserts too many records |
| `load_insert` | 2 workers, 4 keys, batches of 1 and 2, 2 retries | the retry loop and cancellation |
| `core_run` | 2 workers, 4 loaded keys, 3 inserts, all choosers, batches of 2 | keys chosen and acknowledged, whole inserts |
| `kv_adapters` | 2 workers, 3 calls on one row of 2 fields, 2 buffers, 12 adapters | lost updates, buffer reuse, results, byte count |
| `row_reads` | 2 workers, 2 operations, 2 keys, 2 fields, 3 value buffers, 12 adapters | authentic records, `verifyRow`, exact reads and scans |
| `session_adapters` | 2 threads, 2 statements, 3 faults, a queue of 2 | no leaks, recovery, the causes of panics, no lost items |
| `batch_adapters` | 2 workers, 2 calls, 4 keys, 2 fields, pages of 2, 6 adapters | batches, their errors, scans |
| `mysql_batch_insert` | as `batch_adapters` | **violated**: values in the column of another field |
| `generators` | 2 workers, loads of 1, 3 and 4 records, up to 5 items, 12 darts, 5 draws | keys in range, exact sums, even and proportional draws, draws return |
| `gc_rounds` | 1 and 3 rounds, 4 ratios, 4 value logs, up to 1 compaction | totals, completeness and end of the rounds |

Why the bounds are enough for what they look for: in `ack_counter` six keys over two
slots reuse each slot three times, and three workers give an acknowledger, a holder
of the lock and a loser of it. In `client_run` one worker has a remainder operation,
one operation is fewer than the threads, and a second signal arrives. In
`kv_adapters` each pair of calls overlaps in every way, with a third call before,
between or after them; one key suffices, since calls on different keys share only
the buffers and the byte count. `FlushSize` 3 makes the second write flush. In
`row_reads` the hazards are between one write and one read, and between two writes
whose buffers come from the pool; three buffers for up to four values make one wait.
Three faults in `session_adapters` break both connections and make one `db.Conn` fail. In
`batch_adapters` two calls overlap in every way, key 3 is missing, and three keys over
pages of two cross a page boundary. In `generators` the items grow from the load to
more than any load, so that two workers see different counts and three records go
through the first update of `eta`, and the configurations have
empty sets, ranges with and without an offset, and weights with zeros. In `gc_rounds`
the counts are one that is corrected and one with a round more than there are files to
collect, two ratios are replaced by the default, and the value logs have files at, above
and below the ratio.

Deadlock checking is off where the bounds, a cancellation or the end of the process
stop the system; elsewhere the system goes on or ends with an explicit stuttering step.

Symmetry is used over workers, fields and buffers in runs that check invariants (and
for `AckCounter`, whose two temporal properties are safety properties).

Fairness: weak fairness for each worker, the measurement goroutine, main and the
first step of the signal goroutine (the Go scheduler runs every goroutine that can
run; timers fire; database calls return). None for signals or cancellations. The loop
of a worker with a warm-up ends because the measurement goroutine is fair. `Recovers`
of the sessions needs the threads to go on making calls, which their loop does, and
holds because the faults are finitely many: no fairness is put on faults.
`DrawsReturn` of the generators has weak fairness for each worker's steps inside
`next`; the spin lock is taken only by a worker that saw another count, which
happens finitely often, so that weak fairness suffices although the lock is not fair.
`Ends` of the gc command has weak fairness for the command alone.

## Proofs

Every theorem is `Spec => []Property` (`GCSpec`, `AdapterSpec` for the gc command and
the batch calls) for a property that a run checks, unless it says otherwise, and holds
for all values of the constants that satisfy the `ASSUME`s of the modules. These say
what the code has anyway: finitely many workers (and keys, in `RowReads`), sizes and
limits that are natural numbers, batches of at least one, a sequence of field names, at
least one key (`RowStore`), one statement (`SQLSession`) and one key per page
(`S3Batch`), and generators whose bounds and weights are those `Create` can be given
(`ConfigsAssumption`). Two are premises: `MaxLead <= WindowSize` for `AckCounter`, and
four loaded records for "latest" in `CoreRun`. Each module has an inductive invariant
(`IInv`, `ChooserInv`, `GCInv`, `BatchInv`), a conjunction of named parts, which TLC
checked on the instance of the module's run before it was proved; one lemma per action
shows that it is kept.

`AckCounterProofs`: `AckCounterInvariant`, `AckCounterSafety` (types, `LastOnlyAcked`,
`NoPanic`, `NoAckLost`, `SingleMover`), `AckCounterMonotone` (`Last` never decreases)
and `AckCounterRefines` (every behaviour is one of `AckSequence`). `LastOnlyAcked` is
not inductive: whether `limit` may move depends on what the window says about the keys
ahead. `IInv` says that a slot is set exactly when some key past `limit` that is
acknowledged and not yet taken by the scan falls into it (`WindowInv`), with the lock
(`LockInv`), the position of the scan (`ScanInv`), the ownership of unacknowledged keys
(`UnackedInv`) and the lead (`LeadInv`). Keys past `limit` lie within one window, so
`Slot` is injective on them (`SlotInjective`); that is the only use of the premise. The
refinement maps `PublishLimit` to `Advance`, `MarkSlot` to `Acked`, `NextKey` to `Issue`.

`LoadInsertProofs`: `NilMeansStoredHolds`, `BoundedInsertsHolds`,
`EveryKeyAttemptedHolds`. Each issued key belongs to exactly one insert in progress or
to one that is over (`OwnerInv`), and an insert in progress has stored its keys once
for each retry it counted, once more before it counts (`RetryInv`). `BudgetInv` counts
the keys that batches still take, as the size of `Promised`.

`CoreRunProofs`: `ChosenKeysInsertedHolds`, `NoAckLeakHolds`, `InsertsWholeHolds`, and
the refinement `UsesAckSequence` (`Spec => KeySeq!SeqSpec`): the run acknowledges
issued keys only, each of them once, so that `AckCounterRefines` applies to it. `Last`
is below every unacknowledged key (`SequenceInv`) and a single insert acknowledges its
key after its call only (`SingleInv`, `AckInv`); hence every key up to `Last` was
inserted. A batch has at most one unacknowledged key (`BatchInv`).

`CommandProofs`, for `ClientRun`: `QuietOutputHolds`, `TotalAgreesHolds`,
`MeasuredIsCountedHolds`, `AllExecutedHolds`. The counters are tied to the program
points: TOTAL and the operations differ by the workers between the two `Measure` calls
(`FlightInv`), measured and counted operations by those that returned (`HitInv`), and
during the warm-up all counters are zero (`WarmInv`). `ShareInv` bounds each worker's
operations by its share; that the shares of all workers add up to `operationcount` is a
counting argument on the places `0 .. total - 1` by their remainder (`Places`).

For `GCCommand`: `TotalsAccountHolds`, `AllCollectedHolds`. Between the two samples of a
round the total of the writes is behind by what was written since the first of them
(`WriteInv`); the space reclaimed is what the directory lost since the first snapshot,
as long as every sample saw all files (`SpaceInv`); and the files that reach the ratio
and the rounds that ended well add up to the files that reached it at the start
(`CollectInv`), because a round takes exactly one of them although the files after it
move up a place.

`KVAdaptersProofs`: `FieldsKeptHolds`, `StagedRowIntactHolds`,
`ResultMatchesEffectHolds`, `SerialBytesExactHolds`, for all twelve adapters at once.
The adapters' steps have a few shapes; the invariant is shown for the shapes and each
action is shown to have one. In a transaction an unchanged version means that the row
read is the row stored (`SnapOK`); what is staged is what the call makes of the row it
read, and the one reference to a buffer is to one that bolt's lock protects
(`StageOK`); `BytesInv` follows the count through the addition and the flush.

`RowReadsProofs`: `RowsAuthenticHolds`, `VerifyPassesHolds`, `ReadsExactHolds`. A buffer
belongs to the pool or to one value of one worker, and then holds that value
(`BufferInv`); `Decode` inverts `Encode` for every order of the map (`DecodeEncode`,
from `IndicesDiffer`: no two fields have the same index), so that a write leaves a good
row (`TableInv`) and a read gives one (`ReadFacts`, `VerifyInv`). For scans `FirstKeys`
and `Padding` say how long the results are (`ScanFacts`). The bound on the commits in
the types needs the writes still to come (`CommitInv`).

`AdapterProofs`, for `SessionAdapters`: `NothingLeaksHolds`, `AddedItemsSentHolds`,
`PanicCausesHolds`. The cache and the open statements agree (`CacheInv`), the pool is
the number of threads that hold a connection (`PoolInv`), a thread asks for a
connection only when it has none (`ConnInv`), and the indexer is closed exactly when a
thread has begun to clean up (`ItemsInv`).

For `BatchAdapters`: `ErrorLeavesPrefixHolds`, `BatchLikeSinglesHolds`,
`ReadsAlignedHolds`, `ScanExactHolds`, for the six adapters at once. `BatchInv` has, for
each caller, where its call can be (`CallInv`), which records it has executed
(`ExecInv`), which rows it has read (`ReadInv`), which records have been there since it
began (`SteadyInv`) and how far its scan has come without a gap (`ScanInv`, for s3 up to
the key before the page, with the page listing what follows: `Listed`); and for each
call what it left (`LeavesInv`). That a scan makes up no record is a second invariant
(`ExistInv`): what a caller has listed or read was in the table at some moment of its
call, s3's unchecked start key excepted (`MadeUp`). For sqlite, a transaction that has
written is the only one, and its snapshot is the committed table after the records so
far (`TxInv`, `LockInv`): that is why its commit leaves what single calls would have
(`SinglesInv`) although other transactions began in between. `OwnInv` has the fields.
The steps have a few shapes: a caller moves on (`MoveKeeps`), returns (`ReturnKeeps`),
stores one record (`StoreOneKeeps`) or all (`StoreAllKeeps`); what such a step leaves
alone is shown once (`Frame`, `StepKeeps`). The loop over the records and the ordering
of a set of keys are recursive, and what is needed of them (`AfterSteps`, `AfterIn`,
`InOrderFacts`) follows from the least number for which it would fail
(`SmallerWellFounded`), which replaces the induction the prover cannot instantiate.

`GeneratorsProofs`, for `Zipfian`: `ZetaExactHolds`, `LatestKeyExistsHolds`. The worker
between the two lock operations is the one that holds the lock (`LockInv`), and the sum
agrees with `countForZeta` except while the holder computes the new one (`SumInv`), as
`eta` does with the sum until the holder stores it (`EtaInv`); counts only lag behind
(`CountInv`), and a call that nothing overlaps finds its items counted (`OverlapInv`).
`LatestKeyExists` has two cases: from four records every `eta` gives a rank
among the items; with three, the `eta` of a draw that no update overlaps is the one of a
sum that has grown.

For `KeyChoosers`: `KeysInRangeHolds`, `OperationFitsBucketHolds`,
`DrawsProportionalHolds`. `ChooserInv` says what was drawn so far (`DrawnInv`), that the
shuffled regions are a permutation of the regions at every position of the shuffle
(`RegionInv`, `Permutes`), that an operation came from the mix of its key's bucket
(`OperationInv`), and how often each value came in its turn (`TurnInv`). The sums grow by
one column at a time (`AreaStep`, `AreaMonotone`), so that the dart falls into exactly
one weight, again found as the least one.

Only model-checked:

- liveness (`Terminates`, `InsertsReturn`, `Recovers`, `DrawsReturn`, `Ends`): the
  prover has no support for fairness and `ENABLED`;
- the two violations.

## Known deviations

What the code does otherwise than one would expect, found while modelling. Two have a
run that shows them (above); the others are in the model as the code has them, and
the properties except them by name.

- Insert keys: more than a window of unfinished inserts overwrites slots and lets
  `Last` cover an unfinished one; an acknowledgement that arrives while another worker
  scans stays invisible until the next `Acknowledge` (acknowledged_counter.go:92-110).
- `DoInsert` repeats successful inserts and does not retry failed ones (core.go:272-293).
- A batch insert without `writeallfields` writes one field per record (core.go:593).
- Updates of rocksdb, TiKV raw, redis strings and aerospike lose fields when they
  overlap; aerospike's generation check is set on a shadowed variable (db.go:124).
- badger's logical byte count loses bytes when writes overlap (db.go:366).
- TiKV's `BatchUpdate` replaces rows (txn.go:238, raw.go:151); its `BatchRead` takes a
  failed `Get` for a missing record.
- sqlite's `BatchRead` returns its rows twice after a retry (db.go:365).
- s3: with `s3.scan_keys_only` a Scan returns its start key without a look at the object
  (db.go:190-192), although the comment says "if it exists" (db.go:188); the made-up
  record uses up the count, so that one that exists may be left out. `ScanExact` excepts
  this key and no other (`UncheckedStart`); without the exception TLC finds such a scan.
- mysql and pg: a failed reconnect leaves a nil connection (mysql/db.go:223).
- elasticsearch: the first thread that finishes closes the indexer of the others.
- redis: the hash type drops the error of a read; the JSON type stores base64 on insert
  and reads arrays, so that `verifyRow` fails. pegasus's `Read` never returns values.
- etcd's `Scan` fails unless it reaches exactly the last key, and appends its rows
  after as many nils.
- bolt's `Read` returns slices of the memory map that outlive their transaction.
- `mixgraph.gpd_value` varies the lengths that `dataintegrity` requires to be constant.
- "latest" draws keys that do not exist when it starts with fewer than three records, and
  with three while another worker is between storing `zetan` and `eta`, which is not a
  number until then (zipfian.go:113, 140-141).
- zipfian's range has one key past the loaded and the expected ones (core.go:694 passes
  the end of a range as a bound that is part of it); without new keys it is never loaded.
- The operations' chooser can panic by rounding (discrete.go:60-72), with a random number
  next to 1.
- The hash of the least integer is negative; hotspot panics on an empty hot or cold
  set; mixgraph never draws the remainder of its last region and ignores `insertstart`
  (core.go:721); the histogram's first bucket gets one draw too many.
- gc: the text compared with badger's error does not occur in it (gc.go:350), so the
  rounds go on without result. A file whose `Info` fails is left out of a directory sample
  without an error (gc.go:52-55): the space reclaimed is then not the difference of the
  two snapshots, and nothing tells.

## Not modelled

- The curves of the floating-point distributions (`Exponential`, the generalized Pareto
  values, the probabilities of zipfian ranks): out of TLC's reach.
- Elasticsearch's `Read` and `Scan`, and cassandra, dynamodb, minio, mongodb, spanner:
  one call of an external client per operation, without steps that interleave.
- badger's wait for compactions before `Close` (a bounded poll without effect on the
  data) and the report it prints; creation of clients, tables and buckets from options.
- Histograms, CSV and reports (formatting and statistics), the shell (one command at a
  time), `ConcurrentMap` (no caller), `readBadgerData.go`, scripts.
- Commits whose outcome is unknown after a lost connection.

## What the properties except

A property says what the code does promise. Where a hazard is a thing the code gets
wrong, its property excepts exactly that case, by name and in its comment, and would be
violated by any other: such a hazard is described, and shown to be the only exception, but
not prevented. `PROJECT.json` says so in the note of each hazard concerned (the window's
overrun, overlapping get-and-put updates and byte counts, raw TiKV's swallowed read error,
batches without `writeallfields`, the indexer's early close, repeated sqlite rows, merging
s3 updates, bolt's reused page, redis's dropped error, the generators' edges). Failed
inserts that are not retried, against the comment at core.go:287-289, are in `LoadInsert`
as the code has them; `BoundedInserts` is about the repeats only.

## Open questions

- Action properties of the proved modules: what a step may never do to a stored record,
  to `opsDone` or to an item that was accepted.
- An abstract specification of the batch calls (a table and atomic calls on it) that
  sqlite and TiKV transactions implement, in place of the history variable `expect`.
