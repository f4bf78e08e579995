----------------------------- MODULE ClientRun ------------------------------
(***************************************************************************)
(* One `go-ycsb load' or `go-ycsb run' from the start of Client.Run to the *)
(* end of main: the worker goroutines and the measurement goroutine of     *)
(* pkg/client/client.go, the measuring wrapper of pkg/client/dbwrapper.go, *)
(* the warm-up flag and counts of pkg/measurement/measurement.go, and the  *)
(* signal goroutine and shutdown of cmd/go-ycsb/main.go.                   *)
(*                                                                         *)
(* A workload operation is one to MaxCalls measured calls of the database  *)
(* (a read-modify-write makes two, an insert may be repeated), and ends at *)
(* the first call that fails; in batch mode it may make no measured call.  *)
(* Latencies, printing and the pacing of throttle are left out: they delay *)
(* steps and change no state.                                              *)
(***************************************************************************)
EXTENDS Integers, FiniteSets

CONSTANTS ThreadCount,     \* threadcount
          Totals,          \* the operationcount / recordcount values tried
          Modes,           \* the properties tried: transactions, TRUE for `run'
                           \* and FALSE for `load'; warmUp, TRUE when
                           \* warmuptime > 0; batchSize, batch.size
          MaxCalls,        \* bound on the database calls of one operation
          MaxSignals,      \* bound on the signals sent to the process
          Saturation       \* `executed' counts no further than this

ASSUME ConstantsAssumption ==
  /\ ThreadCount \in Nat \ {0}
  /\ Totals \subseteq Nat
  /\ Modes \subseteq [transactions : BOOLEAN, warmUp : BOOLEAN,
                       batchSize : Nat \ {0}]
  /\ MaxCalls \in Nat \ {0}
  /\ MaxSignals \in Nat
  /\ Saturation \in Nat

Threads == 0 .. ThreadCount - 1

VARIABLES
  mode,       \* the properties of this process
  total,      \* totalOpCount, the same for every worker
  pc,         \* program point of each worker goroutine
  opsDone,    \* worker.opsDone
  calls,      \* database calls the current operation may still make
  executed,   \* operations carried out so far (up to Saturation)
  warmUp,     \* measurement.warmUp
  count,      \* measurements recorded: operations, errors and "TOTAL"
  hit,        \* the current operation of a worker recorded a measurement
  hits,       \* operations that recorded a measurement
  meas,       \* program point of the measurement goroutine
  measureCancelled,  \* measureCtx.Done() without the parent
  main,       \* program point of the main goroutine
  sig,        \* program point of the signal goroutine
  sc,         \* a signal is waiting in the channel sc
  signals,    \* signals sent so far
  cancelled,  \* globalContext.Done()
  exited      \* os.Exit was called

config == <<mode, total>>
workerVars == <<pc, opsDone, calls, executed, count, hit, hits>>
measVars == <<meas, warmUp>>
sigVars == <<sig, sc, signals>>
vars == <<config, workerVars, measVars, measureCancelled, main, sigVars,
          cancelled, exited>>

\* Mutant: the remainder of the division is lost.
OpCountTruncated(t) == total \div ThreadCount

\* Mutant: one thread too many gets an operation of the remainder.
OpCountOffByOne(t) ==
  total \div ThreadCount + (IF t <= total % ThreadCount THEN 1 ELSE 0)

\* worker.opCount: the share of a thread in the total.
OpCount(t) ==
  total \div ThreadCount + (IF t < total % ThreadCount THEN 1 ELSE 0)

Goto(t, point) == pc' = [pc EXCEPT ![t] = point]

\* Client.Run has started its goroutines and main waits for the workers.
Init ==
  /\ mode \in Modes
  /\ total \in Totals
  /\ pc = [t \in Threads |-> "init"]
  /\ opsDone = [t \in Threads |-> 0]
  /\ calls = [t \in Threads |-> 0]
  /\ executed = 0
  /\ warmUp = mode.warmUp
  /\ count = [ops |-> 0, errors |-> 0, total |-> 0]
  /\ hit = [t \in Threads |-> FALSE]
  /\ hits = 0
  /\ meas = "warm"
  /\ measureCancelled = FALSE
  /\ main = "wait"
  /\ sig = "wait"
  /\ sc = FALSE
  /\ signals = 0
  /\ cancelled = FALSE
  /\ exited = FALSE
-----------------------------------------------------------------------------
(* A worker goroutine. *)

\* newWorker and InitThread; too few operations end the process.
StartWorker(t) ==
  /\ pc[t] = "init"
  /\ IF total < ThreadCount
     THEN exited' = TRUE /\ UNCHANGED pc
     ELSE Goto(t, "loop") /\ UNCHANGED exited
  /\ UNCHANGED <<config, opsDone, calls, executed, count, hit, hits, measVars,
                 measureCancelled, main, sigVars, cancelled>>

LoopTest(t) == OpCount(t) = 0 \/ opsDone[t] < OpCount(t)

\* In batch mode the wrapper falls back to calls it does not measure when the
\* database has no batch interface.
MinCalls == IF mode.batchSize > 1 THEN 0 ELSE 1

\* The loop test, and the start of an operation.
BeginOperation(t) ==
  /\ pc[t] = "loop"
  /\ LoopTest(t)
  /\ \E n \in MinCalls .. MaxCalls :
       /\ calls' = [calls EXCEPT ![t] = n]
       /\ Goto(t, IF n = 0 THEN "returned" ELSE "call")
  /\ UNCHANGED <<config, opsDone, executed, count, hit, hits, measVars,
                 measureCancelled, main, sigVars, cancelled, exited>>

EndLoop(t) ==
  /\ pc[t] = "loop"
  /\ ~LoopTest(t)
  /\ Goto(t, "cleanup")
  /\ UNCHANGED <<config, opsDone, calls, executed, count, hit, hits, measVars,
                 measureCancelled, main, sigVars, cancelled, exited>>

\* The database call returned.  measurement.Measure records it only when the
\* warm-up is over; an error is recorded under OP_ERROR and not under TOTAL.
Record(t, kind) ==
  /\ count' = IF warmUp THEN count ELSE [count EXCEPT ![kind] = @ + 1]
  /\ hit' = [hit EXCEPT ![t] = @ \/ ~warmUp]

MeasureOp(t) ==
  /\ pc[t] = "call"
  /\ \/ Record(t, "ops") /\ Goto(t, "measureTotal") /\ UNCHANGED calls
     \/ Record(t, "errors") /\ Goto(t, "returned")
        /\ calls' = [calls EXCEPT ![t] = 0]
  /\ UNCHANGED <<config, opsDone, executed, hits, measVars,
                 measureCancelled, main, sigVars, cancelled, exited>>

\* Mutant: TOTAL is recorded during the warm-up too.
MeasureTotalInWarmUp(t) ==
  /\ pc[t] = "measureTotal"
  /\ count' = [count EXCEPT !.total = @ + 1]
  /\ calls' = [calls EXCEPT ![t] = @ - 1]
  /\ Goto(t, IF calls[t] = 1 THEN "returned" ELSE "call")
  /\ UNCHANGED <<config, opsDone, executed, hit, hits, measVars,
                 measureCancelled, main, sigVars, cancelled, exited>>

\* Mutant: the last call of the operation is not noticed.
MeasureTotalNeverEnds(t) ==
  /\ pc[t] = "measureTotal"
  /\ Record(t, "total")
  /\ calls' = [calls EXCEPT ![t] = @ - 1]
  /\ Goto(t, "call")
  /\ UNCHANGED <<config, opsDone, executed, hits, measVars,
                 measureCancelled, main, sigVars, cancelled, exited>>

\* The second Measure of a successful call reads the warm-up flag again.
MeasureTotal(t) ==
  /\ pc[t] = "measureTotal"
  /\ Record(t, "total")
  /\ calls' = [calls EXCEPT ![t] = @ - 1]
  /\ Goto(t, IF calls[t] = 1 THEN "returned" ELSE "call")
  /\ UNCHANGED <<config, opsDone, executed, hits, measVars,
                 measureCancelled, main, sigVars, cancelled, exited>>

\* Mutant: operations of the warm-up count towards opCount.
CountOperationInWarmUp(t) ==
  /\ pc[t] = "returned"
  /\ executed' = IF executed < Saturation THEN executed + 1 ELSE executed
  /\ hits' = hits + (IF hit[t] THEN 1 ELSE 0)
  /\ hit' = [hit EXCEPT ![t] = FALSE]
  /\ opsDone' = [opsDone EXCEPT ![t] = @ + mode.batchSize]
  /\ Goto(t, "poll")
  /\ UNCHANGED <<config, calls, count, measVars, measureCancelled, main,
                 sigVars,
                 cancelled, exited>>

\* The operation is over: it counts towards opCount once the warm-up is over.
CountOperation(t) ==
  /\ pc[t] = "returned"
  /\ executed' = IF executed < Saturation THEN executed + 1 ELSE executed
  /\ hits' = hits + (IF hit[t] THEN 1 ELSE 0)
  /\ hit' = [hit EXCEPT ![t] = FALSE]
  /\ opsDone' = IF warmUp THEN opsDone
                ELSE [opsDone EXCEPT ![t] = @ + mode.batchSize]
  /\ Goto(t, "poll")
  /\ UNCHANGED <<config, calls, count, measVars, measureCancelled, main,
                 sigVars,
                 cancelled, exited>>

\* The poll of ctx.Done() at the end of the loop body.
PollDone(t) ==
  /\ pc[t] = "poll"
  /\ Goto(t, IF cancelled THEN "cleanup" ELSE "loop")
  /\ UNCHANGED <<config, opsDone, calls, executed, count, hit, hits, measVars,
                 measureCancelled, main, sigVars, cancelled, exited>>

\* CleanupThread of the database and the workload, then the deferred wg.Done.
EndWorker(t) ==
  /\ pc[t] = "cleanup"
  /\ Goto(t, "done")
  /\ UNCHANGED <<config, opsDone, calls, executed, count, hit, hits, measVars,
                 measureCancelled, main, sigVars, cancelled, exited>>

WorkerStep(t) ==
  \/ StartWorker(t) \/ BeginOperation(t) \/ EndLoop(t) \/ MeasureOp(t)
  \/ MeasureTotal(t) \/ CountOperation(t) \/ PollDone(t) \/ EndWorker(t)
-----------------------------------------------------------------------------
(* The measurement goroutine. *)

\* `run' waits out the warm-up time, `load' does not; then the flag is cleared.
FinishWarmUp ==
  /\ meas = "warm"
  /\ warmUp' = FALSE
  /\ meas' = "tick"
  /\ UNCHANGED <<config, workerVars, measureCancelled, main, sigVars, cancelled,
                 exited>>

\* In `run', a cancelled context ends the wait and leaves the flag as it is.
CancelWarmUp ==
  /\ meas = "warm"
  /\ mode.transactions
  /\ cancelled
  /\ meas' = "done"
  /\ UNCHANGED <<config, workerVars, warmUp, measureCancelled, main, sigVars,
                 cancelled, exited>>

\* Mutant: the goroutine waits for the run's context instead of measureCtx.
EndMeasureOnCancelOnly ==
  /\ meas = "tick"
  /\ cancelled
  /\ meas' = "done"
  /\ UNCHANGED <<config, workerVars, warmUp, measureCancelled, main, sigVars,
                 cancelled, exited>>

\* measureCtx is done, by itself or through its parent: measureCh is fed.
EndMeasure ==
  /\ meas = "tick"
  /\ measureCancelled \/ cancelled
  /\ meas' = "done"
  /\ UNCHANGED <<config, workerVars, warmUp, measureCancelled, main, sigVars,
                 cancelled, exited>>

MeasStep == FinishWarmUp \/ CancelWarmUp \/ EndMeasure
-----------------------------------------------------------------------------
(* The main goroutine. *)

\* wg.Wait; after a load, Analyze uses the database once more.
WaitWorkers ==
  /\ main = "wait"
  /\ \A t \in Threads : pc[t] = "done"
  /\ main' = IF mode.transactions THEN "cancel" ELSE "analyze"
  /\ UNCHANGED <<config, workerVars, measVars, measureCancelled, sigVars,
                 cancelled, exited>>

Analyze ==
  /\ main = "analyze"
  /\ main' = "cancel"
  /\ UNCHANGED <<config, workerVars, measVars, measureCancelled, sigVars,
                 cancelled, exited>>

MeasureCancel ==
  /\ main = "cancel"
  /\ measureCancelled' = TRUE
  /\ main' = "receive"
  /\ UNCHANGED <<config, workerVars, measVars, sigVars, cancelled, exited>>

\* Mutant: Run returns without waiting for the measurement goroutine.
WaitMeasureDropped ==
  /\ main = "receive"
  /\ main' = "output"
  /\ UNCHANGED <<config, workerVars, measVars, measureCancelled, sigVars,
                 cancelled, exited>>

\* <-measureCh: Client.Run returns.
WaitMeasure ==
  /\ main = "receive"
  /\ meas = "done"
  /\ main' = "output"
  /\ UNCHANGED <<config, workerVars, measVars, measureCancelled, sigVars,
                 cancelled, exited>>

\* measurement.Output, whose first part reads the measurer without the lock.
Output ==
  /\ main = "output"
  /\ main' = "close"
  /\ UNCHANGED <<config, workerVars, measVars, measureCancelled, sigVars,
                 cancelled, exited>>

\* globalCancel and the Close of the database and the workload.
CloseAll ==
  /\ main = "close"
  /\ cancelled' = TRUE
  /\ main' = "closed"
  /\ UNCHANGED <<config, workerVars, measVars, measureCancelled, sigVars,
                 exited>>

\* closeDone <- struct{}{}: the channel has room, main returns.
EndMain ==
  /\ main = "closed"
  /\ main' = "end"
  /\ UNCHANGED <<config, workerVars, measVars, measureCancelled, sigVars,
                 cancelled, exited>>

MainStep ==
  \/ WaitWorkers \/ Analyze \/ MeasureCancel \/ WaitMeasure \/ Output
  \/ CloseAll \/ EndMain
-----------------------------------------------------------------------------
(* Signals. *)

\* A signal arrives; signal.Notify drops it when the channel is full.
SendSignal ==
  /\ signals < MaxSignals
  /\ signals' = signals + 1
  /\ sc' = TRUE
  /\ UNCHANGED <<config, workerVars, measVars, measureCancelled, main, sig,
                 cancelled, exited>>

FirstSignal ==
  /\ sig = "wait"
  /\ sc
  /\ sc' = FALSE
  /\ cancelled' = TRUE
  /\ sig' = "select"
  /\ UNCHANGED <<config, workerVars, measVars, measureCancelled, main, signals,
                 exited>>

\* A second signal, or ten seconds, end the process at once.
ForceExit ==
  /\ sig = "select"
  /\ exited' = TRUE
  /\ sig' = "done"
  /\ UNCHANGED <<config, workerVars, measVars, measureCancelled, main, sc,
                 signals,
                 cancelled>>

SigStep == FirstSignal \/ ForceExit
-----------------------------------------------------------------------------
Running == ~exited /\ main # "end"

Next ==
  /\ Running
  /\ \/ \E t \in Threads : WorkerStep(t)
     \/ MeasStep \/ MainStep \/ SendSignal \/ SigStep

\* The Go scheduler runs every goroutine that can run, database calls return,
\* and timers fire.  Signals come from outside: no fairness for SendSignal.
Fairness ==
  /\ \A t \in Threads : WF_vars(Running /\ WorkerStep(t))
  /\ WF_vars(Running /\ MeasStep)
  /\ WF_vars(Running /\ MainStep)
  /\ WF_vars(Running /\ FirstSignal)

Spec == Init /\ [][Next]_vars /\ Fairness
-----------------------------------------------------------------------------
(* Properties. *)

AtOutput == main \in {"output", "close", "closed", "end"}

\* No signal interrupted the run.
Uninterrupted == sig = "wait"

\* The operations that the workers counted, by worker, and how many they are: the sum
\* of all opsDone.
CountedOps == UNION {{t} \X (1 .. opsDone[t]) : t \in Threads}
OpsDone == Cardinality(CountedOps)

\* Type correctness of the run's state.
TypeOK ==
  /\ mode \in Modes /\ total \in Totals
  /\ pc \in [Threads -> {"init", "loop", "call", "measureTotal", "returned",
                         "poll", "cleanup", "done"}]
  /\ opsDone \in [Threads -> Nat]
  /\ calls \in [Threads -> 0 .. MaxCalls]
  /\ executed \in 0 .. Saturation
  /\ count \in [ops : Nat, errors : Nat, total : Nat]
  /\ hit \in [Threads -> BOOLEAN] /\ hits \in Nat
  /\ meas \in {"warm", "tick", "done"}
  /\ main \in {"wait", "analyze", "cancel", "receive", "output", "close",
               "closed", "end"}
  /\ sig \in {"wait", "select", "done"}
  /\ signals \in 0 .. MaxSignals
  /\ {warmUp, measureCancelled, sc, cancelled, exited} \subseteq BOOLEAN

\* Output reads the measurer partly without its lock (measurement.go:96) and Close
\* follows it (main.go:200): by then no worker can measure or use the database,
\* and the measurement goroutine is gone, however the run ended.
QuietOutput ==
  AtOutput => (\A t \in Threads : pc[t] = "done") /\ meas = "done"

\* Types, and the TOTAL line agrees with the lines of the operations (dbwrapper.go:37-38): the
\* two Measure calls read the warm-up flag separately, so TOTAL may hold one call
\* per worker more than the operations, never fewer; without a warm-up they agree.  The operations
\* are the calls of DbWrapper: the line READ_MODIFY_WRITE, which core.go:461-463 measures
\* around a Read and an Update, is in addition to theirs and never added to TOTAL.
TotalAgrees ==
  /\ TypeOK
  /\ count.total <= count.ops + ThreadCount
  /\ AtOutput => /\ count.ops <= count.total
                 /\ ~mode.warmUp => count.ops = count.total

\* Operations that count towards operationcount are the measured ones: every
\* measured operation is counted, and at most one per worker is counted without
\* having been measured, because it was in flight when the warm-up ended.
MeasuredIsCounted ==
  AtOutput => /\ hits * mode.batchSize <= OpsDone
              /\ mode.batchSize = 1 => OpsDone <= hits + ThreadCount

\* A load makes one insert operation for each of recordcount records, whatever the
\* split over the threads: workloads/workload_template:35-36, "The number of
\* records in the table to be inserted in the load phase", and client.go:182,
\* "load stage no need to warm up".
LoadExact ==
  AtOutput /\ Uninterrupted /\ ~mode.transactions =>
    executed * mode.batchSize = total

\* A run that is not interrupted carries out all of operationcount, whatever the split
\* over the threads and the moment the warm-up ends.  Without a warm-up it carries out
\* no more than that, but for the last batch of each worker: a load with batch.size 1
\* makes exactly recordcount inserts.
AllExecuted ==
  AtOutput /\ Uninterrupted /\ executed < Saturation =>
    /\ executed * mode.batchSize >= total
    /\ ~mode.warmUp =>
         executed * mode.batchSize <= total + ThreadCount * (mode.batchSize - 1)

\* The process ends: the workers finish or see the cancellation, the measurement
\* goroutine is stopped, and main does not wait for anyone who waits for it.
Terminates == <>(~Running)
=============================================================================
