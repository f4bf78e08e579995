---------------------------- MODULE CommandProofs ---------------------------
(***************************************************************************)
(* Proofs about the two commands that have modules of their own: load and  *)
(* run (ClientRun, for any number of threads, any operationcount and any   *)
(* modes) and gc (GCCommand, for any value log, any number of rounds and   *)
(* any ratio).                                                             *)
(***************************************************************************)
EXTENDS ClientRun, GCCommand, FiniteSetTheorems, TLAPS

\* Workers between the two Measure calls of a successful database call, and those of
\* them whose operation has recorded something.
InFlight == {t \in Threads : pc[t] = "measureTotal"}
Recorded == {t \in InFlight : hit[t]}

\* Workers whose operation is over and recorded nothing.
Unmeasured == {t \in Threads : pc[t] = "returned" /\ ~hit[t]}

\* An operation that makes a call has calls left to make.
CallsInv == \A t \in Threads : pc[t] \in {"call", "measureTotal"} => calls[t] > 0

\* main passes wg.Wait and <-measureCh only when the goroutines are over.
QuietInv ==
  /\ main # "wait" => \A t \in Threads : pc[t] = "done"
  /\ AtOutput => meas = "done"

\* During the warm-up nothing is recorded and nothing is counted.
WarmInv ==
  /\ warmUp => /\ count.ops = 0 /\ count.total = 0 /\ hits = 0
               /\ \A t \in Threads : ~hit[t] /\ opsDone[t] = 0
  /\ ~mode.warmUp => ~warmUp

\* The calls in flight account for the difference of TOTAL and the operations.
FlightInv ==
  /\ count.total + Cardinality(InFlight) <= count.ops + ThreadCount
  /\ count.ops <= count.total + Cardinality(Recorded)
  /\ ~mode.warmUp => count.total + Cardinality(InFlight) = count.ops

\* A measured operation is counted; an unmeasured one is its worker's only one.
HitInv ==
  /\ hits * mode.batchSize <= OpsDone
  /\ mode.batchSize = 1 => OpsDone + Cardinality(Unmeasured) <= hits + ThreadCount

\* What was counted was executed; without a warm-up everything executed is counted.
ExecInv ==
  executed < Saturation =>
    /\ OpsDone <= executed * mode.batchSize
    /\ ~mode.warmUp => OpsDone = executed * mode.batchSize

\* A worker starts operations below its share only, and stops at its share unless a
\* signal came.
ShareInv ==
  \A t \in Threads :
    /\ pc[t] # "init" => total >= ThreadCount
    /\ pc[t] \in {"call", "measureTotal", "returned"} => opsDone[t] < OpCount(t)
    /\ opsDone[t] <= OpCount(t) + mode.batchSize - 1
    /\ pc[t] \in {"cleanup", "done"} /\ sig = "wait" => opsDone[t] >= OpCount(t)

\* Without a signal the context is cancelled only when the workers are over.
CancelInv == cancelled /\ sig = "wait" => main \in {"closed", "end"}

IInv ==
  /\ TypeOK /\ CallsInv /\ QuietInv /\ WarmInv /\ FlightInv /\ HitInv /\ ExecInv
  /\ ShareInv /\ CancelInv
-----------------------------------------------------------------------------
\* The types of what a process is configured with.
LEMMA ConfigTypes ==
  ASSUME TypeOK
  PROVE  total \in Nat /\ mode.batchSize \in Nat \ {0} /\ ThreadCount \in Nat \ {0}
  BY ConstantsAssumption DEF TypeOK

\* The division of the total over the threads.
LEMMA Division ==
  ASSUME NEW n \in Nat, NEW d \in Nat \ {0}
  PROVE  /\ n \div d \in Nat /\ n % d \in 0 .. d - 1
         /\ n = d * (n \div d) + (n % d)
         /\ n >= d => n \div d >= 1
  OBVIOUS

\* A share is a number, and no worker goes without when there is enough for all.
LEMMA ShareType ==
  ASSUME TypeOK, NEW t \in Threads
  PROVE  OpCount(t) \in Nat /\ (total >= ThreadCount => OpCount(t) > 0)
  <1>1. total \div ThreadCount \in Nat /\ (total >= ThreadCount => total \div ThreadCount >= 1)
    BY ConfigTypes, Division
  <1> QED BY <1>1 DEF OpCount

\* There are ThreadCount threads.
LEMMA ThreadsFinite ==
  IsFiniteSet(Threads) /\ Cardinality(Threads) = ThreadCount
  <1>1. 0 \in Int /\ ThreadCount - 1 \in Int /\ ThreadCount - 1 - 0 + 1 = ThreadCount /\ ~(0 > ThreadCount - 1)
    BY ConstantsAssumption
  <1> QED BY <1>1, FS_Interval DEF Threads

\* A set of threads has a size, at most ThreadCount.
LEMMA ThreadSets ==
  ASSUME NEW S \in SUBSET Threads
  PROVE  IsFiniteSet(S) /\ Cardinality(S) \in Nat /\ Cardinality(S) <= ThreadCount
  BY ThreadsFinite, FS_Subset, FS_CardinalityType

\* The size changes by one with each thread.
LEMMA ThreadSetGrows ==
  ASSUME NEW S \in SUBSET Threads, NEW t \in Threads, t \notin S
  PROVE  Cardinality(S \cup {t}) = Cardinality(S) + 1
  BY ThreadSets, FS_AddElement

LEMMA ThreadSetShrinks ==
  ASSUME NEW S \in SUBSET Threads, NEW t \in S
  PROVE  Cardinality(S \ {t}) = Cardinality(S) - 1
  BY ThreadSets, FS_RemoveElement

\* n places for each thread and one more for the first r of them.
Places(n, r) == (Threads \X (1 .. n)) \cup ((0 .. r - 1) \X {n + 1})

LEMMA PlacesSize ==
  ASSUME NEW n \in Nat, NEW r \in Nat
  PROVE  /\ IsFiniteSet(Places(n, r))
         /\ Cardinality(Places(n, r)) = ThreadCount * n + r
  <1> DEFINE I == 1 .. n
             R == 0 .. r - 1
             L == {n + 1}
             A == Threads \X I
             B == R \X L
  <1>1. IsFiniteSet(I) /\ Cardinality(I) = n
    BY FS_Interval
  <1>2. IsFiniteSet(R) /\ Cardinality(R) = r
    <2>1. 0 \in Int /\ r - 1 \in Int /\ r - 1 - 0 + 1 = r /\ (0 > r - 1 <=> r = 0)
      OBVIOUS
    <2> QED BY <2>1, FS_Interval
  <1>3. IsFiniteSet(L) /\ Cardinality(L) = 1
    BY FS_Singleton
  <1>4. A \cap B = {}
    OBVIOUS
  <1> HIDE DEF I, R, L
  <1>5. IsFiniteSet(A) /\ Cardinality(A) = ThreadCount * n
    BY <1>1, ThreadsFinite, FS_Product
  <1>6. IsFiniteSet(B) /\ Cardinality(B) = Cardinality(R) * Cardinality(L)
    BY <1>2, <1>3, FS_Product
  <1>7. Cardinality(B) = r
    BY <1>2, <1>3, <1>6
  <1> HIDE DEF A, B
  <1>8. /\ IsFiniteSet(A \cup B)
        /\ Cardinality(A \cup B) = Cardinality(A) + Cardinality(B) - Cardinality(A \cap B)
    BY <1>5, <1>6, FS_Union
  <1>9. Cardinality(A \cap B) = 0
    BY <1>4, FS_EmptySet
  <1>10. ThreadCount * n \in Nat
    BY ConstantsAssumption
  <1>11. Cardinality(A \cup B) = ThreadCount * n + r
    BY <1>5, <1>7, <1>8, <1>9, <1>10
  <1> QED BY <1>8, <1>11 DEF A, B, I, R, L, Places

\* All shares together are the total.
LEMMA SharesSize ==
  ASSUME TypeOK, NEW n \in Nat
  PROVE  Cardinality(Places(total \div ThreadCount + n, total % ThreadCount))
           = total + ThreadCount * n
  <1> DEFINE q == total \div ThreadCount
             r == total % ThreadCount
  <1>1. q \in Nat /\ r \in Nat /\ total = ThreadCount * q + r
    <2>1. q \in Nat /\ r \in 0 .. ThreadCount - 1 /\ total = ThreadCount * q + r
      BY ConfigTypes, Division
    <2> HIDE DEF q, r
    <2> QED BY <2>1, ConfigTypes
  <1> HIDE DEF q, r
  <1>2. Cardinality(Places(q + n, r)) = ThreadCount * (q + n) + r
    BY <1>1, PlacesSize
  <1>3. ThreadCount * (q + n) = ThreadCount * q + ThreadCount * n
    BY <1>1, ConfigTypes
  <1>4. ThreadCount * q \in Nat /\ ThreadCount * n \in Nat
    BY <1>1, ConfigTypes
  <1> QED BY <1>1, <1>2, <1>3, <1>4 DEF q, r

\* The places of the shares, each with n more.
LEMMA SharePlaces ==
  ASSUME TypeOK, NEW n \in Nat
  PROVE  Places(total \div ThreadCount + n, total % ThreadCount)
           = {p \in Threads \X Nat : p[2] > 0 /\ p[2] <= OpCount(p[1]) + n}
  <1> DEFINE q == total \div ThreadCount
             r == total % ThreadCount
  <1>1. q \in Nat /\ r \in 0 .. ThreadCount - 1
    BY ConfigTypes, Division
  <1>2. \A t \in Threads : OpCount(t) = q + (IF t < r THEN 1 ELSE 0)
    BY DEF OpCount
  <1> HIDE DEF q, r
  <1>3. Places(q + n, r) = {p \in Threads \X Nat : p[2] > 0 /\ p[2] <= OpCount(p[1]) + n}
    BY <1>1, <1>2, ConfigTypes DEF Places, Threads
  <1> QED BY <1>3 DEF q, r

LEMMA CountedPlaces ==
  ASSUME TypeOK
  PROVE  CountedOps = {p \in Threads \X Nat : p[2] > 0 /\ p[2] <= opsDone[p[1]]}
  BY DEF CountedOps, TypeOK

\* The counted operations are finitely many.
LEMMA CountedFinite ==
  ASSUME TypeOK, ShareInv
  PROVE  IsFiniteSet(CountedOps) /\ OpsDone \in Nat
  <1> DEFINE b == mode.batchSize
             P == Places(total \div ThreadCount + b, total % ThreadCount)
  <1>1. b \in Nat /\ total \div ThreadCount \in Nat /\ total % ThreadCount \in Nat
    BY ConfigTypes, Division
  <1>2. IsFiniteSet(P)
    BY <1>1, PlacesSize
  <1>3. CountedOps \subseteq P
    <2>1. \A t \in Threads : opsDone[t] \in Nat /\ OpCount(t) \in Nat /\ opsDone[t] <= OpCount(t) + b - 1
      BY ShareType DEF TypeOK, ShareInv
    <2> HIDE DEF b
    <2> QED BY <1>1, <2>1, SharePlaces, CountedPlaces
  <1> HIDE DEF P
  <1> QED BY <1>2, <1>3, FS_Subset, FS_CardinalityType DEF OpsDone

\* Counting one operation, a batch of them, adds as many.
LEMMA OneMoreCounted ==
  ASSUME TypeOK, ShareInv, NEW t \in Threads,
         opsDone' = [opsDone EXCEPT ![t] = @ + mode.batchSize]
  PROVE  OpsDone' = OpsDone + mode.batchSize
  <1> DEFINE b == mode.batchSize
             T == {t}
             I == opsDone[t] + 1 .. opsDone[t] + b
             New == T \X I
  <1>1. b \in Nat \ {0} /\ opsDone[t] \in Nat
    BY ConfigTypes DEF TypeOK
  <1>2. CountedOps' = CountedOps \cup New
    BY <1>1 DEF CountedOps, TypeOK
  <1>3. CountedOps \cap New = {}
    BY <1>1 DEF CountedOps, TypeOK
  <1>4. IsFiniteSet(T) /\ Cardinality(T) = 1
    BY FS_Singleton
  <1>5. IsFiniteSet(I) /\ Cardinality(I) = b
    <2>1. /\ opsDone[t] + 1 \in Int /\ opsDone[t] + b \in Int
          /\ ~(opsDone[t] + 1 > opsDone[t] + b)
          /\ (opsDone[t] + b) - (opsDone[t] + 1) + 1 = b
      BY <1>1
    <2> QED BY <2>1, FS_Interval
  <1> HIDE DEF T, I
  <1>6. IsFiniteSet(New) /\ Cardinality(New) = Cardinality(T) * Cardinality(I)
    BY <1>4, <1>5, FS_Product
  <1>7. Cardinality(New) = b
    BY <1>1, <1>4, <1>5, <1>6
  <1> HIDE DEF New, b
  <1>8. Cardinality(CountedOps \cup New)
          = Cardinality(CountedOps) + Cardinality(New) - Cardinality(CountedOps \cap New)
    BY <1>6, CountedFinite, FS_Union
  <1>9. Cardinality(CountedOps \cap New) = 0
    BY <1>3, FS_EmptySet
  <1>10. OpsDone' = OpsDone + b
    BY <1>1, <1>2, <1>7, <1>8, <1>9, CountedFinite DEF OpsDone
  <1> QED BY <1>10 DEF b

LEMMA NothingCounted ==
  ASSUME \A t \in Threads : opsDone[t] = 0
  PROVE  OpsDone = 0
  <1>1. CountedOps = {}
    BY DEF CountedOps
  <1> QED BY <1>1, FS_EmptySet DEF OpsDone

\* One operation more.
LEMMA Times ==
  ASSUME NEW m \in Nat, NEW b \in Nat
  PROVE  m * b \in Nat /\ (m + 1) * b = m * b + b
  OBVIOUS
-----------------------------------------------------------------------------
\* When the counted operations reach every share, they reach the total.
LEMMA SharesDone ==
  ASSUME TypeOK, ShareInv, \A t \in Threads : opsDone[t] >= OpCount(t)
  PROVE  OpsDone >= total
  <1> DEFINE P == Places(total \div ThreadCount + 0, total % ThreadCount)
  <1>1. Cardinality(P) = total + ThreadCount * 0
    BY SharesSize
  <1>2. P \subseteq CountedOps
    <2>1. \A t \in Threads : opsDone[t] \in Nat /\ OpCount(t) \in Nat
      BY ShareType DEF TypeOK
    <2>2. P = {p \in Threads \X Nat : p[2] > 0 /\ p[2] <= OpCount(p[1]) + 0}
      BY SharePlaces
    <2> HIDE DEF P
    <2> QED BY <2>1, <2>2, CountedPlaces
  <1> HIDE DEF P
  <1>3. Cardinality(P) <= Cardinality(CountedOps)
    BY <1>2, CountedFinite, FS_Subset
  <1>4. Cardinality(P) = total
    BY <1>1, ConfigTypes
  <1> QED BY <1>3, <1>4, ConfigTypes, CountedFinite DEF OpsDone

\* No worker counts more than its share and the rest of one batch.
LEMMA SharesBound ==
  ASSUME TypeOK, ShareInv
  PROVE  OpsDone <= total + ThreadCount * (mode.batchSize - 1)
  <1> DEFINE n == mode.batchSize - 1
             P == Places(total \div ThreadCount + n, total % ThreadCount)
  <1>1. n \in Nat
    BY ConfigTypes
  <1>2. Cardinality(P) = total + ThreadCount * n
    BY <1>1, SharesSize
  <1>3. CountedOps \subseteq P
    <2>1. \A t \in Threads : opsDone[t] \in Nat /\ OpCount(t) \in Nat /\ opsDone[t] <= OpCount(t) + n
      BY ShareType, ConfigTypes DEF TypeOK, ShareInv
    <2>2. P = {p \in Threads \X Nat : p[2] > 0 /\ p[2] <= OpCount(p[1]) + n}
      BY <1>1, SharePlaces
    <2> HIDE DEF P, n
    <2> QED BY <1>1, <2>1, <2>2, CountedPlaces
  <1>4. IsFiniteSet(P)
    <2>1. total \div ThreadCount \in Nat /\ total % ThreadCount \in Nat
      BY ConfigTypes, Division
    <2> HIDE DEF n
    <2>2. total \div ThreadCount + n \in Nat
      BY <1>1, <2>1
    <2> QED BY <2>1, <2>2, PlacesSize
  <1> HIDE DEF P
  <1>5. Cardinality(CountedOps) <= Cardinality(P)
    BY <1>3, <1>4, FS_Subset
  <1> QED BY <1>2, <1>5 DEF OpsDone
-----------------------------------------------------------------------------
\* Initially nothing has been done.
LEMMA InitIInv == Init => IInv
  <1> SUFFICES ASSUME Init PROVE IInv
    OBVIOUS
  <1> USE DEF Init
  <1>1. TypeOK
    <2>1. mode \in Modes /\ total \in Totals
      OBVIOUS
    <2>2. pc \in [Threads -> {"init", "loop", "call", "measureTotal", "returned",
                              "poll", "cleanup", "done"}]
      OBVIOUS
    <2>3. /\ opsDone \in [Threads -> Nat] /\ calls \in [Threads -> 0 .. MaxCalls]
          /\ executed \in 0 .. Saturation /\ hits \in Nat /\ signals \in 0 .. MaxSignals
      BY ConstantsAssumption
    <2>4. count \in [ops : Nat, errors : Nat, total : Nat]
      OBVIOUS
    <2>5. hit \in [Threads -> BOOLEAN]
      OBVIOUS
    <2>6. mode.warmUp \in BOOLEAN
      BY ConstantsAssumption
    <2>7. {warmUp, measureCancelled, sc, cancelled, exited} \subseteq BOOLEAN
      BY <2>6
    <2> QED BY <2>1, <2>2, <2>3, <2>4, <2>5, <2>7 DEF TypeOK
  <1>2. CallsInv /\ QuietInv /\ CancelInv
    BY DEF CallsInv, QuietInv, CancelInv, AtOutput
  <1>3. \A t \in Threads : pc[t] = "init" /\ opsDone[t] = 0 /\ ~hit[t]
    OBVIOUS
  <1>4. WarmInv
    BY <1>3 DEF WarmInv
  <1>5. InFlight = {} /\ Recorded = {} /\ Unmeasured = {}
    BY <1>3 DEF InFlight, Recorded, Unmeasured
  <1>6. FlightInv
    BY <1>5, FS_EmptySet, ConstantsAssumption DEF FlightInv
  <1>7. OpsDone = 0
    BY <1>3, NothingCounted
  <1>8. mode.batchSize \in Nat \ {0}
    BY <1>1, ConfigTypes
  <1>9. HitInv
    BY <1>5, <1>7, <1>8, FS_EmptySet, ConstantsAssumption DEF HitInv
  <1>10. ExecInv
    BY <1>7, <1>8 DEF ExecInv
  <1>11. ShareInv
    BY <1>1, <1>3, <1>8, ShareType DEF ShareInv
  <1> QED BY <1>1, <1>2, <1>4, <1>6, <1>9, <1>10, <1>11 DEF IInv

\* Steps of the other goroutines leave the workers, and what they counted, alone.
LEMMA WorkersIdle ==
  ASSUME IInv, UNCHANGED <<config, workerVars>>, sig' = "wait" => sig = "wait"
  PROVE  CallsInv' /\ FlightInv' /\ HitInv' /\ ExecInv' /\ ShareInv'
  <1> USE DEF IInv, config, workerVars
  <1>1. CallsInv' /\ ShareInv'
    BY DEF CallsInv, ShareInv, OpCount
  <1>2. InFlight' = InFlight /\ Recorded' = Recorded /\ Unmeasured' = Unmeasured
    BY DEF InFlight, Recorded, Unmeasured
  <1>3. OpsDone' = OpsDone
    BY DEF OpsDone, CountedOps
  <1> QED BY <1>1, <1>2, <1>3 DEF FlightInv, HitInv, ExecInv

\* The measurement goroutine clears the flag, or stops.
LEMMA MeasStepIInv ==
  ASSUME IInv, MeasStep
  PROVE  IInv'
  <1> USE DEF IInv
  <1>1. /\ UNCHANGED <<config, workerVars, measureCancelled, main, sigVars, cancelled, exited>>
        /\ \/ warmUp' = FALSE /\ meas' = "tick" /\ meas = "warm"
           \/ warmUp' = warmUp /\ meas' = "done"
    BY DEF MeasStep, FinishWarmUp, CancelWarmUp, EndMeasure
  <1> USE <1>1 DEF config, workerVars, sigVars
  <1>2. CallsInv' /\ FlightInv' /\ HitInv' /\ ExecInv' /\ ShareInv'
    BY WorkersIdle
  <1>3. TypeOK'
    <2>1. warmUp' \in BOOLEAN /\ meas' \in {"warm", "tick", "done"}
      BY DEF TypeOK
    <2> QED BY <2>1 DEF TypeOK
  <1>4. QuietInv' /\ CancelInv'
    BY DEF QuietInv, CancelInv, AtOutput
  <1>5. WarmInv'
    BY DEF WarmInv
  <1> QED BY <1>2, <1>3, <1>4, <1>5

\* The main goroutine passes its waits.
LEMMA MainStepIInv ==
  ASSUME IInv, MainStep
  PROVE  IInv'
  <1> USE DEF IInv
  <1>1. /\ UNCHANGED <<config, workerVars, measVars, sigVars, exited>>
        /\ measureCancelled' \in {measureCancelled, TRUE}
        /\ main # "end"
    BY DEF MainStep, WaitWorkers, Analyze, MeasureCancel, WaitMeasure, Output, CloseAll, EndMain
  <1>2. \/ /\ main = "wait" /\ main' \in {"cancel", "analyze"} /\ UNCHANGED cancelled
           /\ \A t \in Threads : pc[t] = "done"
        \/ main \in {"analyze", "cancel"} /\ main' \in {"cancel", "receive"} /\ UNCHANGED cancelled
        \/ main = "receive" /\ meas = "done" /\ main' = "output" /\ UNCHANGED cancelled
        \/ main = "output" /\ main' = "close" /\ UNCHANGED cancelled
        \/ main = "close" /\ main' = "closed" /\ cancelled' = TRUE
        \/ main = "closed" /\ main' = "end" /\ UNCHANGED cancelled
    BY DEF MainStep, WaitWorkers, Analyze, MeasureCancel, WaitMeasure, Output, CloseAll, EndMain
  <1> USE <1>1 DEF config, workerVars, measVars, sigVars
  <1>3. CallsInv' /\ FlightInv' /\ HitInv' /\ ExecInv' /\ ShareInv'
    BY WorkersIdle
  <1>4. TypeOK'
    <2>1. measureCancelled' \in BOOLEAN
      BY DEF TypeOK
    <2>2. cancelled' \in BOOLEAN
      BY <1>2 DEF TypeOK
    <2>3. main' \in {"wait", "analyze", "cancel", "receive", "output", "close", "closed", "end"}
      BY <1>2
    <2> QED BY <2>1, <2>2, <2>3 DEF TypeOK
  <1>5. QuietInv'
    BY <1>2 DEF QuietInv, AtOutput
  <1>6. CancelInv'
    BY <1>2 DEF CancelInv
  <1>7. WarmInv'
    BY DEF WarmInv
  <1> QED BY <1>3, <1>4, <1>5, <1>6, <1>7

\* A signal arrives, or is handled.
LEMMA SignalIInv ==
  ASSUME IInv, SendSignal \/ SigStep
  PROVE  IInv'
  <1> USE DEF IInv
  <1>1. /\ UNCHANGED <<config, workerVars, measVars, measureCancelled, main>>
        /\ sig' = "wait" => sig = "wait" /\ UNCHANGED cancelled
    BY DEF SendSignal, SigStep, FirstSignal, ForceExit
  <1> USE <1>1 DEF config, workerVars, measVars
  <1>2. CallsInv' /\ FlightInv' /\ HitInv' /\ ExecInv' /\ ShareInv'
    BY WorkersIdle
  <1>3. TypeOK'
    <2>1. sig' \in {"wait", "select", "done"}
      BY DEF SendSignal, SigStep, FirstSignal, ForceExit, TypeOK
    <2>2. signals' \in 0 .. MaxSignals
      BY ConstantsAssumption DEF SendSignal, SigStep, FirstSignal, ForceExit, TypeOK
    <2>3. sc' \in BOOLEAN
      BY DEF SendSignal, SigStep, FirstSignal, ForceExit, TypeOK
    <2>4. cancelled' \in BOOLEAN
      BY DEF SendSignal, SigStep, FirstSignal, ForceExit, TypeOK
    <2>5. exited' \in BOOLEAN
      BY DEF SendSignal, SigStep, FirstSignal, ForceExit, TypeOK
    <2> QED BY <2>1, <2>2, <2>3, <2>4, <2>5 DEF TypeOK
  <1>4. QuietInv' /\ CancelInv'
    BY DEF QuietInv, CancelInv, AtOutput
  <1>5. WarmInv'
    BY DEF WarmInv
  <1> QED BY <1>2, <1>3, <1>4, <1>5
-----------------------------------------------------------------------------
(* The steps of a worker. *)

\* While a worker is not done, main waits.
LEMMA MainWaits ==
  ASSUME IInv, NEW t \in Threads, pc[t] # "done",
         UNCHANGED <<measVars, main, sigVars, cancelled>>
  PROVE  QuietInv' /\ CancelInv' /\ main = "wait" /\ (sig = "wait" => ~cancelled)
  BY DEF IInv, QuietInv, CancelInv, AtOutput, measVars, sigVars

\* Moving between points outside the calls changes none of the counts.
LEMMA MoveCounts ==
  ASSUME IInv, NEW t \in Threads, NEW p \in {"loop", "call", "returned", "cleanup", "done"},
         pc[t] \notin {"measureTotal", "returned"}, p = "returned" => mode.batchSize # 1,
         Goto(t, p), UNCHANGED <<config, opsDone, executed, count, hit, hits, measVars>>
  PROVE  FlightInv' /\ HitInv' /\ ExecInv' /\ WarmInv'
  <1> USE DEF IInv, Goto, config, measVars
  <1>1. pc'[t] = p /\ \A u \in Threads : u # t => pc'[u] = pc[u]
    BY DEF TypeOK
  <1>2. InFlight' = InFlight
    BY <1>1 DEF InFlight
  <1>3. Recorded' = Recorded
    BY <1>2 DEF Recorded
  <1>4. mode.batchSize = 1 => Unmeasured' = Unmeasured
    BY <1>1 DEF Unmeasured
  <1>5. OpsDone' = OpsDone
    BY DEF OpsDone, CountedOps
  <1>6. FlightInv'
    BY <1>2, <1>3 DEF FlightInv
  <1>7. HitInv'
    BY <1>4, <1>5 DEF HitInv
  <1>8. ExecInv'
    BY <1>5 DEF ExecInv
  <1>9. WarmInv'
    BY DEF WarmInv
  <1> QED BY <1>6, <1>7, <1>8, <1>9

LEMMA StartWorkerIInv ==
  ASSUME IInv, NEW t \in Threads, StartWorker(t)
  PROVE  IInv'
  <1> USE DEF IInv, StartWorker
  <1>0. CASE total < ThreadCount
    <2>1. UNCHANGED <<config, workerVars, measVars, measureCancelled, main, sigVars, cancelled>>
          /\ exited' = TRUE
      BY <1>0 DEF workerVars
    <2>2. CallsInv' /\ FlightInv' /\ HitInv' /\ ExecInv' /\ ShareInv'
      BY <2>1, WorkersIdle DEF sigVars
    <2>3. TypeOK'
      BY <2>1 DEF TypeOK, config, workerVars, measVars, sigVars
    <2>4. QuietInv' /\ CancelInv' /\ WarmInv'
      BY <2>1 DEF QuietInv, CancelInv, WarmInv, AtOutput, config, workerVars, measVars, sigVars
    <2> QED BY <2>2, <2>3, <2>4
  <1>1. CASE ~(total < ThreadCount)
    <2> USE <1>1
    <2>1. Goto(t, "loop") /\ UNCHANGED exited
      OBVIOUS
    <2>2. FlightInv' /\ HitInv' /\ ExecInv' /\ WarmInv'
      BY <2>1, MoveCounts
    <2>3. QuietInv' /\ CancelInv'
      BY MainWaits
    <2> USE <2>1 DEF Goto, config, measVars, sigVars
    <2>4. TypeOK'
      BY DEF TypeOK
    <2>5. pc'[t] = "loop" /\ \A u \in Threads : u # t => pc'[u] = pc[u]
      BY DEF TypeOK
    <2>6. CallsInv'
      BY <2>5 DEF CallsInv
    <2>7. total >= ThreadCount
      BY ConfigTypes
    <2>8. ShareInv'
      BY <2>5, <2>7 DEF ShareInv, OpCount
    <2> QED BY <2>2, <2>3, <2>4, <2>6, <2>8
  <1> QED BY <1>0, <1>1

LEMMA BeginOperationIInv ==
  ASSUME IInv, NEW t \in Threads, BeginOperation(t)
  PROVE  IInv'
  <1> USE DEF IInv, BeginOperation
  <1>1. PICK n \in MinCalls .. MaxCalls :
          /\ calls' = [calls EXCEPT ![t] = n]
          /\ Goto(t, IF n = 0 THEN "returned" ELSE "call")
    OBVIOUS
  <1>2. n \in 0 .. MaxCalls /\ (n = 0 => mode.batchSize # 1)
    BY ConstantsAssumption DEF MinCalls
  <1> DEFINE p == IF n = 0 THEN "returned" ELSE "call"
  <1>3. p \in {"call", "returned"} /\ (p = "returned" => mode.batchSize # 1) /\ (p = "call" => n > 0)
    BY <1>2
  <1>4. Goto(t, p)
    BY <1>1
  <1> HIDE DEF p
  <1>5. FlightInv' /\ HitInv' /\ ExecInv' /\ WarmInv'
    BY <1>3, <1>4, MoveCounts
  <1>6. QuietInv' /\ CancelInv'
    BY MainWaits
  <1> USE DEF Goto, config, measVars, sigVars
  <1>7. pc' = [pc EXCEPT ![t] = p]
    BY <1>4
  <1>8. TypeOK'
    BY <1>1, <1>2, <1>3, <1>7 DEF TypeOK
  <1>9. /\ pc'[t] = p /\ calls'[t] = n
        /\ \A u \in Threads : u # t => pc'[u] = pc[u] /\ calls'[u] = calls[u]
    BY <1>1, <1>7 DEF TypeOK
  <1>10. CallsInv'
    BY <1>3, <1>9 DEF CallsInv
  <1>11. opsDone[t] < OpCount(t)
    <2>1. total >= ThreadCount
      BY DEF ShareInv
    <2>2. OpCount(t) > 0
      BY <2>1, ShareType
    <2> QED BY <2>2 DEF LoopTest
  <1>12. ShareInv'
    BY <1>3, <1>9, <1>11 DEF ShareInv, OpCount
  <1> QED BY <1>5, <1>6, <1>8, <1>10, <1>12

LEMMA EndLoopIInv ==
  ASSUME IInv, NEW t \in Threads, EndLoop(t)
  PROVE  IInv'
  <1> USE DEF IInv, EndLoop
  <1>1. FlightInv' /\ HitInv' /\ ExecInv' /\ WarmInv'
    BY MoveCounts
  <1>2. QuietInv' /\ CancelInv'
    BY MainWaits
  <1> USE DEF Goto, config, measVars, sigVars
  <1>3. TypeOK'
    BY DEF TypeOK
  <1>4. pc'[t] = "cleanup" /\ \A u \in Threads : u # t => pc'[u] = pc[u]
    BY DEF TypeOK
  <1>5. CallsInv'
    BY <1>4 DEF CallsInv
  <1>6. opsDone[t] >= OpCount(t)
    BY ShareType DEF LoopTest, TypeOK
  <1>7. ShareInv'
    BY <1>4, <1>6 DEF ShareInv, OpCount
  <1> QED BY <1>1, <1>2, <1>3, <1>5, <1>7

LEMMA PollDoneIInv ==
  ASSUME IInv, NEW t \in Threads, PollDone(t)
  PROVE  IInv'
  <1> USE DEF IInv, PollDone
  <1> DEFINE p == IF cancelled THEN "cleanup" ELSE "loop"
  <1>1. p \in {"cleanup", "loop"} /\ (p = "cleanup" => cancelled) /\ Goto(t, p)
    OBVIOUS
  <1> HIDE DEF p
  <1>2. FlightInv' /\ HitInv' /\ ExecInv' /\ WarmInv'
    BY <1>1, MoveCounts
  <1>3. QuietInv' /\ CancelInv' /\ (sig = "wait" => ~cancelled)
    BY MainWaits
  <1> USE DEF Goto, config, measVars, sigVars
  <1>4. pc' = [pc EXCEPT ![t] = p]
    BY <1>1
  <1>5. TypeOK'
    BY <1>1, <1>4 DEF TypeOK
  <1>6. pc'[t] = p /\ \A u \in Threads : u # t => pc'[u] = pc[u]
    BY <1>4 DEF TypeOK
  <1>7. CallsInv'
    BY <1>1, <1>6 DEF CallsInv
  <1>8. ShareInv'
    BY <1>1, <1>3, <1>6 DEF ShareInv, OpCount
  <1> QED BY <1>2, <1>3, <1>5, <1>7, <1>8

LEMMA EndWorkerIInv ==
  ASSUME IInv, NEW t \in Threads, EndWorker(t)
  PROVE  IInv'
  <1> USE DEF IInv, EndWorker
  <1>1. FlightInv' /\ HitInv' /\ ExecInv' /\ WarmInv'
    BY MoveCounts
  <1>2. QuietInv' /\ CancelInv'
    BY MainWaits
  <1> USE DEF Goto, config, measVars, sigVars
  <1>3. TypeOK'
    BY DEF TypeOK
  <1>4. pc'[t] = "done" /\ \A u \in Threads : u # t => pc'[u] = pc[u]
    BY DEF TypeOK
  <1>5. CallsInv'
    BY <1>4 DEF CallsInv
  <1>6. ShareInv'
    BY <1>4 DEF ShareInv, OpCount
  <1> QED BY <1>1, <1>2, <1>3, <1>5, <1>6

\* A Measure call: what Record does to the flags, and what it leaves alone.
LEMMA Recording ==
  ASSUME IInv, NEW t \in Threads, NEW kind \in {"ops", "errors", "total"},
         NEW p \in {"measureTotal", "returned", "call"},
         pc[t] \in {"call", "measureTotal"}, Record(t, kind), Goto(t, p),
         UNCHANGED <<config, opsDone, executed, hits, measVars>>
  PROVE  /\ pc' \in [Threads -> {"init", "loop", "call", "measureTotal", "returned",
                                 "poll", "cleanup", "done"}]
         /\ pc'[t] = p /\ \A u \in Threads : u # t => pc'[u] = pc[u]
         /\ hit' \in [Threads -> BOOLEAN]
         /\ hit'[t] = (hit[t] \/ ~warmUp) /\ \A u \in Threads : u # t => hit'[u] = hit[u]
         /\ count' \in [ops : Nat, errors : Nat, total : Nat]
         /\ warmUp => count' = count
         /\ ~warmUp => /\ count'.ops = count.ops + (IF kind = "ops" THEN 1 ELSE 0)
                       /\ count'.total = count.total + (IF kind = "total" THEN 1 ELSE 0)
         /\ WarmInv' /\ HitInv' /\ ExecInv'
  <1> USE DEF IInv, Record, Goto, config, measVars
  <1>1. /\ pc' \in [Threads -> {"init", "loop", "call", "measureTotal", "returned",
                                "poll", "cleanup", "done"}]
        /\ pc'[t] = p /\ \A u \in Threads : u # t => pc'[u] = pc[u]
    BY DEF TypeOK
  <1>2. hit \in [Threads -> BOOLEAN] /\ warmUp \in BOOLEAN
    BY DEF TypeOK
  <1>3. /\ hit' \in [Threads -> BOOLEAN]
        /\ hit'[t] = (hit[t] \/ ~warmUp) /\ \A u \in Threads : u # t => hit'[u] = hit[u]
    BY <1>2
  <1>4. count \in [ops : Nat, errors : Nat, total : Nat]
    BY DEF TypeOK
  <1>5. count' \in [ops : Nat, errors : Nat, total : Nat]
    BY <1>4
  <1>6. warmUp => count' = count
    OBVIOUS
  <1>7. ~warmUp => /\ count'.ops = count.ops + (IF kind = "ops" THEN 1 ELSE 0)
                   /\ count'.total = count.total + (IF kind = "total" THEN 1 ELSE 0)
    BY <1>4
  <1>8. WarmInv'
    <2>1. warmUp' = warmUp /\ mode' = mode /\ hits' = hits /\ opsDone' = opsDone
      OBVIOUS
    <2>2. CASE warmUp
      <3>1. \A u \in Threads : ~hit'[u]
        BY <2>2, <1>3 DEF WarmInv
      <3> QED BY <2>1, <2>2, <3>1, <1>6 DEF WarmInv
    <2>3. CASE ~warmUp
      BY <2>1, <2>3 DEF WarmInv
    <2> QED BY <2>2, <2>3
  <1>9. OpsDone' = OpsDone
    BY DEF OpsDone, CountedOps
  <1>10. ExecInv'
    BY <1>9 DEF ExecInv
  <1>11. HitInv'
    <2>1. CASE warmUp
      <3>1. OpsDone = 0 /\ hits = 0
        BY <2>1, NothingCounted DEF WarmInv
      <3>2. Cardinality(Unmeasured') \in Nat /\ Cardinality(Unmeasured') <= ThreadCount
        <4>1. Unmeasured' \in SUBSET Threads
          BY DEF Unmeasured
        <4> QED BY <4>1, ThreadSets
      <3> QED BY <1>9, <3>1, <3>2, ConfigTypes DEF HitInv
    <2>2. CASE ~warmUp
      <3>1. Unmeasured' = Unmeasured
        BY <1>1, <1>3, <2>2 DEF Unmeasured
      <3> QED BY <1>9, <3>1 DEF HitInv
    <2> QED BY <2>1, <2>2
  <1> QED BY <1>1, <1>3, <1>5, <1>6, <1>7, <1>8, <1>10, <1>11

\* The parts of a Measure step that do not depend on what was measured.
LEMMA MeasureRest ==
  ASSUME IInv, NEW t \in Threads, NEW p \in {"measureTotal", "returned", "call"},
         pc[t] \in {"call", "measureTotal"},
         pc'[t] = p, \A u \in Threads : u # t => pc'[u] = pc[u],
         UNCHANGED <<config, opsDone, sig>>
  PROVE  ShareInv'
  BY DEF IInv, ShareInv, OpCount, config

LEMMA MeasureOpIInv ==
  ASSUME IInv, NEW t \in Threads, MeasureOp(t)
  PROVE  IInv'
  <1> USE DEF IInv
  <1>0. /\ pc[t] = "call"
        /\ UNCHANGED <<config, opsDone, executed, hits, measVars,
                       measureCancelled, main, sigVars, cancelled, exited>>
    BY DEF MeasureOp
  <1>1. QuietInv' /\ CancelInv'
    BY <1>0, MainWaits
  <1>2. CASE Record(t, "ops") /\ Goto(t, "measureTotal") /\ UNCHANGED calls
    <2>1. /\ pc' \in [Threads -> {"init", "loop", "call", "measureTotal", "returned",
                                  "poll", "cleanup", "done"}]
          /\ pc'[t] = "measureTotal" /\ \A u \in Threads : u # t => pc'[u] = pc[u]
          /\ hit' \in [Threads -> BOOLEAN]
          /\ hit'[t] = (hit[t] \/ ~warmUp) /\ \A u \in Threads : u # t => hit'[u] = hit[u]
          /\ count' \in [ops : Nat, errors : Nat, total : Nat]
          /\ warmUp => count' = count
          /\ ~warmUp => count'.ops = count.ops + 1 /\ count'.total = count.total
          /\ WarmInv' /\ HitInv' /\ ExecInv'
      <3>1. count.total \in Nat
        BY DEF TypeOK
      <3> QED BY <1>0, <1>2, <3>1, Recording
    <2>2. ShareInv'
      BY <1>0, <2>1, MeasureRest DEF sigVars
    <2>3. TypeOK'
      BY <1>0, <1>2, <2>1 DEF TypeOK, config, measVars, sigVars
    <2>4. CallsInv'
      BY <1>0, <1>2, <2>1 DEF CallsInv
    <2>5. InFlight' = InFlight \cup {t} /\ t \notin InFlight
      BY <1>0, <2>1 DEF InFlight
    <2>6. Cardinality(InFlight') = Cardinality(InFlight) + 1
      <3>1. InFlight \in SUBSET Threads
        BY DEF InFlight
      <3> QED BY <2>5, <3>1, ThreadSetGrows
    <2>7. /\ Cardinality(InFlight) \in Nat /\ Cardinality(Recorded) \in Nat
          /\ Cardinality(InFlight') <= ThreadCount /\ Cardinality(Recorded') \in Nat
      <3>1. /\ InFlight \in SUBSET Threads /\ Recorded \in SUBSET Threads
            /\ InFlight' \in SUBSET Threads /\ Recorded' \in SUBSET Threads
        BY DEF InFlight, Recorded
      <3> QED BY <3>1, ThreadSets
    <2>8. count.ops \in Nat /\ count.total \in Nat /\ ThreadCount \in Nat /\ mode' = mode
      BY <1>0, ConstantsAssumption DEF TypeOK, config
    <2>9. FlightInv'
      <3>1. CASE warmUp
        <4>1. count'.ops = 0 /\ count'.total = 0 /\ mode.warmUp
          BY <3>1, <2>1 DEF WarmInv
        <4> QED BY <2>6, <2>7, <2>8, <4>1 DEF FlightInv
      <3>2. CASE ~warmUp
        <4>0. /\ hit'[t]
              /\ \A u \in InFlight : u \in Threads /\ u # t /\ hit'[u] = hit[u]
          BY <2>1, <2>5, <3>2 DEF InFlight
        <4>1. Recorded' = Recorded \cup {t} /\ t \notin Recorded
          BY <2>5, <4>0 DEF Recorded
        <4>2. Recorded \in SUBSET Threads
          BY DEF Recorded, InFlight
        <4>3. Cardinality(Recorded') = Cardinality(Recorded) + 1
          BY <4>1, <4>2, ThreadSetGrows
        <4> QED BY <2>1, <2>6, <2>7, <2>8, <3>2, <4>3 DEF FlightInv
      <3> QED BY <3>1, <3>2
    <2> QED BY <1>1, <2>1, <2>2, <2>3, <2>4, <2>9
  <1>3. CASE Record(t, "errors") /\ Goto(t, "returned") /\ calls' = [calls EXCEPT ![t] = 0]
    <2>1. /\ pc' \in [Threads -> {"init", "loop", "call", "measureTotal", "returned",
                                  "poll", "cleanup", "done"}]
          /\ pc'[t] = "returned" /\ \A u \in Threads : u # t => pc'[u] = pc[u]
          /\ hit' \in [Threads -> BOOLEAN]
          /\ \A u \in Threads : u # t => hit'[u] = hit[u]
          /\ count' \in [ops : Nat, errors : Nat, total : Nat]
          /\ count'.ops = count.ops /\ count'.total = count.total
          /\ WarmInv' /\ HitInv' /\ ExecInv'
      <3>1. count.total \in Nat /\ count.ops \in Nat
        BY DEF TypeOK
      <3> QED BY <1>0, <1>3, <3>1, Recording
    <2>2. ShareInv'
      BY <1>0, <2>1, MeasureRest DEF sigVars
    <2>3. TypeOK'
      <3>1. calls' \in [Threads -> 0 .. MaxCalls]
        BY <1>3, ConstantsAssumption DEF TypeOK
      <3> QED BY <1>0, <2>1, <3>1 DEF TypeOK, config, measVars, sigVars
    <2>4. CallsInv'
      BY <1>0, <1>3, <2>1 DEF CallsInv, TypeOK
    <2>5. InFlight' = InFlight
      BY <1>0, <2>1 DEF InFlight
    <2>6. Recorded' = Recorded
      BY <1>0, <2>1, <2>5 DEF Recorded, InFlight
    <2>7. FlightInv'
      BY <1>0, <2>1, <2>5, <2>6 DEF FlightInv, config
    <2> QED BY <1>1, <2>1, <2>2, <2>3, <2>4, <2>7
  <1> QED BY <1>2, <1>3 DEF MeasureOp

LEMMA MeasureTotalIInv ==
  ASSUME IInv, NEW t \in Threads, MeasureTotal(t)
  PROVE  IInv'
  <1> USE DEF IInv
  <1> DEFINE p == IF calls[t] = 1 THEN "returned" ELSE "call"
  <1>0. /\ pc[t] = "measureTotal"
        /\ Record(t, "total") /\ Goto(t, p)
        /\ calls' = [calls EXCEPT ![t] = @ - 1]
        /\ UNCHANGED <<config, opsDone, executed, hits, measVars,
                       measureCancelled, main, sigVars, cancelled, exited>>
    BY DEF MeasureTotal
  <1>1. p \in {"returned", "call"} /\ (p = "call" => calls[t] # 1)
    OBVIOUS
  <1> HIDE DEF p
  <1>2. QuietInv' /\ CancelInv'
    BY <1>0, MainWaits
  <1>3. /\ pc' \in [Threads -> {"init", "loop", "call", "measureTotal", "returned",
                                "poll", "cleanup", "done"}]
        /\ pc'[t] = p /\ \A u \in Threads : u # t => pc'[u] = pc[u]
        /\ hit' \in [Threads -> BOOLEAN]
        /\ \A u \in Threads : u # t => hit'[u] = hit[u]
        /\ count' \in [ops : Nat, errors : Nat, total : Nat]
        /\ warmUp => count' = count
        /\ ~warmUp => count'.ops = count.ops /\ count'.total = count.total + 1
        /\ WarmInv' /\ HitInv' /\ ExecInv'
    <2>1. count.ops \in Nat
      BY DEF TypeOK
    <2> QED BY <1>0, <1>1, <2>1, Recording
  <1>4. ShareInv'
    BY <1>0, <1>1, <1>3, MeasureRest DEF sigVars
  <1>5. calls[t] \in 1 .. MaxCalls
    BY <1>0 DEF CallsInv, TypeOK
  <1>6. calls' \in [Threads -> 0 .. MaxCalls] /\ calls'[t] = calls[t] - 1
        /\ \A u \in Threads : u # t => calls'[u] = calls[u]
    BY <1>0, <1>5, ConstantsAssumption DEF TypeOK
  <1>7. TypeOK'
    BY <1>0, <1>3, <1>6 DEF TypeOK, config, measVars, sigVars
  <1>8. CallsInv'
    BY <1>1, <1>3, <1>5, <1>6, ConstantsAssumption DEF CallsInv
  <1>9. InFlight' = InFlight \ {t} /\ t \in InFlight
    BY <1>0, <1>1, <1>3 DEF InFlight
  <1>10. Recorded' = Recorded \ {t}
    BY <1>3, <1>9 DEF Recorded, InFlight
  <1>11. /\ InFlight \in SUBSET Threads /\ Recorded \in SUBSET Threads
         /\ InFlight' \in SUBSET Threads /\ Recorded' \in SUBSET Threads
    BY DEF InFlight, Recorded
  <1>12. /\ Cardinality(InFlight) \in Nat /\ Cardinality(Recorded) \in Nat
         /\ Cardinality(InFlight') <= ThreadCount /\ Cardinality(Recorded') \in Nat
    BY <1>11, ThreadSets
  <1>13. Cardinality(InFlight') = Cardinality(InFlight) - 1
    BY <1>9, <1>11, ThreadSetShrinks
  <1>14. Cardinality(Recorded) <= Cardinality(Recorded') + 1
    <2>1. CASE t \in Recorded
      BY <1>10, <1>11, <1>12, <2>1, ThreadSetShrinks
    <2>2. CASE t \notin Recorded
      <3>1. Recorded' = Recorded
        BY <1>10, <2>2
      <3> QED BY <1>12, <3>1
    <2> QED BY <2>1, <2>2
  <1>15. count.ops \in Nat /\ count.total \in Nat /\ ThreadCount \in Nat /\ mode' = mode
    BY <1>0, ConstantsAssumption DEF TypeOK, config
  <1>16. FlightInv'
    <2>1. CASE warmUp
      <3>1. count'.ops = 0 /\ count'.total = 0 /\ mode.warmUp
        BY <1>3, <2>1 DEF WarmInv
      <3> QED BY <1>12, <1>13, <1>15, <3>1 DEF FlightInv
    <2>2. CASE ~warmUp
      BY <1>3, <1>12, <1>13, <1>14, <1>15, <2>2 DEF FlightInv
    <2> QED BY <2>1, <2>2
  <1> QED BY <1>2, <1>3, <1>4, <1>7, <1>8, <1>16

LEMMA CountOperationIInv ==
  ASSUME IInv, NEW t \in Threads, CountOperation(t)
  PROVE  IInv'
  <1> USE DEF IInv
  <1> DEFINE b == mode.batchSize
  <1>0. /\ pc[t] = "returned"
        /\ executed' = IF executed < Saturation THEN executed + 1 ELSE executed
        /\ hits' = hits + (IF hit[t] THEN 1 ELSE 0)
        /\ hit' = [hit EXCEPT ![t] = FALSE]
        /\ opsDone' = IF warmUp THEN opsDone ELSE [opsDone EXCEPT ![t] = @ + b]
        /\ pc' = [pc EXCEPT ![t] = "poll"]
        /\ UNCHANGED <<config, calls, count, measVars, measureCancelled, main, sigVars,
                       cancelled, exited>>
    BY DEF CountOperation, Goto
  <1>1. QuietInv' /\ CancelInv'
    BY <1>0, MainWaits
  <1>2. pc'[t] = "poll" /\ \A u \in Threads : u # t => pc'[u] = pc[u]
    BY <1>0 DEF TypeOK
  <1>3. ~hit'[t] /\ \A u \in Threads : u # t => hit'[u] = hit[u]
    BY <1>0 DEF TypeOK
  <1>4. b \in Nat \ {0} /\ hits \in Nat /\ executed \in 0 .. Saturation /\ ThreadCount \in Nat
        /\ opsDone[t] \in Nat /\ Saturation \in Nat
    BY ConfigTypes, ConstantsAssumption DEF TypeOK
  <1>5. /\ UNCHANGED mode /\ UNCHANGED total /\ UNCHANGED warmUp /\ UNCHANGED count
        /\ UNCHANGED sig /\ UNCHANGED calls
    BY <1>0 DEF config, measVars, sigVars
  <1>6. TypeOK'
    <2>1. hit' \in [Threads -> BOOLEAN]
      BY <1>0 DEF TypeOK
    <2>2. hits' \in Nat
      BY <1>0, <1>4
    <2>3. executed' \in 0 .. Saturation
      BY <1>0, <1>4
    <2>4. opsDone' \in [Threads -> Nat]
      <3>1. opsDone \in [Threads -> Nat]
        BY DEF TypeOK
      <3> HIDE DEF b
      <3> QED BY <1>0, <1>4, <3>1
    <2>5. pc' \in [Threads -> {"init", "loop", "call", "measureTotal", "returned",
                               "poll", "cleanup", "done"}]
      BY <1>0 DEF TypeOK
    <2> QED BY <1>0, <2>1, <2>2, <2>3, <2>4, <2>5 DEF TypeOK, config, measVars, sigVars
  <1>7. CallsInv'
    BY <1>2, <1>5 DEF CallsInv
  <1>8. WarmInv'
    <2>1. CASE warmUp
      <3>1. opsDone' = opsDone /\ hits' = 0
        BY <1>0, <2>1 DEF WarmInv
      <3>2. \A u \in Threads : ~hit'[u]
        BY <1>3, <2>1 DEF WarmInv
      <3> QED BY <1>5, <2>1, <3>1, <3>2 DEF WarmInv
    <2>2. CASE ~warmUp
      BY <1>5, <2>2 DEF WarmInv
    <2> QED BY <2>1, <2>2
  <1>9. FlightInv'
    <2>1. InFlight' = InFlight
      BY <1>0, <1>2 DEF InFlight
    <2>2. \A u \in InFlight : hit'[u] = hit[u]
      BY <1>0, <1>3 DEF InFlight
    <2>3. Recorded' = Recorded
      BY <2>1, <2>2 DEF Recorded
    <2> QED BY <1>5, <2>1, <2>3 DEF FlightInv
  <1>10. ShareInv'
    <2>1. opsDone'[t] <= OpCount(t) + b - 1 /\ \A u \in Threads : u # t => opsDone'[u] = opsDone[u]
      <3>1. opsDone \in [Threads -> Nat]
        BY DEF TypeOK
      <3>2. opsDone[t] < OpCount(t) /\ OpCount(t) \in Nat
        BY <1>0, ShareType DEF ShareInv
      <3> HIDE DEF b
      <3> QED BY <1>0, <1>4, <3>1, <3>2
    <2>2. total >= ThreadCount
      BY <1>0 DEF ShareInv
    <2> QED BY <1>2, <1>5, <2>1, <2>2 DEF ShareInv, OpCount
  <1>11. OpsDone \in Nat /\ OpsDone' = IF warmUp THEN OpsDone ELSE OpsDone + b
    <2>1. CASE warmUp
      BY <1>0, <2>1, CountedFinite DEF OpsDone, CountedOps
    <2>2. CASE ~warmUp
      BY <1>0, <2>2, CountedFinite, OneMoreCounted
    <2> QED BY <2>1, <2>2
  <1>12. ExecInv'
    <2> SUFFICES ASSUME executed' < Saturation
                 PROVE  /\ OpsDone' <= executed' * b
                        /\ ~mode.warmUp => OpsDone' = executed' * b
      BY <1>5 DEF ExecInv
    <2>1. executed < Saturation /\ executed' = executed + 1
      BY <1>0, <1>4
    <2>2. executed * b \in Nat /\ executed' * b = executed * b + b
      <3>1. executed \in Nat /\ b \in Nat
        BY <1>4
      <3> HIDE DEF b
      <3> QED BY <2>1, <3>1, Times
    <2>3. OpsDone <= executed * b /\ (~mode.warmUp => OpsDone = executed * b)
      BY <2>1 DEF ExecInv
    <2>4. ~mode.warmUp => ~warmUp
      BY DEF WarmInv
    <2> HIDE DEF b
    <2> QED BY <1>4, <1>11, <2>2, <2>3, <2>4
  <1>13. HitInv'
    <2>1. Unmeasured \in SUBSET Threads /\ Unmeasured' \in SUBSET Threads
      BY DEF Unmeasured
    <2>2. /\ Cardinality(Unmeasured) \in Nat /\ Cardinality(Unmeasured') \in Nat
          /\ Cardinality(Unmeasured') <= ThreadCount
      BY <2>1, ThreadSets
    <2>3. Unmeasured' = Unmeasured \ {t}
      BY <1>0, <1>2, <1>3 DEF Unmeasured
    <2>4. hits * b \in Nat /\ (hits + 1) * b = hits * b + b
      <3>1. hits \in Nat /\ b \in Nat
        BY <1>4
      <3> HIDE DEF b
      <3> QED BY <3>1, Times
    <2>5. hits * b <= OpsDone /\ (b = 1 => OpsDone + Cardinality(Unmeasured) <= hits + ThreadCount)
      BY DEF HitInv
    <2>6. hits' * b <= OpsDone' /\ (b = 1 => OpsDone' + Cardinality(Unmeasured') <= hits' + ThreadCount)
      <3>1. CASE warmUp
        <4>1. hits' = 0 /\ OpsDone' = 0
          BY <1>0, <1>11, <3>1, NothingCounted DEF WarmInv
        <4> HIDE DEF b
        <4> QED BY <1>4, <2>2, <4>1
      <3>2. CASE ~warmUp /\ hit[t]
        <4>1. hits' = hits + 1 /\ OpsDone' = OpsDone + b
          BY <1>0, <1>11, <3>2
        <4>2. Unmeasured' = Unmeasured
          BY <2>3, <3>2 DEF Unmeasured
        <4> HIDE DEF b
        <4> QED BY <1>4, <1>11, <2>2, <2>4, <2>5, <4>1, <4>2
      <3>3. CASE ~warmUp /\ ~hit[t]
        <4>1. hits' = hits /\ OpsDone' = OpsDone + b
          BY <1>0, <1>4, <1>11, <3>3
        <4>2. t \in Unmeasured
          BY <1>0, <3>3 DEF Unmeasured
        <4>3. Cardinality(Unmeasured') = Cardinality(Unmeasured) - 1
          BY <2>1, <2>3, <4>2, ThreadSetShrinks
        <4> HIDE DEF b
        <4> QED BY <1>4, <1>11, <2>2, <2>4, <2>5, <4>1, <4>3
      <3> QED BY <3>1, <3>2, <3>3
    <2> QED BY <1>5, <2>6 DEF HitInv
  <1> QED BY <1>1, <1>6, <1>7, <1>8, <1>9, <1>10, <1>12, <1>13
-----------------------------------------------------------------------------
\* Every step of the client keeps the inductive invariant.
LEMMA NextIInv == IInv /\ [Next]_vars => IInv'
  <1> SUFFICES ASSUME IInv, [Next]_vars PROVE IInv'
    OBVIOUS
  <1>1. ASSUME NEW t \in Threads, WorkerStep(t) PROVE IInv'
    BY <1>1, StartWorkerIInv, BeginOperationIInv, EndLoopIInv, MeasureOpIInv, MeasureTotalIInv,
       CountOperationIInv, PollDoneIInv, EndWorkerIInv DEF WorkerStep
  <1>2. CASE UNCHANGED vars
    <2>1. UNCHANGED <<config, workerVars, measVars, measureCancelled, main, sigVars, cancelled, exited>>
      BY <1>2 DEF vars
    <2>2. CallsInv' /\ FlightInv' /\ HitInv' /\ ExecInv' /\ ShareInv'
      BY <2>1, WorkersIdle DEF sigVars
    <2>3. TypeOK'
      BY <2>1 DEF IInv, TypeOK, config, workerVars, measVars, sigVars
    <2>4. QuietInv' /\ CancelInv' /\ WarmInv'
      BY <2>1 DEF IInv, QuietInv, CancelInv, WarmInv, AtOutput, config, workerVars, measVars, sigVars
    <2> QED BY <2>2, <2>3, <2>4 DEF IInv
  <1> QED BY <1>1, <1>2, MeasStepIInv, MainStepIInv, SignalIInv DEF Next

\* Every state of every behaviour satisfies the inductive invariant.
LEMMA SpecIInv == Spec => []IInv
  BY InitIInv, NextIInv, PTL DEF Spec

\* When main prints the measurements and closes the database, no worker can measure
\* or use the database any more and the measurement goroutine is gone.
THEOREM QuietOutputHolds == Spec => []QuietOutput
  <1>1. IInv => QuietOutput
    BY DEF IInv, QuietInv, QuietOutput, AtOutput
  <1> QED BY <1>1, SpecIInv, PTL

\* The TOTAL line and the lines of the operations differ by the calls in flight when
\* the warm-up ended, at most one per worker.
THEOREM TotalAgreesHolds == Spec => []TotalAgrees
  <1>1. IInv => TotalAgrees
    <2> SUFFICES ASSUME IInv PROVE TotalAgrees
      OBVIOUS
    <2>1. InFlight \in SUBSET Threads
      BY DEF InFlight
    <2>2. Cardinality(InFlight) \in Nat
      BY <2>1, ThreadSets
    <2>3. count.ops \in Nat /\ count.total \in Nat /\ ThreadCount \in Nat
      BY ConstantsAssumption DEF IInv, TypeOK
    <2>4. count.total <= count.ops + ThreadCount
      BY <2>2, <2>3 DEF IInv, FlightInv
    <2>5. ASSUME AtOutput
          PROVE  count.ops <= count.total /\ (~mode.warmUp => count.ops = count.total)
      <3>1. InFlight = {} /\ Recorded = {}
        BY <2>5 DEF IInv, QuietInv, AtOutput, InFlight, Recorded
      <3> QED BY <2>3, <3>1, FS_EmptySet DEF IInv, FlightInv
    <2> QED BY <2>4, <2>5 DEF IInv, TotalAgrees
  <1> QED BY <1>1, SpecIInv, PTL

\* Every measured operation counts towards operationcount, and at most one operation
\* of each worker counts without having been measured.
THEOREM MeasuredIsCountedHolds == Spec => []MeasuredIsCounted
  <1>1. IInv => MeasuredIsCounted
    <2> SUFFICES ASSUME IInv PROVE MeasuredIsCounted
      OBVIOUS
    <2>1. Unmeasured \in SUBSET Threads
      BY DEF Unmeasured
    <2>2. Cardinality(Unmeasured) \in Nat
      BY <2>1, ThreadSets
    <2>3. OpsDone \in Nat /\ hits \in Nat /\ ThreadCount \in Nat
      BY CountedFinite, ConstantsAssumption DEF IInv, TypeOK
    <2>4. hits * mode.batchSize <= OpsDone
      BY DEF IInv, HitInv
    <2>5. mode.batchSize = 1 => OpsDone <= hits + ThreadCount
      BY <2>2, <2>3 DEF IInv, HitInv
    <2> QED BY <2>4, <2>5 DEF MeasuredIsCounted
  <1> QED BY <1>1, SpecIInv, PTL

\* A run without a signal executes all of operationcount; without a warm-up it executes
\* no more, but for the last batch of each worker.
THEOREM AllExecutedHolds == Spec => []AllExecuted
  <1>1. IInv => AllExecuted
    <2> SUFFICES ASSUME IInv, AtOutput, Uninterrupted, executed < Saturation
                 PROVE  /\ executed * mode.batchSize >= total
                        /\ ~mode.warmUp => executed * mode.batchSize
                                            <= total + ThreadCount * (mode.batchSize - 1)
      BY DEF AllExecuted
    <2> USE DEF IInv
    <2>1. \A t \in Threads : opsDone[t] >= OpCount(t)
      BY DEF QuietInv, ShareInv, AtOutput, Uninterrupted
    <2>2. OpsDone >= total
      BY <2>1, SharesDone
    <2>3. OpsDone <= total + ThreadCount * (mode.batchSize - 1)
      BY SharesBound
    <2>4. OpsDone <= executed * mode.batchSize /\ (~mode.warmUp => OpsDone = executed * mode.batchSize)
      BY DEF ExecInv
    <2>5. executed \in Nat /\ mode.batchSize \in Nat /\ total \in Nat /\ OpsDone \in Nat
      BY ConfigTypes, CountedFinite, ConstantsAssumption DEF TypeOK
    <2>6. executed * mode.batchSize \in Nat
      BY <2>5, Times
    <2>7. executed * mode.batchSize >= total
      BY <2>2, <2>4, <2>5, <2>6
    <2> QED BY <2>3, <2>4, <2>7
  <1> QED BY <1>1, SpecIInv, PTL
-----------------------------------------------------------------------------
\* The gc command: the value log files, and what RunValueLogGC returns.
Files == [live : Nat, dead : Nat]
Errors == {"nil", "failed", "no cleanup"}

\* The files that reach the ratio, without the newest.
Reaching(fs) == {i \in 1 .. Len(fs) - 1 : Garbage(fs[i])}

\* The rounds recorded that ended with e.
Ended(e) == {i \in DOMAIN results : results[i] = e}

\* The types of the variables.
GCTypes ==
  /\ gcCount \in Nat \ {0}
  /\ discardRatio \in 1 .. 99
  /\ vlog \in Seq(Files) /\ vlog # <<>>
  /\ origin \in Seq(Files)
  /\ writeBytes \in Nat /\ inRounds \in Nat /\ totalPhysWrite \in Nat
  /\ spaceReclaimed \in Int
  /\ point \in {"snapshot", "sample", "gc", "record", "summary", "done"}
  /\ pre \in Nat \cup {-1} /\ post \in Nat \cup {-1}
  /\ before \in [phys : Nat \cup {-1}, dir : Nat \cup {-1}]
  /\ err \in Errors
  /\ results \in Seq(Errors)
  /\ missedWrites \in BOOLEAN /\ missedFiles \in BOOLEAN

\* The round's number follows the records, and the last round is the last of gcCount.
RoundInv ==
  /\ point = "snapshot" => round = 0 /\ results = <<>> /\ ~missedWrites /\ ~missedFiles
  /\ point \in {"sample", "gc", "record"} => round = Len(results) + 1 /\ round <= gcCount
  /\ point \in {"summary", "done"} => round = Len(results) /\ round = gcCount

\* Between the samples of a round the total is behind by what was written since.
WriteInv ==
  /\ totalPhysWrite <= inRounds
  /\ point \in {"snapshot", "sample", "summary", "done"} /\ ~missedWrites =>
       totalPhysWrite = inRounds
  /\ point \in {"gc", "record"} =>
       /\ before.phys >= 0 =>
            /\ totalPhysWrite + writeBytes - inRounds <= before.phys
            /\ before.phys <= writeBytes
       /\ ~missedWrites =>
            /\ before.phys >= 0
            /\ totalPhysWrite + writeBytes - inRounds = before.phys

\* The space reclaimed so far is what the directory lost since the first snapshot.
SpaceInv ==
  ~missedFiles =>
    /\ point = "snapshot" => spaceReclaimed = 0
    /\ point # "snapshot" => pre >= 0
    /\ point \in {"sample", "summary"} => spaceReclaimed = pre - AllUsed(vlog)
    /\ point \in {"gc", "record"} => before.dir >= 0 /\ spaceReclaimed = pre - before.dir
    /\ point = "done" => spaceReclaimed = pre - post

\* The file that the round at hand has collected and not yet recorded.
Unrecorded == IF point = "record" /\ err = "nil" THEN 1 ELSE 0

\* Each round that ended well has taken one file off those that reach the ratio, and a
\* round that found none has left none to find.
CollectInv ==
  /\ Cardinality(Reaching(vlog)) + Cardinality(Ended("nil")) + Unrecorded
       = Cardinality(Reaching(origin))
  /\ Ended("no cleanup") # {} => Reaching(vlog) = {}
  /\ point = "record" /\ err = "no cleanup" => Reaching(vlog) = {}

GCInv == GCTypes /\ RoundInv /\ WriteInv /\ SpaceInv /\ CollectInv
-----------------------------------------------------------------------------
\* A file has a number of blocks.
LEMMA SizeType == \A f \in Files : Size(f) \in Nat
  BY DEF Files, Size

\* The disk use is a number of blocks.
LEMMA UsedType ==
  ASSUME NEW fs \in Seq(Files), NEW D \in SUBSET DOMAIN fs
  PROVE  Used(fs, D) \in Nat
<1> DEFINE Columns == {{i} \X (1 .. Size(fs[i])) : i \in D}
           f == [i \in D |-> {i} \X (1 .. Size(fs[i]))]
<1>1. DOMAIN fs = 1 .. Len(fs) /\ Len(fs) \in Nat
  OBVIOUS
<1>2. IsFiniteSet(D)
  <2>1. IsFiniteSet(DOMAIN fs)
    BY <1>1, FS_Interval
  <2> QED BY <2>1, FS_Subset
<1>3. f \in Surjection(D, Columns)
  BY DEF Surjection
<1>4. IsFiniteSet(Columns)
  <2> HIDE DEF Columns, f
  <2> QED BY <1>2, <1>3, FS_Surjection
<1>5. ASSUME NEW T \in Columns PROVE IsFiniteSet(T)
  <2>1. PICK i \in D : T = {i} \X (1 .. Size(fs[i]))
    OBVIOUS
  <2>2. 1 \in Int /\ Size(fs[i]) \in Int
    BY <2>1, SizeType
  <2>3. IsFiniteSet(1 .. Size(fs[i]))
    BY <2>2, FS_Interval
  <2>4. IsFiniteSet({i})
    BY FS_Singleton
  <2> QED BY <2>1, <2>3, <2>4, FS_Product
<1>6. IsFiniteSet(UNION Columns)
  <2> HIDE DEF Columns
  <2> QED BY <1>4, <1>5, FS_UNION
<1> QED BY <1>6, FS_CardinalityType DEF Used

\* A sample of the directory is a number of blocks, or failed.
LEMMA VlogSize ==
  ASSUME vlog \in Seq(Files)
  PROVE  AllUsed(vlog) \in Nat /\ totalVlogSize \subseteq Nat \cup {-1}
<1>1. \A S \in SUBSET DOMAIN vlog : Used(vlog, S) \in Nat
  BY UsedType
<1> QED BY <1>1 DEF AllUsed, totalVlogSize

\* Finitely many files reach the ratio.
LEMMA ReachingFinite ==
  ASSUME NEW fs \in Seq(Files)
  PROVE  IsFiniteSet(Reaching(fs)) /\ Cardinality(Reaching(fs)) \in Nat
<1>1. 1 \in Int /\ Len(fs) - 1 \in Int
  OBVIOUS
<1>2. IsFiniteSet(1 .. Len(fs) - 1)
  BY <1>1, FS_Interval
<1>3. IsFiniteSet(Reaching(fs))
  BY <1>2, FS_Subset DEF Reaching
<1> QED BY <1>3, FS_CardinalityType

\* Finitely many rounds are recorded under an error.
LEMMA EndedFinite ==
  ASSUME results \in Seq(Errors), NEW e
  PROVE  /\ IsFiniteSet(Ended(e)) /\ Cardinality(Ended(e)) \in Nat
<1>1. DOMAIN results = 1 .. Len(results) /\ Len(results) \in Int
  OBVIOUS
<1>2. IsFiniteSet(DOMAIN results)
  BY <1>1, FS_Interval
<1>3. IsFiniteSet(Ended(e))
  BY <1>2, FS_Subset DEF Ended
<1> QED BY <1>3, FS_CardinalityType

\* A collected file makes the others move up: one place less reaches the ratio.
LEMMA CollectedOne ==
  ASSUME NEW fs \in Seq(Files), NEW i \in Reaching(fs), NEW new \in Seq(Files),
         Len(new) = Len(fs) - 1,
         \A j \in 1 .. Len(new) - 1 : new[j] = IF j < i THEN fs[j] ELSE fs[j + 1]
  PROVE  Cardinality(Reaching(new)) = Cardinality(Reaching(fs)) - 1
<1> DEFINE S == Reaching(new)
           T == Reaching(fs) \ {i}
           f == [j \in S |-> IF j < i THEN j ELSE j + 1]
<1>1. i \in 1 .. Len(fs) - 1 /\ Len(fs) \in Nat /\ Len(new) \in Nat
  BY DEF Reaching
<1>2. \A j \in S : j \in 1 .. Len(new) - 1 /\ Garbage(new[j])
  BY DEF Reaching
<1>3. ASSUME NEW j \in S PROVE f[j] \in T
  <2>1. CASE j < i
    BY <1>1, <1>2, <2>1 DEF Reaching
  <2>2. CASE ~(j < i)
    BY <1>1, <1>2, <2>2 DEF Reaching
  <2> QED BY <2>1, <2>2
<1>4. ASSUME NEW k \in T PROVE \E j \in S : f[j] = k
  <2>1. k \in 1 .. Len(fs) - 1 /\ k # i /\ Garbage(fs[k])
    BY DEF Reaching
  <2>2. CASE k < i
    <3>1. k \in 1 .. Len(new) - 1
      BY <1>1, <2>1, <2>2
    <3>2. k \in S
      BY <2>1, <2>2, <3>1 DEF Reaching
    <3> QED BY <2>2, <3>2
  <2>3. CASE ~(k < i)
    <3>1. k - 1 \in 1 .. Len(new) - 1 /\ ~(k - 1 < i) /\ (k - 1) + 1 = k
      BY <1>1, <2>1, <2>3
    <3>2. new[k - 1] = fs[k]
      BY <3>1
    <3>3. k - 1 \in S
      BY <2>1, <3>1, <3>2 DEF Reaching
    <3>4. f[k - 1] = k
      BY <3>1, <3>3
    <3> QED BY <3>3, <3>4
  <2> QED BY <2>2, <2>3
<1>5. \A j, k \in S : f[j] = f[k] => j = k
  BY <1>1, <1>2
<1>6. f \in [S -> T]
  BY <1>3
<1>7. f \in Bijection(S, T)
  <2> HIDE DEF f, S, T
  <2>1. f \in Injection(S, T)
    BY <1>5, <1>6 DEF Injection, IsInjective
  <2>2. f \in Surjection(S, T)
    BY <1>4, <1>6 DEF Surjection
  <2> QED BY <2>1, <2>2 DEF Bijection
<1>8. IsFiniteSet(S) /\ ExistsBijection(S, T)
  BY <1>7, ReachingFinite DEF ExistsBijection
<1>9. Cardinality(T) = Cardinality(S)
  <2> HIDE DEF S, T
  <2> QED BY <1>8, FS_Bijection
<1>10. Cardinality(T) = Cardinality(Reaching(fs)) - 1
  BY ReachingFinite, FS_RemoveElement
<1> QED BY <1>9, <1>10

-----------------------------------------------------------------------------
\* The files that reach a ratio depend on the ratio alone.
LEMMA SameReaching ==
  discardRatio' = discardRatio => \A fs : Reaching(fs)' = Reaching(fs)
  BY DEF Reaching, Garbage

\* A step outside the rounds collects nothing.
LEMMA SameCollected ==
  ASSUME CollectInv, UNCHANGED <<params, vlog, results>>, point # "record", point' # "record"
  PROVE  CollectInv'
<1>1. Reaching(vlog)' = Reaching(vlog) /\ Reaching(origin)' = Reaching(origin)
  BY SameReaching DEF params
<1>2. \A e : Ended(e)' = Ended(e)
  BY DEF Ended
<1>3. Unrecorded = 0 /\ Unrecorded' = 0
  BY DEF Unrecorded
<1> QED BY <1>1, <1>2, <1>3 DEF CollectInv

\* The command starts with nothing collected and nothing written.
LEMMA GCInitInv == GCInit => GCInv
<1> SUFFICES ASSUME GCInit PROVE GCInv
  OBVIOUS
<1> USE GCAssumption
<1>1. PICK n \in Counts : gcCount = GCRounds(n)
  BY DEF GCInit
<1>2. gcCount \in Nat \ {0}
  BY <1>1 DEF GCRounds
<1>3. PICK q \in Ratios : discardRatio = Threshold(q)
  BY DEF GCInit
<1>4. discardRatio \in 1 .. 99
  <2>1. q \in Int
    BY <1>3
  <2> QED BY <1>3, <2>1 DEF Threshold
<1>5. PICK fs \in LogFiles : vlog = Append(fs, [live |-> 0, dead |-> 0])
  BY DEF GCInit
<1>6. vlog \in Seq(Files) /\ vlog # <<>>
  <2>1. fs \in Seq(Files) /\ [live |-> 0, dead |-> 0] \in Files
    BY DEF Files
  <2> QED BY <1>5, <2>1
<1>7. missedWrites \in BOOLEAN /\ missedFiles \in BOOLEAN
  BY Zenon DEF GCInit
<1>8. GCTypes
  BY <1>2, <1>4, <1>6, <1>7 DEF GCInit, GCTypes, Errors
<1>9. RoundInv /\ WriteInv /\ SpaceInv
  BY <1>2 DEF GCInit, RoundInv, WriteInv, SpaceInv
<1>10. CollectInv
  <2>1. \A e : Ended(e) = {}
    BY DEF GCInit, Ended
  <2>2. Cardinality(Ended("nil")) = 0
    BY <2>1, FS_EmptySet
  <2>3. origin = vlog /\ point = "snapshot" /\ Cardinality(Reaching(vlog)) \in Nat
    BY <1>6, ReachingFinite DEF GCInit
  <2>4. Unrecorded = 0
    BY <2>3 DEF Unrecorded
  <2>5. Cardinality(Reaching(vlog)) + 0 + 0 = Cardinality(Reaching(vlog))
    BY <2>3
  <2>6. Cardinality(Reaching(vlog)) + Cardinality(Ended("nil")) + Unrecorded
          = Cardinality(Reaching(origin))
    BY <2>2, <2>3, <2>4, <2>5
  <2> QED BY <2>1, <2>3, <2>6 DEF CollectInv
<1> QED BY <1>8, <1>9, <1>10 DEF GCInv

\* The snapshot before the rounds is the disk use, or a missed sample.
LEMMA SnapshotInv == GCInv /\ Snapshot => GCInv'
<1> SUFFICES ASSUME GCInv, Snapshot PROVE GCInv'
  OBVIOUS
<1> USE DEF Snapshot, params, disk, totals
<1>1. PICK d \in totalVlogSize : pre' = d /\ missedFiles' = (d # AllUsed(vlog))
  OBVIOUS
<1>2. AllUsed(vlog) \in Nat /\ d \in Nat \cup {-1}
  BY <1>1, VlogSize DEF GCInv, GCTypes
<1>3. missedFiles' \in BOOLEAN /\ (~missedFiles' => d = AllUsed(vlog))
  BY <1>1, Zenon
<1>4. GCTypes'
  BY <1>1, <1>2, <1>3 DEF GCInv, GCTypes
<1>5. RoundInv'
  BY DEF GCInv, GCTypes, RoundInv
<1>6. WriteInv'
  <2>1. totalPhysWrite <= inRounds /\ totalPhysWrite = inRounds
    BY DEF GCInv, RoundInv, WriteInv
  <2> QED BY <2>1 DEF WriteInv
<1>7. SpaceInv'
  <2>1. spaceReclaimed = 0
    BY DEF GCInv, RoundInv, SpaceInv
  <2>2. ~missedFiles' => pre' \in Nat /\ pre' = AllUsed(vlog)
    BY <1>1, <1>2, <1>3
  <2>3. ~missedFiles' => spaceReclaimed' = pre' - AllUsed(vlog)'
    BY <2>1, <2>2
  <2> QED BY <2>2, <2>3 DEF SpaceInv
<1>8. CollectInv'
  BY SameCollected DEF GCInv
<1> QED BY <1>4, <1>5, <1>6, <1>7, <1>8 DEF GCInv

\* The samples before a round are what the totals are to be compared with.
LEMMA SampleBeforeInv == GCInv /\ SampleBefore => GCInv'
<1> SUFFICES ASSUME GCInv, SampleBefore PROVE GCInv'
  OBVIOUS
<1> USE DEF SampleBefore, params, disk, totals
<1>1. PICK p \in readWriteBytes, d \in totalVlogSize :
        /\ before' = [phys |-> p, dir |-> d]
        /\ missedWrites' = (missedWrites \/ p < 0)
        /\ missedFiles' = (missedFiles \/ d # AllUsed(vlog))
  OBVIOUS
<1>2. /\ AllUsed(vlog) \in Nat /\ d \in Nat \cup {-1}
      /\ writeBytes \in Nat /\ p \in {writeBytes, -1}
  BY <1>1, VlogSize DEF GCInv, GCTypes, readWriteBytes
<1>3. p < 0 \/ p >= 0
  BY <1>2
<1>4. missedWrites' \in BOOLEAN /\ missedFiles' \in BOOLEAN
  BY <1>1, Zenon
<1>5. before'.phys = p /\ before'.dir = d
  BY <1>1
<1>6. ~missedWrites' => ~missedWrites /\ p >= 0
  BY <1>1, <1>3, Zenon
<1>7. ~missedFiles' => ~missedFiles /\ d = AllUsed(vlog)
  BY <1>1, Zenon
<1>8. GCTypes'
  BY <1>1, <1>2, <1>4 DEF GCInv, GCTypes
<1>9. RoundInv'
  BY DEF GCInv, GCTypes, RoundInv
<1>10. WriteInv'
  BY <1>2, <1>5, <1>6 DEF GCInv, GCTypes, WriteInv
<1>11. SpaceInv'
  BY <1>2, <1>5, <1>7 DEF GCInv, SpaceInv
<1>12. CollectInv'
  BY SameCollected DEF GCInv
<1> QED BY <1>8, <1>9, <1>10, <1>11, <1>12 DEF GCInv

\* The second snapshot closes the sum of the rounds.
LEMMA SummaryInv == GCInv /\ Summary => GCInv'
<1> SUFFICES ASSUME GCInv, Summary PROVE GCInv'
  OBVIOUS
<1> USE DEF Summary, params, disk, totals
<1>1. PICK d \in totalVlogSize :
        post' = d /\ missedFiles' = (missedFiles \/ d # AllUsed(vlog))
  OBVIOUS
<1>2. AllUsed(vlog) \in Nat /\ d \in Nat \cup {-1}
  BY <1>1, VlogSize DEF GCInv, GCTypes
<1>3. missedFiles' \in BOOLEAN
  BY <1>1, Zenon
<1>4. ~missedFiles' => ~missedFiles /\ d = AllUsed(vlog)
  BY <1>1, Zenon
<1>5. GCTypes'
  BY <1>1, <1>2, <1>3 DEF GCInv, GCTypes
<1>6. RoundInv'
  BY DEF GCInv, GCTypes, RoundInv
<1>7. WriteInv'
  BY DEF GCInv, GCTypes, WriteInv
<1>8. SpaceInv'
  BY <1>1, <1>2, <1>4 DEF GCInv, SpaceInv
<1>9. CollectInv'
  BY SameCollected DEF GCInv
<1> QED BY <1>5, <1>6, <1>7, <1>8, <1>9 DEF GCInv

\* What compactions write during a round counts as written in the round.
LEMMA CompactInv == GCInv /\ Compact => GCInv'
<1> SUFFICES ASSUME GCInv, Compact PROVE GCInv'
  OBVIOUS
<1> USE DEF Compact, params, totals, missed
<1>1. GCTypes'
  BY DEF GCInv, GCTypes
<1>2. RoundInv'
  BY DEF GCInv, RoundInv
<1>3. WriteInv'
  BY DEF GCInv, GCTypes, WriteInv
<1>4. SpaceInv'
  BY DEF GCInv, SpaceInv
<1>5. CollectInv'
  <2>1. Reaching(vlog)' = Reaching(vlog) /\ Reaching(origin)' = Reaching(origin)
    BY SameReaching
  <2>2. \A e : Ended(e)' = Ended(e)
    BY DEF Ended
  <2>3. Unrecorded' = Unrecorded
    BY DEF Unrecorded
  <2> QED BY <2>1, <2>2, <2>3 DEF GCInv, CollectInv
<1> QED BY <1>1, <1>2, <1>3, <1>4, <1>5 DEF GCInv

\* A stuttering step changes nothing.
LEMMA GCStutter == GCInv /\ UNCHANGED gcVars => GCInv'
<1> SUFFICES ASSUME GCInv, UNCHANGED gcVars PROVE GCInv'
  OBVIOUS
<1> USE DEF gcVars, params, disk, totals, history, missed
<1>1. GCTypes'
  BY DEF GCInv, GCTypes
<1>2. RoundInv' /\ WriteInv' /\ SpaceInv'
  BY DEF GCInv, RoundInv, WriteInv, SpaceInv
<1>3. CollectInv'
  <2>1. Reaching(vlog)' = Reaching(vlog) /\ Reaching(origin)' = Reaching(origin)
    BY SameReaching
  <2>2. \A e : Ended(e)' = Ended(e)
    BY DEF Ended
  <2>3. Unrecorded' = Unrecorded
    BY DEF Unrecorded
  <2> QED BY <2>1, <2>2, <2>3 DEF GCInv, CollectInv
<1> QED BY <1>1, <1>2, <1>3 DEF GCInv

\* The value log after a round of badger: one file less that reaches the ratio, or as
\* many as before, with what was written counted.
LEMMA RoundOfBadger ==
  ASSUME GCInv, RunValueLogGC
  PROVE  /\ vlog' \in Seq(Files) /\ vlog' # <<>> /\ err' \in Errors
         /\ \E n \in Nat : writeBytes' = writeBytes + n /\ inRounds' = inRounds + n
         /\ Cardinality(Reaching(vlog'))
              = Cardinality(Reaching(vlog)) - (IF err' = "nil" THEN 1 ELSE 0)
         /\ err' = "no cleanup" \/ Reaching(vlog) = {} => Reaching(vlog') = {}
<1>1. /\ vlog \in Seq(Files) /\ vlog # <<>> /\ writeBytes \in Nat /\ inRounds \in Nat
      /\ Len(vlog) \in Nat \ {0}
  BY DEF GCInv, GCTypes
<1>2. Collectable = Reaching(vlog)
  BY DEF Collectable, Reaching
<1>3. Cardinality(Reaching(vlog)) \in Nat
  BY <1>1, ReachingFinite
<1>4. CASE Rewrite
  <2>1. PICK i \in Collectable :
          LET n == vlog[i].live IN
          /\ vlog' = RemoveAt([vlog EXCEPT ![Len(vlog)].live = @ + n], i)
          /\ writeBytes' = writeBytes + n
          /\ inRounds' = inRounds + n
          /\ err' = "nil"
    BY <1>4 DEF Rewrite
  <2> DEFINE n == vlog[i].live
             v == [vlog EXCEPT ![Len(vlog)].live = @ + n]
             L == Len(vlog)
  <2>2. i \in 1 .. L - 1 /\ n \in Nat
    <3>1. i \in 1 .. L - 1
      BY <2>1 DEF Collectable
    <3>2. vlog[i] \in Files
      BY <1>1, <3>1
    <3> QED BY <3>1, <3>2 DEF Files
  <2>3. v \in Seq(Files) /\ Len(v) = L /\ \A j \in 1 .. L - 1 : v[j] = vlog[j]
    <3>1. vlog[L] \in Files
      BY <1>1
    <3>2. [vlog[L] EXCEPT !.live = @ + n] \in Files
      BY <2>2, <3>1 DEF Files
    <3>3. v = [vlog EXCEPT ![L] = [vlog[L] EXCEPT !.live = @ + n]]
      OBVIOUS
    <3> HIDE DEF n
    <3> QED BY <1>1, <3>2, <3>3
  <2>4. vlog' = RemoveAt(v, i)
    BY <2>1
  <2> HIDE DEF v, n
  <2>5. vlog' = SubSeq(v, 1, i - 1) \o SubSeq(v, i + 1, L)
    BY <2>3, <2>4 DEF RemoveAt
  <2>6. /\ vlog' \in Seq(Files) /\ Len(vlog') = L - 1
        /\ \A j \in 1 .. L - 1 : vlog'[j] = IF j < i THEN v[j] ELSE v[j + 1]
    BY <1>1, <2>2, <2>3, <2>5
  <2>7. \A j \in 1 .. Len(vlog') - 1 : vlog'[j] = IF j < i THEN vlog[j] ELSE vlog[j + 1]
    <3> SUFFICES ASSUME NEW j \in 1 .. Len(vlog') - 1
                 PROVE  vlog'[j] = IF j < i THEN vlog[j] ELSE vlog[j + 1]
      OBVIOUS
    <3>1. Len(vlog') = L - 1 /\ L \in Nat
      BY <1>1, <2>6
    <3> HIDE DEF L
    <3>2. j \in 1 .. L - 1 /\ j + 1 \in 1 .. L - 1
      BY <3>1
    <3> QED BY <2>3, <2>6, <3>2
  <2>8. Cardinality(Reaching(vlog')) = Cardinality(Reaching(vlog)) - 1
    BY <1>1, <1>2, <2>1, <2>6, <2>7, CollectedOne
  <2>9. err' = "nil" /\ Reaching(vlog) # {} /\ vlog' # <<>>
    BY <1>1, <1>2, <2>1, <2>2, <2>6
  <2>10. writeBytes' = writeBytes + n /\ inRounds' = inRounds + n
    BY <2>1 DEF n
  <2>11. \E k \in Nat : writeBytes' = writeBytes + k /\ inRounds' = inRounds + k
    BY <2>2, <2>10
  <2>12. err' \in Errors
    BY <2>9 DEF Errors
  <2> QED BY <2>6, <2>8, <2>9, <2>11, <2>12
<1>5. CASE RewriteFails
  <2>1. PICK i \in Collectable : \E n \in 0 .. vlog[i].live :
          /\ vlog' = [vlog EXCEPT ![Len(vlog)].dead = @ + n]
          /\ writeBytes' = writeBytes + n
          /\ inRounds' = inRounds + n
          /\ err' = "failed"
    BY <1>5 DEF RewriteFails
  <2>2. PICK n \in 0 .. vlog[i].live :
          /\ vlog' = [vlog EXCEPT ![Len(vlog)].dead = @ + n]
          /\ writeBytes' = writeBytes + n
          /\ inRounds' = inRounds + n
          /\ err' = "failed"
    BY <2>1
  <2> DEFINE L == Len(vlog)
  <2>3. n \in Nat
    <3>1. i \in 1 .. L - 1
      BY <2>1 DEF Collectable
    <3>2. vlog[i] \in Files
      BY <1>1, <3>1
    <3>3. vlog[i].live \in Nat
      BY <3>2 DEF Files
    <3> QED BY <2>2, <3>3
  <2>4. vlog' \in Seq(Files) /\ Len(vlog') = L /\ \A j \in 1 .. L - 1 : vlog'[j] = vlog[j]
    <3>1. vlog[L] \in Files
      BY <1>1
    <3>2. [vlog[L] EXCEPT !.dead = @ + n] \in Files
      BY <2>3, <3>1 DEF Files
    <3>3. vlog' = [vlog EXCEPT ![L] = [vlog[L] EXCEPT !.dead = @ + n]]
      BY <2>2
    <3> QED BY <1>1, <3>2, <3>3
  <2>5. Reaching(vlog') = Reaching(vlog)
    BY <2>4 DEF Reaching
  <2>6. vlog' # <<>>
    BY <1>1, <2>4
  <2>7. \E k \in Nat : writeBytes' = writeBytes + k /\ inRounds' = inRounds + k
    BY <2>2, <2>3
  <2>8. err' = "failed" /\ err' \in Errors
    BY <2>2 DEF Errors
  <2>9. Cardinality(Reaching(vlog')) = Cardinality(Reaching(vlog)) - 0
    BY <1>3, <2>5
  <2> QED BY <2>4, <2>5, <2>6, <2>7, <2>8, <2>9
<1>6. CASE NoRewrite
  <2>1. /\ Reaching(vlog) = {} /\ err' = "no cleanup"
        /\ vlog' = vlog /\ writeBytes' = writeBytes /\ inRounds' = inRounds
    BY <1>2, <1>6 DEF NoRewrite, disk
  <2>2. writeBytes' = writeBytes + 0 /\ inRounds' = inRounds + 0
    <3>1. writeBytes \in Nat /\ inRounds \in Nat
      BY <1>1
    <3>2. writeBytes + 0 = writeBytes /\ inRounds + 0 = inRounds
      BY <3>1
    <3> QED BY <2>1, <3>2
  <2>3. \E k \in Nat : writeBytes' = writeBytes + k /\ inRounds' = inRounds + k
    <3>1. 0 \in Nat
      OBVIOUS
    <3> QED BY <2>2, <3>1
  <2>4. Reaching(vlog') = Reaching(vlog)
    BY <2>1
  <2>5. Cardinality(Reaching(vlog')) = Cardinality(Reaching(vlog)) - 0
    BY <1>3, <2>4
  <2>6. err' \in Errors
    BY <2>1 DEF Errors
  <2> QED BY <1>1, <2>1, <2>3, <2>4, <2>5, <2>6
<1> QED BY <1>4, <1>5, <1>6 DEF RunValueLogGC

\* A round of badger, with the totals not yet told of it.
LEMMA RunValueLogGCInv == GCInv /\ RunValueLogGC => GCInv'
<1> SUFFICES ASSUME GCInv, RunValueLogGC PROVE GCInv'
  OBVIOUS
<1>1. /\ point = "gc" /\ point' = "record"
      /\ UNCHANGED <<params, compactions, round, pre, post, before, totals, missed>>
  BY DEF RunValueLogGC
<1> USE DEF params, totals, missed
<1>2. PICK n \in Nat : writeBytes' = writeBytes + n /\ inRounds' = inRounds + n
  BY RoundOfBadger
<1>3. /\ vlog' \in Seq(Files) /\ vlog' # <<>> /\ err' \in Errors
      /\ Cardinality(Reaching(vlog'))
           = Cardinality(Reaching(vlog)) - (IF err' = "nil" THEN 1 ELSE 0)
      /\ err' = "no cleanup" \/ Reaching(vlog) = {} => Reaching(vlog') = {}
  BY RoundOfBadger
<1>4. GCTypes'
  <2>1. missedWrites' \in BOOLEAN /\ missedFiles' \in BOOLEAN
    BY <1>1, Zenon DEF GCInv, GCTypes
  <2>2. writeBytes' \in Nat /\ inRounds' \in Nat
    BY <1>2 DEF GCInv, GCTypes
  <2> QED BY <1>1, <1>3, <2>1, <2>2 DEF GCInv, GCTypes
<1>5. RoundInv'
  BY <1>1 DEF GCInv, RoundInv
<1>6. WriteInv'
  BY <1>1, <1>2 DEF GCInv, GCTypes, WriteInv
<1>7. SpaceInv'
  BY <1>1 DEF GCInv, SpaceInv
<1>8. CollectInv'
  <2>1. /\ Reaching(vlog)' = Reaching(vlog') /\ Reaching(origin)' = Reaching(origin)
        /\ \A e : Ended(e)' = Ended(e)
    BY <1>1, SameReaching DEF Ended
  <2> DEFINE was == Cardinality(Reaching(vlog))
             is == Cardinality(Reaching(vlog'))
             nils == Cardinality(Ended("nil"))
             all == Cardinality(Reaching(origin))
             one == IF err' = "nil" THEN 1 ELSE 0
  <2>2. was \in Nat /\ nils \in Nat /\ one \in Nat
    BY ReachingFinite, EndedFinite DEF GCInv, GCTypes
  <2>3. Unrecorded = 0 /\ was + nils + Unrecorded = all
    BY <1>1 DEF GCInv, CollectInv, Unrecorded
  <2>4. is = was - one /\ Unrecorded' = one
    BY <1>1, <1>3 DEF Unrecorded
  <2>5. is + nils + Unrecorded' = all
    <3> HIDE DEF was, is, nils, all, one
    <3> QED BY <2>2, <2>3, <2>4
  <2>6. Ended("no cleanup") # {} => Reaching(vlog') = {}
    BY <1>3 DEF GCInv, CollectInv
  <2> QED BY <1>3, <2>1, <2>5, <2>6 DEF CollectInv
<1> QED BY <1>4, <1>5, <1>6, <1>7, <1>8 DEF GCInv

\* No error of badger has the text that ends the rounds early.
LEMMA LastIsLast ==
  ASSUME GCInv, point = "record"
  PROVE  LastRound <=> round >= gcCount
  BY DEF LastRound, SaysNoRewrite, GCInv, GCTypes, Errors

\* A recorded round is counted under its error and under no other.
LEMMA EndedAppend ==
  ASSUME results \in Seq(Errors), NEW x \in Errors, results' = Append(results, x), NEW e
  PROVE  Ended(e)' = IF x = e THEN Ended(e) \cup {Len(results) + 1} ELSE Ended(e)
<1>1. /\ Len(results) \in Nat /\ DOMAIN results = 1 .. Len(results)
      /\ DOMAIN results' = 1 .. (Len(results) + 1)
      /\ results'[Len(results) + 1] = x
      /\ \A i \in DOMAIN results : results'[i] = results[i]
  OBVIOUS
<1>2. DOMAIN results' = DOMAIN results \cup {Len(results) + 1}
  BY <1>1
<1> DEFINE L == Len(results) + 1
<1> HIDE DEF L
<1>3. DOMAIN results' = DOMAIN results \cup {L} /\ results'[L] = x
  BY <1>1, <1>2 DEF L
<1>4. Ended(e)' = {i \in DOMAIN results' : results'[i] = e}
  BY DEF Ended
<1>5. Ended(e)' = IF x = e THEN Ended(e) \cup {L} ELSE Ended(e)
  BY <1>1, <1>3, <1>4 DEF Ended
<1> QED BY <1>5 DEF L

\* The record of a round brings the totals up to date.
LEMMA RecordRoundInv == GCInv /\ RecordRound => GCInv'
<1> SUFFICES ASSUME GCInv, RecordRound PROVE GCInv'
  OBVIOUS
<1>1. /\ point = "record"
      /\ UNCHANGED <<params, disk, compactions, pre, post, before, err, inRounds>>
      /\ IF LastRound THEN point' = "summary" /\ UNCHANGED round
                      ELSE point' = "sample" /\ round' = round + 1
  BY DEF RecordRound
<1>2. PICK p \in readWriteBytes, d \in totalVlogSize :
       /\ totalPhysWrite' = totalPhysWrite + Delta(before.phys, p)
       /\ spaceReclaimed' = spaceReclaimed + Reclaimed(d)
       /\ missedWrites' = (missedWrites \/ p < 0)
       /\ missedFiles' = (missedFiles \/ d # AllUsed(vlog))
  BY DEF RecordRound
<1> DEFINE written == Delta(before.phys, p)
           freed == Reclaimed(d)
<1>3. /\ results' = Append(results, err)
      /\ totalPhysWrite' = totalPhysWrite + written
      /\ spaceReclaimed' = spaceReclaimed + freed
  BY <1>2 DEF RecordRound
<1>4. /\ AllUsed(vlog) \in Nat /\ d \in Nat \cup {-1}
      /\ writeBytes \in Nat /\ p \in {writeBytes, -1}
  BY <1>2, VlogSize DEF GCInv, GCTypes, readWriteBytes
<1>5. before.phys \in Nat \cup {-1} /\ before.dir \in Nat \cup {-1}
  BY DEF GCInv, GCTypes
<1>6. written \in Nat /\ freed \in Int
  BY <1>4, <1>5 DEF Delta, Reclaimed
<1>7. missedWrites' \in BOOLEAN /\ missedFiles' \in BOOLEAN
  BY <1>2, Zenon
<1>8. ~missedWrites' => ~missedWrites /\ p = writeBytes
  <2>1. p < 0 \/ p = writeBytes
    BY <1>4
  <2> QED BY <1>2, <2>1, Zenon
<1>9. ~missedFiles' => ~missedFiles /\ d = AllUsed(vlog)
  BY <1>2, Zenon
<1>10. err \in Errors
  BY DEF GCInv, GCTypes
<1>11. results \in Seq(Errors) /\ Len(results) \in Nat
  BY DEF GCInv, GCTypes
<1>12. results' \in Seq(Errors) /\ Len(results') = Len(results) + 1
  BY <1>3, <1>10, <1>11
<1>13. point' \in {"sample", "summary"}
  BY <1>1
<1>14. GCTypes'
  <2>1. totalPhysWrite' \in Nat /\ spaceReclaimed' \in Int
    <3> HIDE DEF written, freed
    <3> QED BY <1>3, <1>6 DEF GCInv, GCTypes
  <2> QED BY <1>1, <1>7, <1>12, <1>13, <2>1 DEF GCInv, GCTypes, params, disk
<1>15. RoundInv'
  <2>1. gcCount' = gcCount /\ gcCount \in Nat
    BY <1>1 DEF params, GCInv, GCTypes
  <2>2. round = Len(results) + 1 /\ round <= gcCount
    BY <1>1 DEF GCInv, RoundInv
  <2>3. CASE LastRound
    <3>1. round >= gcCount
      BY <1>1, <2>3, LastIsLast
    <3>2. point' = "summary" /\ round' = Len(results') /\ round' = gcCount'
      BY <1>1, <1>11, <1>12, <2>1, <2>2, <2>3, <3>1
    <3> QED BY <3>2 DEF RoundInv
  <2>4. CASE ~LastRound
    <3>1. ~(round >= gcCount)
      BY <1>1, <2>4, LastIsLast
    <3>2. point' = "sample" /\ round' = Len(results') + 1 /\ round' <= gcCount'
      BY <1>1, <1>11, <1>12, <2>1, <2>2, <2>4, <3>1
    <3> QED BY <3>2 DEF RoundInv
  <2> QED BY <2>3, <2>4
<1>16. WriteInv'
  <2>1. /\ totalPhysWrite \in Nat /\ inRounds \in Nat /\ inRounds' = inRounds
        /\ totalPhysWrite <= inRounds
    BY <1>1 DEF GCInv, GCTypes, WriteInv
  <2>2. before.phys >= 0 => /\ totalPhysWrite + writeBytes - inRounds <= before.phys
                            /\ before.phys <= writeBytes
    BY <1>1 DEF GCInv, WriteInv
  <2>3. ~missedWrites => /\ before.phys >= 0
                         /\ totalPhysWrite + writeBytes - inRounds = before.phys
    BY <1>1 DEF GCInv, WriteInv
  <2>4. totalPhysWrite' = totalPhysWrite + written
    BY <1>3
  <2>5. totalPhysWrite + written <= inRounds
    BY <1>4, <1>5, <2>1, <2>2 DEF Delta
  <2>6. ~missedWrites' => totalPhysWrite + written = inRounds
    BY <1>4, <1>5, <1>8, <2>1, <2>2, <2>3 DEF Delta
  <2>7. totalPhysWrite' <= inRounds' /\ (~missedWrites' => totalPhysWrite' = inRounds')
    <3> HIDE DEF written
    <3> QED BY <2>1, <2>4, <2>5, <2>6
  <2> QED BY <1>13, <2>7 DEF WriteInv
<1>17. SpaceInv'
  <2> SUFFICES ASSUME ~missedFiles'
               PROVE  pre' >= 0 /\ spaceReclaimed' = pre' - AllUsed(vlog)'
    BY <1>13 DEF SpaceInv
  <2>1. ~missedFiles /\ d = AllUsed(vlog)
    BY <1>9
  <2>2. pre >= 0 /\ before.dir >= 0 /\ spaceReclaimed = pre - before.dir
    BY <1>1, <2>1 DEF GCInv, SpaceInv
  <2>3. freed = before.dir - AllUsed(vlog)
    BY <1>4, <1>5, <2>1, <2>2 DEF Reclaimed
  <2>4. pre \in Nat /\ before.dir \in Nat
    BY <1>5, <2>2 DEF GCInv, GCTypes
  <2>5. spaceReclaimed' = pre - AllUsed(vlog)
    <3>1. spaceReclaimed' = spaceReclaimed + freed
      BY <1>3
    <3> HIDE DEF freed
    <3> QED BY <1>4, <2>2, <2>3, <2>4, <3>1
  <2>6. pre' = pre /\ vlog' = vlog
    BY <1>1 DEF disk
  <2> QED BY <2>2, <2>5, <2>6
<1>18. CollectInv'
  <2>1. /\ vlog' = vlog /\ origin' = origin /\ err' = err
        /\ Reaching(vlog)' = Reaching(vlog) /\ Reaching(origin)' = Reaching(origin)
    BY <1>1, SameReaching DEF disk, params
  <2>3. \A e : Ended(e)' = IF err = e THEN Ended(e) \cup {Len(results) + 1} ELSE Ended(e)
    BY <1>3, <1>10, <1>11, EndedAppend
  <2> DEFINE E == Ended("nil")
             one == IF err = "nil" THEN 1 ELSE 0
             was == Cardinality(E)
             is == Cardinality(Ended("nil")')
             left == Cardinality(Reaching(vlog))
             all == Cardinality(Reaching(origin))
  <2>4. IsFiniteSet(E) /\ was \in Nat /\ left \in Nat
    BY <1>11, EndedFinite, ReachingFinite DEF GCInv, GCTypes
  <2>5. is = was + one
    <3>1. CASE err = "nil"
      <4>1. Len(results) + 1 \notin E
        BY <1>11 DEF Ended
      <4>2. Cardinality(E \cup {Len(results) + 1}) = Cardinality(E) + 1
        <5> HIDE DEF E
        <5> QED BY <2>4, <4>1, FS_AddElement
      <4> QED BY <2>3, <3>1, <4>2
    <3>2. CASE err # "nil"
      BY <2>3, <2>4, <3>2
    <3> QED BY <3>1, <3>2
  <2>6. left + was + Unrecorded = all /\ Unrecorded = one /\ Unrecorded' = 0
    BY <1>1, <1>13 DEF GCInv, CollectInv, Unrecorded
  <2>7. left + is + Unrecorded' = all
    <3>1. one \in Nat
      OBVIOUS
    <3> HIDE DEF was, is, left, all, one
    <3> QED BY <2>4, <2>5, <2>6, <3>1
  <2>8. Ended("no cleanup")' # {} => Reaching(vlog) = {}
    <3>1. CASE err = "no cleanup"
      BY <1>1, <3>1 DEF GCInv, CollectInv
    <3>2. CASE err # "no cleanup"
      BY <2>3, <3>2 DEF GCInv, CollectInv
    <3> QED BY <3>1, <3>2
  <2>9. point' # "record"
    BY <1>13
  <2> QED BY <2>1, <2>7, <2>8, <2>9 DEF CollectInv
<1> QED BY <1>14, <1>15, <1>16, <1>17, <1>18 DEF GCInv

-----------------------------------------------------------------------------
\* Every step keeps the invariant.
LEMMA GCNextInv == GCInv /\ [GCNext]_gcVars => GCInv'
  BY SnapshotInv, SampleBeforeInv, RunValueLogGCInv, RecordRoundInv, SummaryInv, CompactInv,
     GCStutter
  DEF GCNext, Command, Done

\* The invariant of the gc command.
LEMMA GCInvariant == GCSpec => []GCInv
  BY GCInitInv, GCNextInv, PTL DEF GCSpec

\* The summary of the gc command (gc.go:299-313): the writes of the rounds are never
\* overstated and, when every sample of them succeeded, exact; when every sample of the
\* directory saw all files the reclaimed space is the difference of the two snapshots.
\* This is whichever rounds fail and whatever compactions write.
THEOREM TotalsAccountHolds == GCSpec => []TotalsAccount
<1>1. GCInv => TotalsAccount
  <2> SUFFICES ASSUME GCInv PROVE TotalsAccount
    OBVIOUS
  <2>1. GCTypeOK
    <3>1. {missedWrites, missedFiles} \subseteq BOOLEAN
      BY Zenon DEF GCInv, GCTypes
    <3>2. round \in 0 .. gcCount
      <4>1. Len(results) \in Nat /\ gcCount \in Nat \ {0}
        BY DEF GCInv, GCTypes
      <4>2. point \in {"snapshot", "sample", "gc", "record", "summary", "done"}
        BY DEF GCInv, GCTypes
      <4> QED BY <4>1, <4>2 DEF GCInv, RoundInv
    <3>3. before.phys \in Nat \cup {-1} /\ before.dir \in Nat \cup {-1}
      BY DEF GCInv, GCTypes
    <3>4. results \in Seq({"nil", "failed", "no cleanup"})
      BY DEF GCInv, GCTypes, Errors
    <3>5. vlog \in Seq([live : Nat, dead : Nat])
      BY DEF GCInv, GCTypes, Files
    <3> QED BY <3>1, <3>2, <3>3, <3>4, <3>5 DEF GCInv, GCTypes, GCTypeOK
  <2>2. WritesAccounted
    BY DEF GCInv, WriteInv, WritesAccounted
  <2>3. ReclaimedTelescopes
    BY DEF GCInv, SpaceInv, ReclaimedTelescopes
  <2> QED BY <2>1, <2>2, <2>3 DEF TotalsAccount
<1> QED BY <1>1, GCInvariant, PTL

\* The rounds go on after an error (gc.go:349): with a round for every file that reaches
\* the ratio and one for every failure, no such file is left at the end.
THEOREM AllCollectedHolds == GCSpec => []AllCollected
<1> DEFINE n == Cardinality({i \in 1 .. Len(origin) - 1 : Garbage(origin[i])})
           failures == Cardinality({i \in DOMAIN results : results[i] = "failed"})
<1>1. GCInv => AllCollected
  <2> SUFFICES ASSUME GCInv, point = "done", gcCount >= n + failures PROVE Collectable = {}
    BY DEF AllCollected
  <2>1. Collectable = Reaching(vlog)
    BY DEF Collectable, Reaching
  <2>2. CASE Ended("no cleanup") # {}
    BY <2>1, <2>2 DEF GCInv, CollectInv
  <2>3. CASE Ended("no cleanup") = {}
    <3> DEFINE A == Ended("nil")
               F == Ended("failed")
               left == Cardinality(Reaching(vlog))
    <3>1. results \in Seq(Errors) /\ Len(results) \in Nat /\ DOMAIN results = 1 .. Len(results)
      BY DEF GCInv, GCTypes
    <3>2. \A i \in DOMAIN results : results[i] \in Errors
      BY <3>1
    <3>3. DOMAIN results = A \cup F
      BY <2>3, <3>2 DEF Ended, Errors
    <3>4. A \cap F = {}
      BY DEF Ended
    <3>5. /\ IsFiniteSet(A) /\ Cardinality(A) \in Nat
          /\ IsFiniteSet(F) /\ Cardinality(F) \in Nat
      BY <3>1, EndedFinite
    <3>6. Cardinality(DOMAIN results) = Len(results)
      <4> DEFINE L == Len(results)
      <4>1. 1 \in Int /\ L \in Int /\ L \in Nat
        BY <3>1
      <4>2. Cardinality(1 .. L) = L
        <5> HIDE DEF L
        <5>1. Cardinality(1 .. L) = IF 1 > L THEN 0 ELSE L - 1 + 1
          BY <4>1, FS_Interval
        <5> QED BY <4>1, <5>1
      <4> QED BY <3>1, <4>2
    <3>7. Cardinality(A \cup F) = Cardinality(A) + Cardinality(F)
      <4> HIDE DEF A, F
      <4>1. Cardinality(A \cup F) = Cardinality(A) + Cardinality(F) - Cardinality(A \cap F)
        BY <3>5, FS_Union
      <4>2. Cardinality(A \cap F) = 0
        BY <3>4, FS_EmptySet
      <4> QED BY <3>5, <4>1, <4>2
    <3>8. Len(results) = gcCount /\ gcCount \in Nat
      BY DEF GCInv, GCTypes, RoundInv
    <3>9. n = Cardinality(Reaching(origin)) /\ failures = Cardinality(F)
      BY DEF Reaching, Ended
    <3>10. left + Cardinality(A) + Unrecorded = n /\ Unrecorded = 0
      BY <3>9 DEF GCInv, CollectInv, Unrecorded
    <3>11. IsFiniteSet(Reaching(vlog)) /\ left \in Nat
      BY ReachingFinite DEF GCInv, GCTypes
    <3>12. left = 0
      <4> DEFINE a == Cardinality(A)
                 b == Cardinality(F)
      <4>1. a \in Nat /\ b \in Nat /\ gcCount = a + b
        BY <3>3, <3>5, <3>6, <3>7, <3>8
      <4>2. left + a + Unrecorded = n /\ failures = b
        BY <3>9, <3>10
      <4> HIDE DEF a, b, left, n, failures
      <4> QED BY <3>10, <3>11, <4>1, <4>2
    <3> QED BY <2>1, <3>11, <3>12, FS_EmptySet
  <2> QED BY <2>2, <2>3
<1> QED BY <1>1, GCInvariant, PTL
=============================================================================
