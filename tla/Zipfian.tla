------------------------------ MODULE Zipfian -------------------------------
(***************************************************************************)
(* The generator of "latest" (pkg/generator/skewedlatest.go, zipfian.go):  *)
(* workers draw a rank among as many items as the acknowledged keys are,   *)
(* and extend the sum zetan when there are more of them than last time.    *)
(*                                                                         *)
(* zetan is a floating-point sum of one term for each item; here it is how *)
(* often each term was added.  eta is computed from zetan and the item     *)
(* count of the start; here it is the number of terms that zetan had then. *)
(***************************************************************************)
EXTENDS Integers, FiniteSets

CONSTANTS Workers,   \* the worker goroutines
          MaxItems,  \* bound on the items
          Free       \* the lock is not held

ASSUME ZipfianAssumption == MaxItems \in Nat /\ Free \notin Workers

VARIABLES recordCount,   \* items - 1 at the start is the last key of the load
          items,         \* Last of the acknowledged keys (grows with the inserts)
          lock,          \* Zipfian.lock
          countForZeta,
          zetan,
          eta,           \* the terms of the zetan that eta was computed from
          zpc,           \* program point of each worker in next
          itemCount,     \* the argument of its next
          argument,      \* the sum and the start that zeta was called with
          covered,       \* the terms of the zetan that its draw reads (history)
          overlapped,    \* another worker held the lock during the call (history)
          last           \* the last draw of any worker: its key, item count, the
                         \* terms of the sum it used, whether overlapped (history)

zetaVars == <<lock, countForZeta, zetan, eta>>
workerVars == <<zpc, itemCount, argument, covered, overlapped, last>>
zipfianVars == <<recordCount, items, zetaVars, workerVars>>

LeastInt == -1000  \* the least 64-bit integer

Terms(n) == [i \in 1 .. MaxItems |-> IF i <= n THEN 1 ELSE 0]

NumTerms(sum) == Cardinality({i \in 1 .. MaxItems : sum[i] > 0})

NoArgument == [sum |-> Terms(0), st |-> 0]

\* zetaStatic: the terms after st up to n are added to the sum.
zetaStatic(st, n, sum) ==
  [i \in 1 .. MaxItems |-> IF i \in st + 1 .. n THEN sum[i] + 1 ELSE sum[i]]

\* NewSkewedLatest over the keys 0 .. n - 1 of the load.
NewZipfian(n) ==
  /\ recordCount = n
  /\ items = n - 1
  /\ lock = Free
  /\ countForZeta = items
  /\ zetan = Terms(items)
  /\ eta = items
  /\ zpc = [w \in Workers |-> "idle"]
  /\ itemCount = [w \in Workers |-> 0]
  /\ argument = [w \in Workers |-> NoArgument]
  /\ covered = [w \in Workers |-> 0]
  /\ overlapped = [w \in Workers |-> FALSE]
  /\ last = [key |-> 0, count |-> 0, covered |-> 0, overlapped |-> FALSE]

At(w, from, to) == zpc[w] = from /\ zpc' = [zpc EXCEPT ![w] = to]

\* An insert is acknowledged, and Last moves over it.
MoreItems ==
  /\ items < MaxItems
  /\ items' = items + 1
  /\ UNCHANGED <<recordCount, zetaVars, workerVars>>

\* SkewedLatest.Next reads Last.
CallNext(w) ==
  /\ At(w, "idle", "test")
  /\ itemCount' = [itemCount EXCEPT ![w] = items]
  /\ overlapped' = [overlapped EXCEPT ![w] = lock # Free]
  /\ UNCHANGED <<recordCount, items, zetaVars, argument, covered, last>>

\* Mutant: a smaller sum is taken for good enough.
TestCountSkips(w) ==
  /\ At(w, "test", IF itemCount[w] > countForZeta + 1 THEN "lock" ELSE "draw")
  /\ UNCHANGED <<recordCount, items, zetaVars, itemCount, argument, covered, overlapped,
                 last>>

\* The count is compared without the lock.
TestCount(w) ==
  /\ At(w, "test", IF itemCount[w] # countForZeta THEN "lock" ELSE "draw")
  /\ UNCHANGED <<recordCount, items, zetaVars, itemCount, argument, covered, overlapped,
                 last>>

LockZeta(w) ==
  /\ At(w, "lock", "zeta")
  /\ lock = Free
  /\ lock' = w
  /\ overlapped' = [v \in Workers |-> overlapped[v] \/ (v # w /\ zpc[v] # "idle")]
  /\ UNCHANGED <<recordCount, items, countForZeta, zetan, eta, itemCount, argument,
                 covered, last>>

\* Mutant: the count is not compared again under the lock.
BeginZetaUnchecked(w) ==
  /\ At(w, "zeta", "sum")
  /\ argument' = [argument EXCEPT ![w] = [sum |-> zetan, st |-> countForZeta]]
  /\ countForZeta' = itemCount[w]
  /\ UNCHANGED <<recordCount, items, lock, zetan, eta, itemCount, covered, overlapped,
                 last>>

\* The count is compared again, and set before the sum is computed.  A smaller count
\* changes nothing: allowItemCountDecrease is never set.
BeginZeta(w) ==
  /\ \/ /\ itemCount[w] > countForZeta
        /\ At(w, "zeta", "sum")
        /\ argument' = [argument EXCEPT ![w] = [sum |-> zetan, st |-> countForZeta]]
        /\ countForZeta' = itemCount[w]
     \/ /\ itemCount[w] <= countForZeta
        /\ At(w, "zeta", "unlock")
        /\ UNCHANGED <<argument, countForZeta>>
  /\ UNCHANGED <<recordCount, items, lock, zetan, eta, itemCount, covered, overlapped,
                 last>>

EndZeta(w) ==
  /\ At(w, "sum", "eta")
  /\ zetan' = zetaStatic(argument[w].st, itemCount[w], argument[w].sum)
  /\ UNCHANGED <<recordCount, items, lock, countForZeta, eta, itemCount, argument,
                 covered, overlapped, last>>

\* eta follows in a store of its own.
SetEta(w) ==
  /\ At(w, "eta", "unlock")
  /\ eta' = NumTerms(zetan)
  /\ UNCHANGED <<recordCount, items, lock, countForZeta, zetan, itemCount, argument,
                 covered, overlapped, last>>

\* Mutant: the count is compared in a loop.
UnlockZetaAgain(w) ==
  /\ At(w, "unlock", "test")
  /\ lock' = Free
  /\ UNCHANGED <<recordCount, items, countForZeta, zetan, eta, itemCount, argument,
                 covered, overlapped, last>>

UnlockZeta(w) ==
  /\ At(w, "unlock", "draw")
  /\ lock' = Free
  /\ UNCHANGED <<recordCount, items, countForZeta, zetan, eta, itemCount, argument,
                 covered, overlapped, last>>

\* The rank by the formula with the eta of a sum of k terms, which uses the item count
\* of the start, one less than the records.  From three items eta is between 0 and 1.
\* For two it is 0 / 0 until the sum grows and then 0, for one it is negative from three
\* terms, and without any it is infinite or 0 / 0.  What is not a number converts to the
\* least integer; 2 * n stands for all ranks from there.
RankByEta(n, k) ==
  CASE recordCount > 3 -> 0 .. n
    [] recordCount = 3 -> IF k > 2 THEN {n} ELSE {LeastInt}
    [] recordCount = 2 -> CASE k < 2 -> 0 .. n
                            [] k = 2 -> {LeastInt}
                            [] OTHER -> n .. 2 * n
    [] OTHER -> {LeastInt}

\* The key that far before the last; n less the least integer overflows.
KeyOfRank(n, rank) == IF rank = LeastInt THEN LeastInt + n ELSE n - rank

\* The worker returns the key of its draw.
ReturnKey(w, k, terms) ==
  /\ last' = [key |-> k, count |-> itemCount[w], covered |-> terms,
              overlapped |-> overlapped[w]]
  /\ itemCount' = [itemCount EXCEPT ![w] = 0]
  /\ argument' = [argument EXCEPT ![w] = NoArgument]
  /\ covered' = [covered EXCEPT ![w] = 0]
  /\ overlapped' = [overlapped EXCEPT ![w] = FALSE]
  /\ UNCHANGED <<recordCount, items, zetaVars>>

\* The draw reads zetan: rank 0 for a dart in the first term of the sum, 1 in the second,
\* and else the formula.
Draw(w) ==
  LET terms == NumTerms(zetan) IN
  \/ At(w, "draw", "idle") /\ ReturnKey(w, KeyOfRank(itemCount[w], 0), terms)
  \/ /\ terms > 1
     /\ At(w, "draw", "idle") /\ ReturnKey(w, KeyOfRank(itemCount[w], 1), terms)
  \/ /\ terms > 2
     /\ At(w, "draw", "rank")
     /\ covered' = [covered EXCEPT ![w] = terms]
     /\ UNCHANGED <<recordCount, items, zetaVars, itemCount, argument, overlapped, last>>

\* Mutant: the rank is drawn among the items of the sum.
DrawRankAmongSum(w) ==
  /\ At(w, "rank", "idle")
  /\ \E rank \in RankByEta(countForZeta, eta) :
       ReturnKey(w, KeyOfRank(itemCount[w], rank), covered[w])

\* The formula reads eta, without the lock as well.
DrawRank(w) ==
  /\ At(w, "rank", "idle")
  /\ \E rank \in RankByEta(itemCount[w], eta) :
       ReturnKey(w, KeyOfRank(itemCount[w], rank), covered[w])

ZipfianStep(w) ==
  \/ TestCount(w) \/ LockZeta(w) \/ BeginZeta(w) \/ EndZeta(w) \/ SetEta(w)
  \/ UnlockZeta(w) \/ Draw(w) \/ DrawRank(w)
-----------------------------------------------------------------------------
ProgramPoints ==
  {"idle", "test", "lock", "zeta", "sum", "eta", "unlock", "draw", "rank"}

ZipfianTypeOK ==
  /\ recordCount \in 1 .. MaxItems
  /\ items \in 0 .. MaxItems
  /\ lock \in Workers \cup {Free}
  /\ countForZeta \in 0 .. MaxItems
  /\ zetan \in [1 .. MaxItems -> Nat]
  /\ eta \in Nat
  /\ zpc \in [Workers -> ProgramPoints]
  /\ itemCount \in [Workers -> 0 .. MaxItems]
  /\ last.key \in Int

\* A draw that no other worker's update overlaps uses a sum over all its items; one that
\* an update overlaps may see the new countForZeta with the old sum (zipfian.go:120-122).
ZetaCovers == ~last.overlapped => last.covered >= last.count

\* Types, and whenever the lock is free, zetan has exactly one term for each of the
\* countForZeta items: two workers that saw different counts neither add a term twice
\* nor skip one (zipfian.go:136-143).  eta is then the one of that sum.  And the draws
\* use the sum as ZetaCovers says.
ZetaExact ==
  /\ ZipfianTypeOK
  /\ lock = Free => zetan = Terms(countForZeta) /\ eta = countForZeta
  /\ ZetaCovers

\* A key of "latest" was loaded or its insert is acknowledged, whatever counts, sums and
\* etas the workers mix (skewedlatest.go:63, zipfian.go:135-162).  It takes four records.
\* With three, eta is not a number until the first update stores it, after zetan: a draw
\* that an update overlaps may see the new zetan with the old eta (zipfian.go:140-141).
\* With fewer, eta is wrong once the items grow.
LatestKeyExists ==
  recordCount > 3 \/ (recordCount = 3 /\ ~last.overlapped) => last.key \in 0 .. items
=============================================================================
