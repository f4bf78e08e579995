-------------------------- MODULE GeneratorsProofs --------------------------
(***************************************************************************)
(* Proofs about the generator of "latest": for every number of workers,    *)
(* records and items, the workers that extend the shared sum under the     *)
(* spin lock leave it exact, and the keys they draw exist.  And about the  *)
(* other choosers: their keys are in range, mixgraph's operations fit its  *)
(* keys, and the draws are even, for all bounds and weights.               *)
(***************************************************************************)
EXTENDS Generators, FiniteSetTheorems, WellFoundedInduction, TLAPS

-----------------------------------------------------------------------------
(* The inductive invariant. *)

Holding == {"zeta", "sum", "eta", "unlock"}

TypesInv ==
  /\ ZipfianTypeOK
  /\ DOMAIN argument = Workers
  /\ covered \in [Workers -> Nat]
  /\ overlapped \in [Workers -> BOOLEAN]
  /\ last.count \in 0 .. MaxItems
  /\ last.covered \in Nat
  /\ last.overlapped \in BOOLEAN

\* The counts only lag behind: the sum never runs ahead of the acknowledged keys, and
\* nothing is ever counted below the records of the load.
CountInv ==
  /\ recordCount - 1 <= countForZeta /\ countForZeta <= items
  /\ \A w \in Workers :
       zpc[w] # "idle" => recordCount - 1 <= itemCount[w] /\ itemCount[w] <= items

\* The worker between the two lock operations is the one that holds the lock.
LockInv == \A w \in Workers : zpc[w] \in Holding <=> lock = w

\* The sum agrees with countForZeta but while its holder computes the new one, when it
\* is still the one that the holder started from.
SumInv ==
  /\ (\A w \in Workers : zpc[w] # "sum") => zetan = Terms(countForZeta)
  /\ \A w \in Workers : zpc[w] = "sum" =>
       /\ argument[w].st \in 0 .. itemCount[w]
       /\ argument[w].sum = Terms(argument[w].st)
       /\ countForZeta = itemCount[w]

\* eta is the one of countForZeta terms but until its holder has stored it.
EtaInv ==
  (\A w \in Workers : zpc[w] \notin {"sum", "eta"}) => eta = countForZeta

\* The lock is in no other hand during a call that nothing overlaps, and a worker that
\* leaves the lock or does not need it finds all its items counted, and those are the
\* terms that its draw reads.
OverlapInv ==
  \A w \in Workers :
    /\ zpc[w] # "idle" /\ ~overlapped[w] => lock = Free \/ lock = w
    /\ zpc[w] \in {"eta", "unlock"} => itemCount[w] <= countForZeta
    /\ zpc[w] \in {"draw", "rank"} /\ ~overlapped[w] => itemCount[w] <= countForZeta
    /\ zpc[w] = "rank" /\ ~overlapped[w] => covered[w] = countForZeta /\ countForZeta > 2

LastInv == ZetaCovers /\ LatestKeyExists

IInv == TypesInv /\ CountInv /\ LockInv /\ SumInv /\ EtaInv /\ OverlapInv /\ LastInv
-----------------------------------------------------------------------------
(* The sum of terms. *)

\* The sum over the first n items has n terms.
LEMMA NumTermsOfTerms ==
  ASSUME NEW n \in 0 .. MaxItems
  PROVE  NumTerms(Terms(n)) = n
<1>1. {i \in 1 .. MaxItems : Terms(n)[i] > 0} = 1 .. n
  BY ZipfianAssumption DEF Terms
<1>2. Cardinality(1 .. n) = n
  BY FS_Interval, ZipfianAssumption
<1> QED
  BY <1>1, <1>2 DEF NumTerms

\* A sum always has a number of terms.
LEMMA NumTermsNat ==
  ASSUME NEW sum
  PROVE  NumTerms(sum) \in Nat
<1>1. IsFiniteSet(1 .. MaxItems)
  BY FS_Interval, ZipfianAssumption
<1>2. IsFiniteSet({i \in 1 .. MaxItems : sum[i] > 0})
  BY <1>1, FS_Subset
<1> QED
  BY <1>2, FS_CardinalityType DEF NumTerms

\* Adding the terms after st to the sum over st items gives the sum over n items.
LEMMA zetaStaticExtends ==
  ASSUME NEW st \in Nat, NEW n \in Nat, st <= n
  PROVE  zetaStatic(st, n, Terms(st)) = Terms(n)
<1>1. ASSUME NEW i \in 1 .. MaxItems
      PROVE  (IF i \in st + 1 .. n THEN Terms(st)[i] + 1 ELSE Terms(st)[i])
               = (IF i <= n THEN 1 ELSE 0)
  BY ZipfianAssumption DEF Terms
<1> QED
  BY <1>1 DEF zetaStatic, Terms

LEMMA TermsType == \A n \in Nat : Terms(n) \in [1 .. MaxItems -> Nat]
  BY ZipfianAssumption DEF Terms

\* With at least four records, or with three and eta a number, the formula's rank is at
\* most the item count.
LEMMA RankBound ==
  ASSUME ZipfianTypeOK, NEW n \in Nat, NEW k, recordCount > 3 \/ (recordCount = 3 /\ k > 2),
         NEW rank \in RankByEta(n, k)
  PROVE  rank \in 0 .. n
<1>1. recordCount \in Nat
  BY ZipfianAssumption DEF ZipfianTypeOK
<1> QED
  BY <1>1 DEF RankByEta

LEMMA RankInt ==
  ASSUME ZipfianTypeOK, NEW n \in Nat, NEW k \in Nat, NEW rank \in RankByEta(n, k)
  PROVE  rank \in Int
<1>1. recordCount \in Nat
  BY ZipfianAssumption DEF ZipfianTypeOK
<1> QED
  BY <1>1 DEF RankByEta, LeastInt

LEMMA KeyInt ==
  \A n \in Nat, rank \in Int :
    /\ KeyOfRank(n, rank) \in Int
    /\ rank \in 0 .. n => KeyOfRank(n, rank) \in 0 .. n
  BY DEF KeyOfRank, LeastInt
-----------------------------------------------------------------------------
(* The steps. *)

LEMMA InitIInv == Init => IInv
<1> SUFFICES ASSUME NEW n \in RecordCounts, NewZipfian(n)
             PROVE  IInv
  BY DEF Init
<1>1. n \in 1 .. MaxItems /\ n - 1 \in 0 .. MaxItems
  BY RecordCountsAssumption, ZipfianAssumption
<1>2. zetan \in [1 .. MaxItems -> Nat]
  BY <1>1, TermsType, ZipfianAssumption DEF NewZipfian
<1>3. overlapped \in [Workers -> BOOLEAN]
  BY Zenon DEF NewZipfian
<1>4. last.overlapped \in BOOLEAN /\ covered \in [Workers -> Nat]
  BY Zenon, 0 \in Nat DEF NewZipfian
<1>5. TypesInv
  BY <1>1, <1>2, <1>3, <1>4, ZipfianAssumption DEF TypesInv, ZipfianTypeOK, ProgramPoints, NewZipfian
<1>6. CountInv /\ LockInv /\ SumInv /\ EtaInv
  BY <1>1, ZipfianAssumption DEF CountInv, LockInv, SumInv, EtaInv, Holding, NewZipfian
<1>7. OverlapInv /\ LastInv
  BY <1>1, ZipfianAssumption
  DEF OverlapInv, LastInv, ZetaCovers, LatestKeyExists, NewZipfian
<1> QED
  BY <1>5, <1>6, <1>7 DEF IInv

\* The invariant speaks of the variables of the generator only.
LEMMA StutterIInv == IInv /\ UNCHANGED zipfianVars => IInv'
  BY DEF IInv, TypesInv, ZipfianTypeOK, CountInv, LockInv, SumInv, EtaInv,
         OverlapInv, LastInv,
         ZetaCovers, LatestKeyExists, zipfianVars, zetaVars, workerVars

LEMMA MoreItemsIInv == IInv /\ MoreItems => IInv'
<1> SUFFICES ASSUME IInv, MoreItems PROVE IInv'
  OBVIOUS
<1> USE ZipfianAssumption DEF MoreItems, zetaVars, workerVars
<1>1. TypesInv'
  BY DEF IInv, TypesInv, ZipfianTypeOK
<1>2. CountInv'
  BY DEF IInv, TypesInv, ZipfianTypeOK, CountInv
<1>3. LockInv' /\ SumInv' /\ EtaInv' /\ OverlapInv'
  BY DEF IInv, LockInv, SumInv, EtaInv, OverlapInv
<1>4. LastInv'
  BY DEF IInv, TypesInv, ZipfianTypeOK, LastInv, ZetaCovers, LatestKeyExists
<1> QED
  BY <1>1, <1>2, <1>3, <1>4 DEF IInv

LEMMA CallNextIInv == ASSUME NEW w \in Workers, IInv, CallNext(w) PROVE IInv'
<1> USE ZipfianAssumption DEF CallNext, At, zetaVars
<1>1. TypesInv'
  <2>1. overlapped' \in [Workers -> BOOLEAN]
    BY Zenon DEF IInv, TypesInv
  <2> QED
    BY <2>1 DEF IInv, TypesInv, ZipfianTypeOK, ProgramPoints
<1>2. CountInv'
  BY DEF IInv, TypesInv, ZipfianTypeOK, ProgramPoints, CountInv
<1>3. LockInv'
  BY DEF IInv, TypesInv, ZipfianTypeOK, ProgramPoints, LockInv, Holding
<1>4. SumInv' /\ EtaInv'
  BY DEF IInv, TypesInv, ZipfianTypeOK, ProgramPoints, SumInv, EtaInv
<1>5. OverlapInv'
  BY DEF IInv, TypesInv, ZipfianTypeOK, ProgramPoints, OverlapInv
<1>6. LastInv'
  BY DEF IInv, LastInv, ZetaCovers, LatestKeyExists
<1> QED
  BY <1>1, <1>2, <1>3, <1>4, <1>5, <1>6 DEF IInv

LEMMA TestCountIInv == ASSUME NEW w \in Workers, IInv, TestCount(w) PROVE IInv'
<1> USE ZipfianAssumption DEF TestCount, At, zetaVars
<1>1. TypesInv'
  BY DEF IInv, TypesInv, ZipfianTypeOK, ProgramPoints
<1>2. CountInv'
  BY DEF IInv, TypesInv, ZipfianTypeOK, ProgramPoints, CountInv
<1>3. LockInv'
  BY DEF IInv, TypesInv, ZipfianTypeOK, ProgramPoints, LockInv, Holding
<1>4. SumInv' /\ EtaInv'
  BY DEF IInv, TypesInv, ZipfianTypeOK, ProgramPoints, SumInv, EtaInv
<1>5. OverlapInv'
  BY DEF IInv, TypesInv, ZipfianTypeOK, ProgramPoints, OverlapInv
<1>6. LastInv'
  BY DEF IInv, LastInv, ZetaCovers, LatestKeyExists
<1> QED
  BY <1>1, <1>2, <1>3, <1>4, <1>5, <1>6 DEF IInv

\* Taking the lock marks the calls of all other workers.
LEMMA LockZetaIInv == ASSUME NEW w \in Workers, IInv, LockZeta(w) PROVE IInv'
<1> USE ZipfianAssumption DEF LockZeta, At
<1>1. TypesInv'
  <2>1. overlapped' \in [Workers -> BOOLEAN]
    BY Zenon DEF IInv, TypesInv
  <2> QED
    BY <2>1 DEF IInv, TypesInv, ZipfianTypeOK, ProgramPoints
<1>2. CountInv'
  BY DEF IInv, TypesInv, ZipfianTypeOK, ProgramPoints, CountInv
<1>3. LockInv'
  BY DEF IInv, TypesInv, ZipfianTypeOK, ProgramPoints, LockInv, Holding
<1>4. SumInv' /\ EtaInv'
  BY DEF IInv, TypesInv, ZipfianTypeOK, ProgramPoints, SumInv, EtaInv
<1>5. OverlapInv'
  BY DEF IInv, TypesInv, ZipfianTypeOK, ProgramPoints, OverlapInv
<1>6. LastInv'
  BY DEF IInv, LastInv, ZetaCovers, LatestKeyExists
<1> QED
  BY <1>1, <1>2, <1>3, <1>4, <1>5, <1>6 DEF IInv

\* Only the holder of the lock changes countForZeta, when nobody computes a sum.
LEMMA BeginZetaIInv == ASSUME NEW w \in Workers, IInv, BeginZeta(w) PROVE IInv'
<1> USE ZipfianAssumption DEF BeginZeta, At
<1>1. lock = w /\ \A v \in Workers : zpc[v] \notin {"sum", "eta"}
  BY DEF IInv, LockInv, Holding
<1>2. TypesInv'
  <2>1. countForZeta' \in {countForZeta, itemCount[w]} /\ DOMAIN argument' = DOMAIN argument
    OBVIOUS
  <2>2. zpc' \in [Workers -> ProgramPoints]
    BY DEF IInv, TypesInv, ZipfianTypeOK, ProgramPoints
  <2>3. countForZeta' \in 0 .. MaxItems
    BY <2>1 DEF IInv, TypesInv, ZipfianTypeOK
  <2>4. UNCHANGED <<recordCount, items, lock, zetan, eta, itemCount, covered, overlapped, last>>
    OBVIOUS
  <2> QED
    BY ONLY IInv, <2>1, <2>2, <2>3, <2>4 DEF IInv, TypesInv, ZipfianTypeOK
<1>3. CountInv'
  BY DEF IInv, TypesInv, ZipfianTypeOK, ProgramPoints, CountInv
<1>4. LockInv'
  BY DEF IInv, TypesInv, ZipfianTypeOK, ProgramPoints, LockInv, Holding
<1>5. SumInv'
  <2>1. zetan = Terms(countForZeta)
    BY <1>1 DEF IInv, SumInv
  <2>2. CASE itemCount[w] > countForZeta
    <3>1. zpc'[w] = "sum" /\ countForZeta' = itemCount[w] /\ UNCHANGED <<zetan, itemCount>>
      BY <2>2 DEF IInv, TypesInv, ZipfianTypeOK, ProgramPoints
    <3>2. /\ DOMAIN argument' = DOMAIN argument
          /\ argument'[w] = [sum |-> zetan, st |-> countForZeta]
      BY <2>2 DEF IInv, TypesInv, ZipfianTypeOK, ProgramPoints
    <3> QED
      BY <1>1, <2>1, <2>2, <3>1, <3>2 DEF IInv, TypesInv, ZipfianTypeOK, ProgramPoints, SumInv
  <2>3. CASE itemCount[w] <= countForZeta
    BY <1>1, <2>1, <2>3 DEF IInv, TypesInv, ZipfianTypeOK, ProgramPoints, SumInv
  <2> QED
    BY <2>2, <2>3 DEF IInv, TypesInv, ZipfianTypeOK, ProgramPoints
<1>6. EtaInv'
  BY <1>1 DEF IInv, TypesInv, ZipfianTypeOK, ProgramPoints, EtaInv
<1>7. OverlapInv'
  BY <1>1 DEF IInv, TypesInv, ZipfianTypeOK, ProgramPoints, OverlapInv
<1>8. LastInv'
  BY DEF IInv, LastInv, ZetaCovers, LatestKeyExists
<1> QED
  BY <1>2, <1>3, <1>4, <1>5, <1>6, <1>7, <1>8 DEF IInv

LEMMA EndZetaIInv == ASSUME NEW w \in Workers, IInv, EndZeta(w) PROVE IInv'
<1> USE ZipfianAssumption DEF EndZeta, At
<1>1. zetan' = Terms(itemCount[w]) /\ countForZeta = itemCount[w] /\ itemCount[w] \in Nat
  <2>1. /\ argument[w].st \in 0 .. itemCount[w]
        /\ argument[w].sum = Terms(argument[w].st)
        /\ countForZeta = itemCount[w]
    BY DEF IInv, SumInv
  <2>2. itemCount[w] \in Nat
    BY DEF IInv, TypesInv, ZipfianTypeOK, ProgramPoints
  <2> QED
    BY <2>1, <2>2, zetaStaticExtends
<1>2. lock = w
  BY DEF IInv, LockInv, Holding
<1>3. TypesInv'
  BY <1>1, TermsType DEF IInv, TypesInv, ZipfianTypeOK, ProgramPoints
<1>4. CountInv'
  BY DEF IInv, TypesInv, ZipfianTypeOK, ProgramPoints, CountInv
<1>5. LockInv'
  BY DEF IInv, TypesInv, ZipfianTypeOK, ProgramPoints, LockInv, Holding
<1>6. SumInv'
  BY <1>1, <1>2 DEF IInv, TypesInv, ZipfianTypeOK, ProgramPoints, SumInv, LockInv, Holding
<1>7. EtaInv'
  BY <1>2 DEF IInv, TypesInv, ZipfianTypeOK, ProgramPoints, EtaInv
<1>8. OverlapInv'
  BY <1>1, <1>2 DEF IInv, TypesInv, ZipfianTypeOK, ProgramPoints, OverlapInv
<1>9. LastInv'
  BY DEF IInv, LastInv, ZetaCovers, LatestKeyExists
<1> QED
  BY <1>3, <1>4, <1>5, <1>6, <1>7, <1>8, <1>9 DEF IInv

\* eta is computed from the sum that the holder has stored.
LEMMA SetEtaIInv == ASSUME NEW w \in Workers, IInv, SetEta(w) PROVE IInv'
<1> USE ZipfianAssumption DEF SetEta, At
<1>1. lock = w /\ \A v \in Workers : v # w => zpc[v] \notin {"sum", "eta"}
  BY DEF IInv, LockInv, Holding
<1>2. eta' = countForZeta
  <2>1. zetan = Terms(countForZeta)
    BY <1>1 DEF IInv, SumInv
  <2> QED
    BY <2>1, NumTermsOfTerms DEF IInv, TypesInv, ZipfianTypeOK
<1>3. TypesInv'
  BY <1>2 DEF IInv, TypesInv, ZipfianTypeOK, ProgramPoints
<1>4. CountInv'
  BY DEF IInv, TypesInv, ZipfianTypeOK, CountInv
<1>5. LockInv'
  BY DEF IInv, TypesInv, ZipfianTypeOK, LockInv, Holding
<1>6. SumInv' /\ EtaInv'
  BY <1>1, <1>2 DEF IInv, TypesInv, ZipfianTypeOK, SumInv, EtaInv
<1>7. OverlapInv'
  BY <1>1 DEF IInv, TypesInv, ZipfianTypeOK, OverlapInv
<1>8. LastInv'
  BY DEF IInv, LastInv, ZetaCovers, LatestKeyExists
<1> QED
  BY <1>3, <1>4, <1>5, <1>6, <1>7, <1>8 DEF IInv

LEMMA UnlockZetaIInv == ASSUME NEW w \in Workers, IInv, UnlockZeta(w) PROVE IInv'
<1> USE ZipfianAssumption DEF UnlockZeta, At
<1>1. TypesInv'
  BY DEF IInv, TypesInv, ZipfianTypeOK, ProgramPoints
<1>2. CountInv'
  BY DEF IInv, TypesInv, ZipfianTypeOK, ProgramPoints, CountInv
<1>3. LockInv'
  BY DEF IInv, TypesInv, ZipfianTypeOK, ProgramPoints, LockInv, Holding
<1>4. SumInv' /\ EtaInv'
  BY DEF IInv, TypesInv, ZipfianTypeOK, ProgramPoints, SumInv, EtaInv
<1>5. OverlapInv'
  BY DEF IInv, TypesInv, ZipfianTypeOK, ProgramPoints, OverlapInv
<1>6. LastInv'
  BY DEF IInv, LastInv, ZetaCovers, LatestKeyExists
<1> QED
  BY <1>1, <1>2, <1>3, <1>4, <1>5, <1>6 DEF IInv

\* What returning a key leaves of the invariant.
LEMMA ReturnKeyIInv ==
  ASSUME NEW w \in Workers, NEW k, NEW terms \in Nat, NEW from \in {"draw", "rank"}, IInv,
         At(w, from, "idle"), ReturnKey(w, k, terms), k \in Int,
         ~overlapped[w] => terms >= itemCount[w],
         recordCount > 3 \/ (recordCount = 3 /\ ~overlapped[w]) => k \in 0 .. itemCount[w]
  PROVE  IInv'
<1> USE ZipfianAssumption DEF At, ReturnKey
<1>1. itemCount[w] \in 0 .. MaxItems /\ recordCount \in Nat /\ overlapped[w] \in BOOLEAN
  <2>1. overlapped[w] \in BOOLEAN
    BY Zenon DEF IInv, TypesInv
  <2> QED
    BY <2>1 DEF IInv, TypesInv, ZipfianTypeOK
<1>2. /\ last'.key = k /\ last'.count = itemCount[w] /\ last'.covered = terms
      /\ last'.overlapped = overlapped[w]
  OBVIOUS
<1>3. TypesInv'
  <2>1. overlapped' \in [Workers -> BOOLEAN]
    BY Zenon DEF IInv, TypesInv
  <2>2. last'.overlapped \in BOOLEAN
    BY <1>1, <1>2
  <2> QED
    BY <1>1, <1>2, <2>1, <2>2 DEF IInv, TypesInv, ZipfianTypeOK, ProgramPoints, zetaVars
<1>4. CountInv'
  BY DEF IInv, TypesInv, ZipfianTypeOK, CountInv, zetaVars
<1>5. LockInv'
  BY DEF IInv, TypesInv, ZipfianTypeOK, LockInv, Holding, zetaVars
<1>6. SumInv' /\ EtaInv'
  <2>1. \A v \in Workers : zpc'[v] = "sum" =>
          v # w /\ zpc[v] = "sum" /\ argument'[v] = argument[v] /\ itemCount'[v] = itemCount[v]
    BY DEF IInv, TypesInv, ZipfianTypeOK
  <2>2. \A v \in Workers : zpc'[v] = zpc[v] \/ (v = w /\ zpc[v] \notin {"sum", "eta"})
    BY DEF IInv, TypesInv, ZipfianTypeOK
  <2> QED
    BY <2>1, <2>2 DEF IInv, SumInv, EtaInv, zetaVars
<1>7. OverlapInv'
  BY DEF IInv, TypesInv, ZipfianTypeOK, OverlapInv, zetaVars
<1>8. ZetaCovers'
  BY <1>1, <1>2 DEF ZetaCovers
<1>9. LatestKeyExists'
  <2>1. itemCount[w] <= items /\ items \in Nat
    BY DEF IInv, CountInv, TypesInv, ZipfianTypeOK
  <2> QED
    BY <1>1, <1>2, <2>1 DEF LatestKeyExists, zetaVars
<1> QED
  BY <1>3, <1>4, <1>5, <1>6, <1>7, <1>8, <1>9 DEF IInv, LastInv

\* A draw that nothing overlaps finds the lock free, the sum exact and all items in it.
LEMMA UnoverlappedDraw ==
  ASSUME NEW w \in Workers, IInv, zpc[w] \in {"draw", "rank"}, ~overlapped[w]
  PROVE  NumTerms(zetan) = countForZeta /\ eta = countForZeta /\ itemCount[w] <= countForZeta
<1>1. lock = Free
  BY DEF IInv, OverlapInv, LockInv, Holding
<1>2. \A v \in Workers : zpc[v] \notin {"sum", "eta"}
  BY <1>1, ZipfianAssumption DEF IInv, LockInv, Holding
<1> QED
  BY <1>2, NumTermsOfTerms
  DEF IInv, SumInv, EtaInv, OverlapInv, TypesInv, ZipfianTypeOK

LEMMA DrawIInv == ASSUME NEW w \in Workers, IInv, Draw(w) PROVE IInv'
<1> USE ZipfianAssumption
<1> DEFINE terms == NumTerms(zetan)
<1>1. /\ itemCount[w] \in 0 .. MaxItems /\ recordCount \in Nat /\ terms \in Nat
      /\ zpc[w] = "draw" /\ itemCount[w] \in Nat
  BY NumTermsNat DEF IInv, TypesInv, ZipfianTypeOK, Draw, At
<1>2. itemCount[w] >= recordCount - 1 /\ itemCount[w] <= items
  BY <1>1 DEF IInv, CountInv
<1>3. ~overlapped[w] => terms = countForZeta /\ itemCount[w] <= countForZeta /\ countForZeta \in Nat
  BY <1>1, UnoverlappedDraw DEF IInv, TypesInv, ZipfianTypeOK
<1>4. ASSUME NEW rank \in {0, 1}, At(w, "draw", "idle"),
             ReturnKey(w, KeyOfRank(itemCount[w], rank), terms)
      PROVE  IInv'
  <2>1. /\ KeyOfRank(itemCount[w], rank) \in Int
        /\ recordCount >= 3 => KeyOfRank(itemCount[w], rank) \in 0 .. itemCount[w]
    BY <1>1, <1>2, KeyInt
  <2> HIDE DEF terms
  <2> QED
    BY <1>1, <1>3, <1>4, <2>1, ReturnKeyIInv
<1>5. CASE /\ terms > 2
           /\ At(w, "draw", "rank")
           /\ covered' = [covered EXCEPT ![w] = terms]
           /\ UNCHANGED <<recordCount, items, zetaVars, itemCount, argument, overlapped, last>>
  <2> USE DEF At
  <2> HIDE DEF terms
  <2>1. TypesInv'
    BY <1>1, <1>5 DEF IInv, TypesInv, ZipfianTypeOK, ProgramPoints, zetaVars
  <2>2. CountInv'
    BY <1>5 DEF IInv, TypesInv, ZipfianTypeOK, CountInv, zetaVars
  <2>3. LockInv'
    BY <1>5 DEF IInv, TypesInv, ZipfianTypeOK, LockInv, Holding, zetaVars
  <2>4. SumInv' /\ EtaInv'
    BY <1>5 DEF IInv, TypesInv, ZipfianTypeOK, SumInv, EtaInv, zetaVars
  <2>5. OverlapInv'
    BY <1>1, <1>3, <1>5 DEF IInv, TypesInv, ZipfianTypeOK, OverlapInv, zetaVars
  <2>6. LastInv'
    BY <1>5 DEF IInv, LastInv, ZetaCovers, LatestKeyExists
  <2> QED
    BY <2>1, <2>2, <2>3, <2>4, <2>5, <2>6 DEF IInv
<1> QED
  BY <1>4, <1>5 DEF Draw

\* With three records the eta that such a draw reads is a number.
LEMMA DrawRankIInv == ASSUME NEW w \in Workers, IInv, DrawRank(w) PROVE IInv'
<1> USE ZipfianAssumption
<1>1. /\ itemCount[w] \in Nat /\ recordCount \in Nat /\ covered[w] \in Nat
      /\ zpc[w] = "rank" /\ eta \in Nat
  BY DEF IInv, TypesInv, ZipfianTypeOK, DrawRank, At
<1>2. PICK rank \in RankByEta(itemCount[w], eta) :
        ReturnKey(w, KeyOfRank(itemCount[w], rank), covered[w])
  BY DEF DrawRank
<1>3. ~overlapped[w] => /\ covered[w] = countForZeta /\ itemCount[w] <= countForZeta
                        /\ eta > 2 /\ countForZeta \in Nat
  BY <1>1, UnoverlappedDraw DEF IInv, TypesInv, ZipfianTypeOK, OverlapInv
<1>4. rank \in Int
  BY <1>1, RankInt DEF IInv, TypesInv
<1>5. recordCount > 3 \/ (recordCount = 3 /\ ~overlapped[w]) => rank \in 0 .. itemCount[w]
  BY <1>1, <1>3, RankBound DEF IInv, TypesInv
<1>6. /\ KeyOfRank(itemCount[w], rank) \in Int
      /\ rank \in 0 .. itemCount[w] =>
           KeyOfRank(itemCount[w], rank) \in 0 .. itemCount[w]
  BY <1>1, <1>4, KeyInt
<1>7. At(w, "rank", "idle")
  BY DEF DrawRank
<1> QED
  BY <1>1, <1>2, <1>3, <1>5, <1>6, <1>7, ReturnKeyIInv

LEMMA NextIInv == IInv /\ [Next]_vars => IInv'
<1> SUFFICES ASSUME IInv, [Next]_vars PROVE IInv'
  OBVIOUS
<1>1. CASE \E w \in Workers : LatestStep(w)
  BY <1>1, TestCountIInv, LockZetaIInv, BeginZetaIInv, EndZetaIInv, SetEtaIInv,
     UnlockZetaIInv, DrawIInv, DrawRankIInv DEF LatestStep, ZipfianStep
<1>2. CASE \E w \in Workers : CallNext(w)
  BY <1>2, CallNextIInv
<1>3. CASE MoreItems
  BY <1>3, MoreItemsIInv
<1>4. CASE UNCHANGED zipfianVars
  BY <1>4, StutterIInv
<1>5. UNCHANGED vars => UNCHANGED zipfianVars
  BY DEF vars
<1> QED
  BY <1>1, <1>2, <1>3, <1>4, <1>5 DEF Next, Finished
-----------------------------------------------------------------------------
(* The theorems. *)

LEMMA Invariance == Spec => []IInv
  BY InitIInv, NextIInv, PTL DEF Spec

\* Whenever the spin lock is free the sum has one term for each counted item, for any
\* number of workers that saw different counts; a draw that no other worker's update
\* overlaps uses a sum over all its items (pkg/generator/zipfian.go, next).
THEOREM ZetaExactHolds == Spec => []ZetaExact
<1>1. IInv => ZetaExact
  <2> SUFFICES ASSUME IInv PROVE ZetaExact
    OBVIOUS
  <2>1. lock = Free => zetan = Terms(countForZeta) /\ eta = countForZeta
    BY ZipfianAssumption DEF IInv, LockInv, SumInv, EtaInv, Holding
  <2> QED
    BY <2>1 DEF ZetaExact, IInv, TypesInv, LastInv
<1> QED
  BY <1>1, Invariance, PTL

\* From four records on, every key drawn from "latest" was loaded or acknowledged, and
\* with three every key of a draw that no update overlaps, for any number of workers
\* between whose loads zetan and eta are stored (pkg/generator/skewedlatest.go, Next).
THEOREM LatestKeyExistsHolds == Spec => []LatestKeyExists
<1>1. IInv => LatestKeyExists
  BY DEF IInv, LastInv
<1> QED
  BY <1>1, Invariance, PTL
-----------------------------------------------------------------------------
(* The other choosers: sums of weights, and what a dart or a number hits. *)

\* The order of the numbers is well-founded.
Smaller == {p \in Nat \X Nat : p[1] < p[2]}

LEMMA SmallerWellFounded == IsWellFoundedOn(Smaller, Nat)
<1> DEFINE R == OpToRel(<, Nat)
<1>1. IsWellFoundedOn(R, Nat)
  BY NatLessThanWellFounded
<1>2. Smaller \cap (Nat \X Nat) \subseteq R
  BY DEF OpToRel, Smaller
<1> QED
  BY <1>1, <1>2, IsWellFoundedOnSubrelation

\* A set of numbers has a least one.
LEMMA LeastNumber ==
  ASSUME NEW S \in SUBSET Nat, S # {}
  PROVE  Min(S) \in S /\ \A n \in S : Min(S) <= n
<1>1. PICK m \in S : \A n \in S : ~(<<n, m>> \in Smaller)
  BY SmallerWellFounded, WFMin
<1>2. ASSUME NEW n \in S PROVE m <= n
  <2>1. m \in Nat /\ n \in Nat
    OBVIOUS
  <2>2. ~(n < m)
    BY <1>1, <2>1 DEF Smaller
  <2> QED BY <2>1, <2>2
<1> QED
  BY <1>1, <1>2 DEF Min

LEMMA ExtremesOfTwo ==
  ASSUME NEW a \in Int, NEW b \in Int
  PROVE  /\ Min({a, b}) = IF a <= b THEN a ELSE b
         /\ Max({a, b}) = IF a <= b THEN b ELSE a
  BY DEF Min, Max

LEMMA ExtremeOfOne == \A a \in Int : Max({a}) = a
  BY DEF Max

\* The squares below the first n weights.
Squares(ws, n) == UNION {{i} \X (1 .. ws[i]) : i \in 1 .. n}

LEMMA SquareOf ==
  ASSUME NEW ws, NEW n
  PROVE  \A s : s \in Squares(ws, n) <=> \E i \in 1 .. n : s \in {i} \X (1 .. ws[i])
  BY DEF Squares

LEMMA SquaresFinite ==
  ASSUME NEW ws \in Seq(Nat), NEW n \in 0 .. Len(ws)
  PROVE  IsFiniteSet(Squares(ws, n))
<1> DEFINE Columns == {{i} \X (1 .. ws[i]) : i \in 1 .. n}
           f == [i \in 1 .. n |-> {i} \X (1 .. ws[i])]
<1>1. f \in Surjection(1 .. n, Columns)
  BY DEF Surjection
<1>2. IsFiniteSet(1 .. n)
  BY FS_Interval
<1>3. IsFiniteSet(Columns)
  <2> HIDE DEF Columns, f
  <2> QED BY <1>1, <1>2, FS_Surjection
<1>4. ASSUME NEW T \in Columns PROVE IsFiniteSet(T)
  <2>1. PICK i \in 1 .. n : T = {i} \X (1 .. ws[i])
    OBVIOUS
  <2>2. 1 \in Int /\ ws[i] \in Int
    BY <2>1
  <2>3. IsFiniteSet(1 .. ws[i])
    BY <2>2, FS_Interval
  <2>4. IsFiniteSet({i})
    BY FS_Singleton
  <2> QED BY <2>1, <2>3, <2>4, FS_Product
<1>5. IsFiniteSet(UNION Columns)
  <2> HIDE DEF Columns
  <2> QED BY <1>3, <1>4, FS_UNION
<1> QED BY <1>5 DEF Squares

LEMMA AreaType ==
  ASSUME NEW ws \in Seq(Nat), NEW n \in 0 .. Len(ws)
  PROVE  Area(ws, n) \in Nat
  BY SquaresFinite, FS_CardinalityType DEF Area, Squares

LEMMA AreaZero ==
  ASSUME NEW ws
  PROVE  Area(ws, 0) = 0
<1>1. UNION {{i} \X (1 .. ws[i]) : i \in 1 .. 0} = {}
  OBVIOUS
<1> QED BY <1>1, FS_EmptySet DEF Area

\* The sum of one weight more.
LEMMA AreaStep ==
  ASSUME NEW ws \in Seq(Nat), NEW n \in 1 .. Len(ws)
  PROVE  Area(ws, n) = Area(ws, n - 1) + ws[n]
<1> DEFINE A == Squares(ws, n - 1)
           B == {n} \X (1 .. ws[n])
<1>1. n - 1 \in 0 .. Len(ws) /\ ws[n] \in Nat
  OBVIOUS
<1>2. IsFiniteSet(A)
  BY <1>1, SquaresFinite
<1>3. IsFiniteSet(B) /\ Cardinality(B) = ws[n]
  <2>1. IsFiniteSet({n}) /\ Cardinality({n}) = 1
    BY FS_Singleton
  <2>2. IsFiniteSet(1 .. ws[n]) /\ Cardinality(1 .. ws[n]) = ws[n]
    <3> DEFINE k == ws[n]
    <3>1. 1 \in Int /\ k \in Int /\ k \in Nat
      BY <1>1
    <3> HIDE DEF k
    <3>2. IsFiniteSet(1 .. k) /\ Cardinality(1 .. k) = IF 1 > k THEN 0 ELSE k - 1 + 1
      BY <3>1, FS_Interval
    <3>3. Cardinality(1 .. k) = k
      BY <3>1, <3>2
    <3> QED BY <3>2, <3>3 DEF k
  <2>3. IsFiniteSet(B) /\ Cardinality(B) = 1 * ws[n]
    BY <2>1, <2>2, FS_Product
  <2> QED BY <1>1, <2>3
<1>4. A \cap B = {}
  <2> SUFFICES ASSUME NEW s \in A, s \in B PROVE FALSE
    OBVIOUS
  <2>1. PICK i \in 1 .. n - 1 : s \in {i} \X (1 .. ws[i])
    BY SquareOf
  <2>2. s[1] = i /\ s[1] = n
    BY <2>1
  <2> QED BY <2>2
<1>5. Squares(ws, n) = A \cup B
  <2>1. 1 .. n = (1 .. n - 1) \cup {n}
    OBVIOUS
  <2> QED BY <2>1 DEF Squares
<1>6. Cardinality(A) \in Nat
  BY <1>2, FS_CardinalityType
<1>7. Cardinality(A \cup B) = Cardinality(A) + ws[n]
  <2> HIDE DEF A, B
  <2>1. Cardinality(A \cup B) = Cardinality(A) + Cardinality(B) - Cardinality(A \cap B)
    BY <1>2, <1>3, FS_Union
  <2>2. Cardinality(A \cap B) = 0
    BY <1>4, FS_EmptySet
  <2> QED BY <1>1, <1>3, <1>6, <2>1, <2>2
<1> QED BY <1>5, <1>7 DEF Area, Squares

LEMMA AreaMonotone ==
  ASSUME NEW ws \in Seq(Nat), NEW m \in 0 .. Len(ws), NEW n \in m .. Len(ws)
  PROVE  Area(ws, m) <= Area(ws, n)
<1>1. Squares(ws, m) \subseteq Squares(ws, n)
  BY SquareOf DEF Squares
<1>2. n \in 0 .. Len(ws)
  OBVIOUS
<1>3. Cardinality(Squares(ws, m)) <= Cardinality(Squares(ws, n))
  BY <1>1, <1>2, SquaresFinite, FS_Subset
<1> QED BY <1>3 DEF Area, Squares

LEMMA ProductType == \A a, b \in Nat : a * b \in Nat
  BY Z3

LEMMA NoMoreThanTimes ==
  ASSUME NEW a \in Int, NEW b \in Int, NEW t \in Nat, a <= b
  PROVE  a * t <= b * t
  BY Z3

\* The least multiple of t that is not below n.
LEMMA Ceiling ==
  ASSUME NEW n \in Nat, NEW t \in Nat \ {0}
  PROVE  \E p \in Nat : /\ n <= p * t /\ p * t < n + t
                        /\ \A d \in Nat : n <= d * t <=> p <= d
<1> DEFINE S == {d \in Nat : n <= d * t}
<1>1. n \in S
  <2>1. n * 1 <= n * t
    BY Z3
  <2> QED BY <2>1
<1>2. PICK p \in S : \A d \in S : p <= d
  BY <1>1, LeastNumber
<1>3. p * t < n + t
  <2>1. CASE p = 0
    BY <2>1
  <2>2. CASE p > 0
    <3>1. p - 1 \in Nat /\ p - 1 \notin S
      BY <1>2, <2>2
    <3>2. (p - 1) * t < n
      <4>1. (p - 1) * t \in Int
        BY <1>2
      <4> QED BY <3>1, <4>1
    <3>3. (p - 1) * t = p * t - t
      BY <1>2, Z3
    <3> QED BY <3>2, <3>3, <1>2
  <2> QED BY <1>2, <2>1, <2>2
<1>4. ASSUME NEW d \in Nat PROVE n <= d * t <=> p <= d
  <2>1. p <= d => p * t <= d * t
    BY <1>2, NoMoreThanTimes
  <2>2. p * t \in Int /\ d * t \in Int
    BY <1>2
  <2> QED BY <1>2, <2>1, <2>2
<1> QED BY <1>2, <1>3, <1>4

\* The number of whole numbers from a to before b.
LEMMA CountBetween ==
  ASSUME NEW a \in Nat, NEW b \in Nat, a <= b
  PROVE  IsFiniteSet(a .. b - 1) /\ Cardinality(a .. b - 1) = b - a
<1>1. b - 1 \in Int
  OBVIOUS
<1>2. IsFiniteSet(a .. b - 1) /\ Cardinality(a .. b - 1) = IF a > b - 1 THEN 0 ELSE b - 1 - a + 1
  BY <1>1, FS_Interval
<1> QED BY <1>2

\* With a proportion the weights have a sum.
LEMMA AddedTotal ==
  ASSUME NEW ws \in Seq(Nat), NEW i \in Added(ws)
  PROVE  /\ i \in 1 .. Len(ws) /\ ws[i] \in Nat \ {0}
         /\ Area(ws, i - 1) \in Nat /\ Area(ws, i) \in Nat /\ Total(ws) \in Nat \ {0}
         /\ Area(ws, i) = Area(ws, i - 1) + ws[i] /\ Area(ws, i) <= Total(ws)
<1>1. i \in 1 .. Len(ws) /\ ws[i] \in Nat \ {0}
  BY DEF Added
<1>2. i - 1 \in 0 .. Len(ws) /\ i \in 0 .. Len(ws) /\ Len(ws) \in i .. Len(ws)
  BY <1>1
<1>3. Area(ws, i - 1) \in Nat /\ Area(ws, i) \in Nat /\ Total(ws) \in Nat
  BY <1>2, AreaType DEF Total
<1>4. Area(ws, i) = Area(ws, i - 1) + ws[i]
  BY <1>1, AreaStep
<1>5. Area(ws, i) <= Total(ws)
  BY <1>2, AreaMonotone DEF Total
<1> QED BY <1>1, <1>3, <1>4, <1>5

\* The sectors that end after a dart.
Sectors(ws, dart) == {i \in Added(ws) : dart * Total(ws) < Area(ws, i) * Darts}

LEMMA DiscreteNextSector ==
  ASSUME NEW ws \in Seq(Nat), NEW dart \in Nat
  PROVE  IF Sectors(ws, dart) = {} THEN DiscreteNext(ws, dart) = Panic
         ELSE /\ DiscreteNext(ws, dart) \in Sectors(ws, dart)
              /\ \A i \in Sectors(ws, dart) : DiscreteNext(ws, dart) <= i
<1>1. Sectors(ws, dart) \in SUBSET Nat
  BY DEF Sectors, Added
<1>2. Sectors(ws, dart) # {} => DiscreteNext(ws, dart) = Min(Sectors(ws, dart))
  BY DEF DiscreteNext, Sectors
<1>3. Sectors(ws, dart) = {} => DiscreteNext(ws, dart) = Panic
  BY DEF DiscreteNext, Sectors
<1> QED BY <1>1, <1>2, <1>3, LeastNumber

\* A dart before the end of the first n sectors is in one of them.
LEMMA DartBefore ==
  ASSUME NEW ws \in Seq(Nat), NEW dart \in Nat, NEW n \in 0 .. Len(ws),
         dart * Total(ws) < Area(ws, n) * Darts
  PROVE  \E i \in Sectors(ws, dart) : i <= n
<1> USE ChoosersAssumption
<1> DEFINE S == {i \in 0 .. n : dart * Total(ws) < Area(ws, i) * Darts}
<1>1. S \in SUBSET Nat /\ n \in S
  OBVIOUS
<1>2. PICK i \in S : \A j \in S : i <= j
  BY <1>1, LeastNumber
<1>3. Total(ws) \in Nat /\ Area(ws, 0) = 0
  BY AreaType, AreaZero DEF Total
<1>4. dart * Total(ws) \in Nat
  BY <1>3
<1>5. i # 0
  <2>1. ASSUME i = 0 PROVE FALSE
    <3>1. dart * Total(ws) < 0 * Darts
      BY <1>3, <2>1, <1>2
    <3> QED BY <1>4, <3>1
  <2> QED BY <2>1
<1>6. i \in 1 .. Len(ws) /\ i - 1 \in 0 .. n /\ i - 1 \in 0 .. Len(ws)
  BY <1>2, <1>5
<1>7. i - 1 \notin S
  BY <1>2, <1>6
<1>8. ws[i] > 0
  <2>1. ws[i] \in Nat /\ Area(ws, i) = Area(ws, i - 1) + ws[i]
    <3>1. ws[i] \in Nat
      BY <1>6
    <3>2. Area(ws, i) = Area(ws, i - 1) + ws[i]
      BY ONLY ws \in Seq(Nat), <1>6, AreaStep
    <3> QED BY <3>1, <3>2
  <2>2. Area(ws, i) \in Nat /\ Area(ws, i - 1) \in Nat
    <3>1. i \in 0 .. Len(ws)
      BY <1>6
    <3>2. Area(ws, i) \in Nat
      BY <3>1, AreaType
    <3>3. Area(ws, i - 1) \in Nat
      BY <1>6, AreaType
    <3> QED BY <3>2, <3>3
  <2>3. ASSUME ws[i] = 0 PROVE FALSE
    <3>1. Area(ws, i) = Area(ws, i - 1)
      BY <2>1, <2>2, <2>3
    <3> QED BY <1>2, <1>6, <1>7, <3>1
  <2> QED BY <2>1, <2>3
<1>9. i \in Sectors(ws, dart)
  BY <1>2, <1>6, <1>8 DEF Sectors, Added
<1> QED BY <1>2, <1>9

\* Discrete.Next finds a sector for every dart.
LEMMA DiscreteNextFinds ==
  ASSUME NEW ws \in Seq(Nat), Added(ws) # {}, NEW dart \in 0 .. Darts - 1
  PROVE  DiscreteNext(ws, dart) \in Added(ws)
<1>1. PICK i \in Added(ws) : TRUE
  OBVIOUS
<1>2. Total(ws) \in Nat \ {0} /\ Darts \in Nat /\ dart \in Nat /\ dart < Darts
  BY <1>1, AddedTotal, ChoosersAssumption
<1>3. dart * Total(ws) < Darts * Total(ws)
  <2>1. (Darts - dart) * Total(ws) > 0
    BY <1>2, Z3
  <2> QED BY <1>2, <2>1, Z3
<1>4. Darts * Total(ws) = Area(ws, Len(ws)) * Darts
  BY <1>2 DEF Total
<1>5. Sectors(ws, dart) # {}
  BY <1>2, <1>3, <1>4, DartBefore
<1>6. DiscreteNext(ws, dart) \in Sectors(ws, dart)
  BY <1>2, <1>5, DiscreteNextSector
<1> QED BY <1>6 DEF Sectors

LEMMA DiscreteNextInt ==
  ASSUME NEW ws \in Seq(Nat), NEW dart \in Nat
  PROVE  DiscreteNext(ws, dart) \in Int
<1>1. CASE Sectors(ws, dart) = {}
  BY <1>1 DEF DiscreteNext, Sectors, Panic
<1>2. CASE Sectors(ws, dart) # {}
  <2>1. DiscreteNext(ws, dart) \in Added(ws)
    BY <1>2, DiscreteNextSector DEF Sectors
  <2> QED BY <2>1, AddedTotal
<1> QED BY <1>1, <1>2

\* The darts of an operation are those from the end of the sector before.
LEMMA DartsOf ==
  ASSUME NEW ws \in Seq(Nat), NEW i \in Added(ws), NEW dart \in Nat
  PROVE  DiscreteNext(ws, dart) = i <=>
           /\ Area(ws, i - 1) * Darts <= dart * Total(ws)
           /\ dart * Total(ws) < Area(ws, i) * Darts
<1> DEFINE d == dart * Total(ws)
<1>1. /\ i \in 1 .. Len(ws) /\ i - 1 \in 0 .. Len(ws) /\ Total(ws) \in Nat
      /\ Area(ws, i - 1) \in Nat /\ Darts \in Nat
  BY AddedTotal, ChoosersAssumption
<1>2. d \in Nat /\ Area(ws, i - 1) * Darts \in Nat
  BY <1>1
<1>3. ASSUME DiscreteNext(ws, dart) = i
      PROVE  Area(ws, i - 1) * Darts <= d /\ d < Area(ws, i) * Darts
  <2>1. Sectors(ws, dart) # {}
    BY <1>1, <1>3, DiscreteNextSector DEF Panic
  <2>2. i \in Sectors(ws, dart) /\ \A j \in Sectors(ws, dart) : i <= j
    BY <1>3, <2>1, DiscreteNextSector
  <2>3. ~(d < Area(ws, i - 1) * Darts)
    <3> SUFFICES ASSUME d < Area(ws, i - 1) * Darts PROVE FALSE
      OBVIOUS
    <3>1. PICK j \in Sectors(ws, dart) : j <= i - 1
      BY <1>1, DartBefore
    <3>2. j \in Nat
      BY <3>1 DEF Sectors, Added
    <3> QED BY <1>1, <2>2, <3>1, <3>2
  <2> QED BY <1>2, <2>2, <2>3 DEF Sectors
<1>4. ASSUME Area(ws, i - 1) * Darts <= d, d < Area(ws, i) * Darts
      PROVE  DiscreteNext(ws, dart) = i
  <2>1. i \in Sectors(ws, dart)
    BY <1>4 DEF Sectors
  <2>2. /\ DiscreteNext(ws, dart) \in Sectors(ws, dart)
        /\ \A j \in Sectors(ws, dart) : DiscreteNext(ws, dart) <= j
    BY <2>1, DiscreteNextSector
  <2>3. PICK j \in Sectors(ws, dart) : j = DiscreteNext(ws, dart)
    BY <2>2
  <2>4. j \in 1 .. Len(ws) /\ j <= i /\ d < Area(ws, j) * Darts
    BY <2>1, <2>2, <2>3 DEF Sectors, Added
  <2>5. ASSUME j < i PROVE FALSE
    <3>1. j \in 0 .. Len(ws) /\ i - 1 \in j .. Len(ws)
      BY <1>1, <2>4, <2>5
    <3>2. Area(ws, j) <= Area(ws, i - 1) /\ Area(ws, j) \in Nat
      BY <3>1, AreaMonotone, AreaType
    <3>3. Area(ws, j) * Darts <= Area(ws, i - 1) * Darts
      BY <1>1, <3>2, NoMoreThanTimes
    <3>4. Area(ws, j) * Darts \in Nat
      BY <1>1, <3>2
    <3> QED BY <1>2, <1>4, <2>4, <3>3, <3>4
  <2> QED BY <1>1, <2>3, <2>4, <2>5
<1> QED BY <1>3, <1>4

\* Each operation gets its share of the darts, up to one.
LEMMA DiscreteShare ==
  ASSUME NEW ws \in Seq(Nat), NEW i \in Added(ws)
  PROVE  LET off == Cardinality({d \in 0 .. Darts - 1 : DiscreteNext(ws, d) = i})
                      * Total(ws) - ws[i] * Darts IN
         -Total(ws) < off /\ off < Total(ws)
<1> DEFINE t == Total(ws)
           D == {d \in 0 .. Darts - 1 : DiscreteNext(ws, d) = i}
           lo == Area(ws, i - 1) * Darts
           hi == Area(ws, i) * Darts
<1>1. /\ t \in Nat \ {0} /\ Darts \in Nat \ {0} /\ ws[i] \in Nat
      /\ Area(ws, i - 1) \in Nat /\ Area(ws, i) \in Nat
      /\ Area(ws, i) = Area(ws, i - 1) + ws[i] /\ Area(ws, i) <= t
  BY AddedTotal, ChoosersAssumption
<1>2. /\ lo \in Nat /\ hi \in Nat /\ ws[i] * Darts \in Nat
      /\ hi = lo + ws[i] * Darts /\ hi <= t * Darts
  <2>1. hi <= t * Darts
    BY <1>1, NoMoreThanTimes
  <2>2. (Area(ws, i - 1) + ws[i]) * Darts = lo + ws[i] * Darts
    BY <1>1, Z3
  <2>3. hi = lo + ws[i] * Darts
    BY <1>1, <2>2
  <2>4. lo \in Nat /\ hi \in Nat /\ ws[i] * Darts \in Nat
    BY <1>1, ProductType
  <2> QED BY <2>1, <2>3, <2>4
<1>3. \A d \in Nat : DiscreteNext(ws, d) = i <=> lo <= d * t /\ d * t < hi
  BY DartsOf
<1> HIDE DEF lo, hi, t
<1>4. PICK p \in Nat : lo <= p * t /\ p * t < lo + t /\ \A d \in Nat : lo <= d * t <=> p <= d
  BY <1>1, <1>2, Ceiling
<1>5. PICK q \in Nat : hi <= q * t /\ q * t < hi + t /\ \A d \in Nat : hi <= d * t <=> q <= d
  BY <1>1, <1>2, Ceiling
<1>6. p <= q
  <2>1. q * t \in Nat
    BY <1>1
  <2> QED BY <1>2, <1>4, <1>5, <2>1
<1>7. q <= Darts
  <2>1. Darts * t = t * Darts
    BY <1>1
  <2> QED BY <1>1, <1>2, <1>5, <2>1
<1>8. D = p .. q - 1
  <2>1. ASSUME NEW d \in Nat PROVE lo <= d * t /\ d * t < hi <=> p <= d /\ d < q
    <3>1. d * t \in Nat
      BY <1>1
    <3> QED BY <1>2, <1>4, <1>5, <3>1
  <2>2. \A d \in Nat : DiscreteNext(ws, d) = i <=> p <= d /\ d < q
    BY <1>3, <2>1
  <2>3. \A d : d \in 0 .. Darts - 1 /\ DiscreteNext(ws, d) = i <=> d \in p .. q - 1
    BY <1>1, <1>7, <2>2
  <2> QED BY <2>3
<1>9. Cardinality(D) = q - p
  BY <1>6, <1>8, CountBetween
<1>10. (q - p) * t = q * t - p * t /\ q * t \in Nat /\ p * t \in Nat
  BY <1>1, Z3
<1>11. -t < (q - p) * t - ws[i] * Darts /\ (q - p) * t - ws[i] * Darts < t
  <2> DEFINE a == p * t
             b == q * t
             c == (q - p) * t
             e == ws[i] * Darts
  <2>1. /\ t \in Nat /\ lo \in Nat /\ hi = lo + e /\ e \in Nat
        /\ a \in Nat /\ b \in Nat /\ c = b - a
        /\ lo <= a /\ a < lo + t /\ hi <= b /\ b < hi + t
    BY <1>1, <1>2, <1>4, <1>5, <1>10
  <2> HIDE DEF a, b, c, e
  <2>2. -t < c - e /\ c - e < t
    BY <2>1
  <2> QED BY <2>2 DEF c, e
<1> QED BY <1>9, <1>11 DEF t

\* The buckets but the last that reach n.
Reaching(bs, n) == {i \in 1 .. Len(bs) - 1 : n - Area(bs, i) <= 0}

LEMMA HistogramNextBucket ==
  ASSUME NEW bs \in Seq(Nat), bs # <<>>, NEW n \in Nat
  PROVE  /\ HistogramNext(bs, n) \in 0 .. Len(bs) - 1
         /\ Reaching(bs, n) = {} => HistogramNext(bs, n) = Len(bs) - 1
         /\ Reaching(bs, n) # {} =>
              /\ HistogramNext(bs, n) \in Reaching(bs, n)
              /\ \A i \in Reaching(bs, n) : HistogramNext(bs, n) <= i
<1>1. Reaching(bs, n) \in SUBSET Nat /\ Len(bs) \in Nat \ {0}
  BY DEF Reaching
<1>2. Reaching(bs, n) # {} => HistogramNext(bs, n) = Min(Reaching(bs, n))
  BY DEF HistogramNext, Reaching
<1>3. Reaching(bs, n) = {} => HistogramNext(bs, n) = Len(bs) - 1
  BY DEF HistogramNext, Reaching
<1>4. Reaching(bs, n) # {} =>
        Min(Reaching(bs, n)) \in Reaching(bs, n) /\ \A i \in Reaching(bs, n) : Min(Reaching(bs, n)) <= i
  BY <1>1, LeastNumber
<1>5. \A i \in Reaching(bs, n) : i \in 0 .. Len(bs) - 1
  BY DEF Reaching
<1> QED BY <1>1, <1>2, <1>3, <1>4, <1>5

\* The numbers of a bucket: those after the bucket before, up to its own end, and for
\* the last but one to the end of all.
LEMMA NumbersOf ==
  ASSUME NEW bs \in Seq(Nat), bs # <<>>, NEW i \in 1 .. Len(bs) - 1, NEW n \in Nat
  PROVE  HistogramNext(bs, n) = i <=>
           /\ i = 1 \/ Area(bs, i - 1) < n
           /\ i = Len(bs) - 1 \/ n <= Area(bs, i)
<1> DEFINE h == HistogramNext(bs, n)
           R == Reaching(bs, n)
<1>1. /\ h \in 0 .. Len(bs) - 1
      /\ R = {} => h = Len(bs) - 1
      /\ R # {} => h \in R /\ \A j \in R : h <= j
  <2> HIDE DEF h, R
  <2> QED BY HistogramNextBucket DEF h, R
<1>2. \A j \in 1 .. Len(bs) - 1 : Area(bs, j) \in Nat /\ (j \in R <=> n <= Area(bs, j))
  <2> SUFFICES ASSUME NEW j \in 1 .. Len(bs) - 1
               PROVE  Area(bs, j) \in Nat /\ (j \in R <=> n <= Area(bs, j))
    OBVIOUS
  <2>1. j \in 0 .. Len(bs)
    OBVIOUS
  <2>2. Area(bs, j) \in Nat
    BY <2>1, AreaType
  <2> QED BY <2>2 DEF Reaching
<1>3. R \subseteq 1 .. Len(bs) - 1
  BY DEF Reaching
<1> HIDE DEF h, R
<1>4. ASSUME h = i
      PROVE  (i = 1 \/ Area(bs, i - 1) < n) /\ (i = Len(bs) - 1 \/ n <= Area(bs, i))
  <2>1. CASE R = {}
    <3>1. i = Len(bs) - 1
      BY <1>1, <1>4, <2>1
    <3>2. ASSUME i # 1 PROVE Area(bs, i - 1) < n
      <4>1. i - 1 \in 1 .. Len(bs) - 1
        BY <3>2
      <4> QED BY <1>2, <2>1, <4>1
    <3> QED BY <3>1, <3>2
  <2>2. CASE R # {}
    <3>1. i \in R /\ \A j \in R : i <= j
      BY <1>1, <1>4, <2>2
    <3>2. ASSUME i # 1 PROVE Area(bs, i - 1) < n
      <4>1. i - 1 \in 1 .. Len(bs) - 1 /\ i - 1 \notin R
        BY <3>1, <3>2
      <4> QED BY <1>2, <4>1
    <3> QED BY <1>2, <3>1, <3>2
  <2> QED BY <2>1, <2>2
<1>5. ASSUME i = 1 \/ Area(bs, i - 1) < n, i = Len(bs) - 1 \/ n <= Area(bs, i)
      PROVE  h = i
  <2>1. \A j \in R : i <= j
    <3> SUFFICES ASSUME NEW j \in R, j < i PROVE FALSE
      BY <1>3
    <3>1. j \in 1 .. Len(bs) - 1 /\ i # 1
      BY <1>3
    <3>2. j \in 0 .. Len(bs) /\ i - 1 \in j .. Len(bs) /\ i - 1 \in 0 .. Len(bs)
      BY <3>1
    <3>3. Area(bs, j) <= Area(bs, i - 1)
      BY <3>2, AreaMonotone
    <3>4. Area(bs, j) \in Nat /\ Area(bs, i - 1) \in Nat
      BY <3>2, AreaType
    <3> QED BY <1>2, <1>5, <3>1, <3>3, <3>4
  <2>2. CASE R = {}
    <3>1. i = Len(bs) - 1
      BY <1>2, <1>5, <2>2
    <3> QED BY <1>1, <2>2, <3>1
  <2>3. CASE R # {}
    <3>1. h \in R /\ h \in 1 .. Len(bs) - 1 /\ i <= h
      BY <1>1, <1>3, <2>1, <2>3
    <3>2. CASE i = Len(bs) - 1
      BY <3>1, <3>2
    <3>3. CASE n <= Area(bs, i)
      <4>1. i \in R
        BY <1>2, <3>3
      <4>2. h <= i
        BY <1>1, <2>3, <4>1
      <4> QED BY <3>1, <4>2
    <3> QED BY <1>5, <3>2, <3>3
  <2> QED BY <2>2, <2>3
<1> QED BY <1>4, <1>5 DEF h

\* Each length of a histogram is drawn as often as its bucket counts, up to one draw.
LEMMA HistogramShare ==
  ASSUME NEW bs \in Seq(Nat), Total(bs) > 0, NEW i \in 1 .. Len(bs) - 1
  PROVE  Cardinality({n \in Int63n(Total(bs)) : HistogramNext(bs, n) = i})
           - (IF i = Len(bs) - 1 THEN bs[i] + bs[i + 1] ELSE bs[i]) \in -1 .. 1
<1> DEFINE t == Total(bs)
           D == {n \in Int63n(t) : HistogramNext(bs, n) = i}
           a == Area(bs, i - 1)
           e == Area(bs, i)
           c == IF i = Len(bs) - 1 THEN bs[i] + bs[i + 1] ELSE bs[i]
           lo == IF i = 1 THEN 0 ELSE a + 1
           hi == IF i = Len(bs) - 1 \/ e >= t THEN t - 1 ELSE e
<1>1. Len(bs) \in Nat /\ i \in 1 .. Len(bs) /\ i + 1 \in 1 .. Len(bs) /\ bs # <<>>
  OBVIOUS
<1>2. t \in Nat \ {0} /\ a \in Nat /\ e \in Nat /\ e = a + bs[i] /\ bs[i] \in Nat /\ bs[i + 1] \in Nat
  <2>1. i - 1 \in 0 .. Len(bs) /\ i \in 0 .. Len(bs) /\ Len(bs) \in 0 .. Len(bs)
    BY <1>1
  <2>2. t \in Nat /\ a \in Nat /\ e \in Nat
    BY <2>1, AreaType DEF Total
  <2>3. e = a + bs[i]
    BY <1>1, AreaStep
  <2> QED BY <1>1, <2>2, <2>3
<1>3. e <= t /\ (i = Len(bs) - 1 => t = e + bs[i + 1]) /\ (i = 1 => a = 0)
  <2>1. i \in 0 .. Len(bs) /\ Len(bs) \in i .. Len(bs)
    BY <1>1
  <2>2. e <= t
    BY <2>1, AreaMonotone DEF Total
  <2>3. ASSUME i = Len(bs) - 1 PROVE t = e + bs[i + 1]
    <3>1. Area(bs, i + 1) = Area(bs, (i + 1) - 1) + bs[i + 1]
      BY <1>1, AreaStep
    <3>2. (i + 1) - 1 = i /\ i + 1 = Len(bs)
      BY <1>1, <2>3
    <3> QED BY <3>1, <3>2 DEF Total
  <2>4. i = 1 => a = 0
    BY AreaZero
  <2> QED BY <2>2, <2>3, <2>4
<1>4. \A n \in Nat : HistogramNext(bs, n) = i <=>
        (i = 1 \/ a < n) /\ (i = Len(bs) - 1 \/ n <= e)
  BY <1>1, NumbersOf
<1>5. Int63n(t) = 0 .. t - 1
  BY <1>2 DEF Int63n
<1> HIDE DEF t, a, e
<1>6. D = lo .. hi
  <2>1. ASSUME NEW n \in 0 .. t - 1
        PROVE  (i = 1 \/ a < n) /\ (i = Len(bs) - 1 \/ n <= e) <=> n \in lo .. hi
    <3>1. lo <= n <=> i = 1 \/ a < n
      BY <1>2, <1>3
    <3>2. n <= hi <=> i = Len(bs) - 1 \/ n <= e
      BY <1>2, <1>3
    <3>3. lo \in Int /\ hi \in Int /\ n \in Int
      BY <1>2
    <3> HIDE DEF lo, hi
    <3> QED BY <3>1, <3>2, <3>3
  <2>2. ASSUME NEW n \in lo .. hi PROVE n \in 0 .. t - 1
    BY <1>2, <1>3
  <2>3. ASSUME NEW n \in 0 .. t - 1 PROVE HistogramNext(bs, n) = i <=> n \in lo .. hi
    <3> HIDE DEF lo, hi
    <3>1. n \in Nat
      BY <1>2
    <3>2. HistogramNext(bs, n) = i <=> (i = 1 \/ a < n) /\ (i = Len(bs) - 1 \/ n <= e)
      BY <1>4, <3>1
    <3> QED BY <2>1, <3>2, Zenon
  <2> HIDE DEF lo, hi
  <2> QED BY <1>5, <2>2, <2>3
<1>7. lo \in Int /\ hi \in Int
  BY <1>2
<1>8. Cardinality(lo .. hi) = IF lo > hi THEN 0 ELSE hi - lo + 1
  <2> HIDE DEF lo, hi
  <2> QED BY <1>7, FS_Interval
<1>9. (IF lo > hi THEN 0 ELSE hi - lo + 1) - c \in -1 .. 1
  <2> DEFINE x == bs[i]
             y == bs[i + 1]
             z == Len(bs) - 1
  <2>1. x \in Nat /\ y \in Nat /\ z \in Int /\ i \in Nat
    BY <1>1, <1>2
  <2>2. e = a + x /\ (i = z => t = e + y)
    BY <1>2, <1>3
  <2> HIDE DEF x, y, z
  <2>3. CASE i = z
    <3>1. hi = t - 1 /\ c = x + y
      BY <2>3 DEF x, y, z
    <3> HIDE DEF hi, c
    <3>2. lo = (IF i = 1 THEN 0 ELSE a + 1) /\ (i = 1 => a = 0)
      BY <1>3
    <3>3. t \in Nat /\ a \in Nat /\ t = a + x + y
      BY <1>2, <2>1, <2>2, <2>3
    <3> HIDE DEF lo
    <3> QED BY <2>1, <3>1, <3>2, <3>3
  <2>4. CASE i # z
    <3>1. hi = (IF e >= t THEN t - 1 ELSE e) /\ c = x
      BY <2>4 DEF x, y, z
    <3> HIDE DEF hi, c
    <3>2. lo = (IF i = 1 THEN 0 ELSE a + 1) /\ (i = 1 => a = 0) /\ e <= t
      BY <1>3
    <3>3. t \in Nat /\ a \in Nat /\ e = a + x
      BY <1>2, <2>2
    <3> HIDE DEF lo
    <3>4. CASE e >= t
      BY <2>1, <3>1, <3>2, <3>3, <3>4
    <3>5. CASE ~(e >= t)
      BY <2>1, <3>1, <3>2, <3>3, <3>5
    <3> QED BY <3>4, <3>5
  <2> QED BY <2>3, <2>4
<1> QED BY <1>6, <1>8, <1>9 DEF t

\* Dividing by d.
LEMMA Division ==
  ASSUME NEW n \in Nat, NEW d \in Nat \ {0}
  PROVE  /\ n \div d \in Nat /\ n % d \in 0 .. d - 1
         /\ n = (n \div d) * d + (n % d)
<1>1. n \div d \in Nat /\ n % d \in 0 .. d - 1
  BY Z3
<1>2. n = d * (n \div d) + (n % d)
  OBVIOUS
<1>3. d * (n \div d) = (n \div d) * d
  BY <1>1
<1> QED BY <1>1, <1>2, <1>3

LEMMA DivisionUnique ==
  ASSUME NEW d \in Nat \ {0}, NEW q \in Nat, NEW r \in 0 .. d - 1
  PROVE  (q * d + r) \div d = q /\ (q * d + r) % d = r
<1> DEFINE n == q * d + r
           p == n \div d
           s == n % d
<1>1. n \in Nat
  BY ProductType
<1>2. p \in Nat /\ s \in 0 .. d - 1 /\ n = p * d + s
  BY <1>1, Division
<1>3. p * d + s = q * d + r
  BY <1>2
<1> HIDE DEF n, p, s
<1>4. p * d \in Nat /\ q * d \in Nat
  BY <1>2, ProductType
<1>5. ASSUME p < q PROVE FALSE
  <2>1. (p + 1) * d <= q * d
    BY <1>2, <1>5, NoMoreThanTimes
  <2>2. (p + 1) * d = p * d + d
    BY <1>2, Z3
  <2> QED BY <1>2, <1>3, <1>4, <2>1, <2>2
<1>6. ASSUME q < p PROVE FALSE
  <2>1. (q + 1) * d <= p * d
    BY <1>2, <1>6, NoMoreThanTimes
  <2>2. (q + 1) * d = q * d + d
    BY <1>2, Z3
  <2> QED BY <1>2, <1>3, <1>4, <2>1, <2>2
<1>7. p = q
  BY <1>2, <1>5, <1>6
<1>8. s = r
  BY <1>2, <1>3, <1>4, <1>7
<1> QED BY <1>7, <1>8 DEF n, p, s

-----------------------------------------------------------------------------
(* The generators. *)

LEMMA Bounds ==
  ASSUME conf \in Configs
  PROVE  /\ conf.start \in Nat /\ conf.count \in Nat /\ Lower \in Nat
         /\ Upper = Lower + conf.count - 1 /\ Upper \in Int /\ Interval = conf.count
  BY ConfigsAssumption DEF Lower, Upper, Interval

LEMMA UniformKeys ==
  ASSUME conf \in Configs, NEW k \in UniformNext
  PROVE  IF conf.count = 0 THEN k = Panic ELSE k \in Lower .. Upper
<1>1. CASE conf.count = 0
  BY <1>1, Bounds DEF UniformNext
<1>2. CASE conf.count # 0
  <2>1. PICK i \in Int63n(Interval) : k = i + Lower
    BY <1>2, Bounds DEF UniformNext
  <2>2. i \in 0 .. Interval - 1
    BY <1>2, <2>1, Bounds DEF Int63n
  <2> QED BY <1>2, <2>1, <2>2, Bounds
<1> QED BY <1>1, <1>2

LEMMA SequentialKeys ==
  ASSUME conf \in Configs, counter \in Nat, NEW k \in SequentialNext
  PROVE  IF conf.count = 0 THEN k = Panic
         ELSE k = Lower + ((counter + 1) % conf.count) /\ k \in Lower .. Upper
<1>1. CASE conf.count = 0
  BY <1>1, Bounds DEF SequentialNext
<1>2. CASE conf.count # 0
  <2>1. k = Lower + ((counter + 1) % conf.count)
    BY <1>2, Bounds DEF SequentialNext
  <2>2. (counter + 1) % conf.count \in 0 .. conf.count - 1
    <3> DEFINE c == conf.count
    <3>1. c \in Nat \ {0} /\ counter + 1 \in Nat
      BY <1>2, Bounds
    <3> HIDE DEF c
    <3>2. (counter + 1) % c \in 0 .. c - 1
      BY <3>1, Division
    <3> QED BY <3>2 DEF c
  <2> QED BY <1>2, <2>1, <2>2, Bounds
<1> QED BY <1>1, <1>2

\* A fraction of n is not more than n.
LEMMA Share ==
  ASSUME NEW n \in Nat, NEW f \in 0 .. Darts
  PROVE  (n * f) \div Darts \in 0 .. n
<1> USE ChoosersAssumption
<1> DEFINE q == (n * f) \div Darts
           r == (n * f) % Darts
<1>1. n * f \in Nat /\ f \in Nat
  BY ProductType
<1>2. q \in Nat /\ r \in 0 .. Darts - 1 /\ n * f = q * Darts + r
  BY <1>1, Division
<1>3. n * f <= n * Darts
  <2>1. f * n <= Darts * n
    BY NoMoreThanTimes
  <2>2. f * n = n * f /\ Darts * n = n * Darts
    BY <1>1
  <2> QED BY <2>1, <2>2
<1> HIDE DEF q, r
<1>4. ASSUME q > n PROVE FALSE
  <2>1. (n + 1) * Darts <= q * Darts
    BY <1>2, <1>4, NoMoreThanTimes
  <2>2. (n + 1) * Darts = n * Darts + Darts
    BY Z3
  <2>3. n * Darts \in Nat /\ q * Darts \in Nat
    BY <1>2, ProductType
  <2> QED BY <1>1, <1>2, <1>3, <2>1, <2>2, <2>3
<1>5. q \in 0 .. n
  BY <1>2, <1>4
<1> QED BY <1>5 DEF q

LEMMA HotspotSets ==
  ASSUME conf \in Configs, conf.dist = "hotspot"
  PROVE  /\ Fraction(conf.hotops) \in 0 .. Darts
         /\ HotLower \in Int /\ HotspotInterval \in Nat
         /\ HotInterval \in 0 .. HotspotInterval
         /\ ColdInterval = HotspotInterval - HotInterval
         /\ conf.count > 0 => HotLower = Lower /\ HotspotInterval = conf.count
<1>1. Fraction(conf.hotops) \in 0 .. Darts /\ Fraction(conf.hotset) \in 0 .. Darts
  BY ConfigsAssumption, ChoosersAssumption DEF Fraction
<1>2. Lower \in Int /\ Upper \in Int
  BY Bounds
<1>3. /\ HotLower = IF Lower <= Upper THEN Lower ELSE Upper
      /\ Max({Lower, Upper}) = IF Lower <= Upper THEN Upper ELSE Lower
  BY <1>2, ExtremesOfTwo DEF HotLower
<1>4. /\ HotLower \in Int /\ HotspotInterval \in Nat
      /\ conf.count > 0 => HotLower = Lower /\ HotspotInterval = conf.count
  BY <1>3, Bounds DEF HotspotInterval
<1>5. HotInterval \in 0 .. HotspotInterval
  BY <1>1, <1>4, Share DEF HotInterval
<1> QED BY <1>1, <1>4, <1>5 DEF ColdInterval

LEMMA HotspotKeys ==
  ASSUME conf \in Configs, conf.dist = "hotspot", NEW k \in HotspotNext
  PROVE  /\ k \in Int
         /\ \/ conf.count = 0
            \/ k \in Lower .. Upper
            \/ k = Panic /\ HotInterval = 0 /\ Fraction(conf.hotops) > 0
            \/ k = Panic /\ ColdInterval = 0 /\ Fraction(conf.hotops) < Darts
<1>1. PICK dart \in 0 .. Darts - 1 :
        k \in IF dart < Fraction(conf.hotops) THEN HotKeys ELSE ColdKeys
  BY DEF HotspotNext
<1>2. dart \in Nat /\ dart < Darts /\ Darts \in Nat
  BY <1>1, ChoosersAssumption
<1>3. CASE dart < Fraction(conf.hotops)
  <2>1. k \in HotKeys
    BY <1>1, <1>3
  <2>2. CASE HotInterval = 0
    BY <1>2, <1>3, <2>1, <2>2, HotspotSets DEF HotKeys, Panic
  <2>3. CASE HotInterval # 0
    <3>1. PICK i \in Int63n(HotInterval) : k = HotLower + i
      BY <2>1, <2>3 DEF HotKeys
    <3>2. i \in 0 .. HotInterval - 1
      BY <2>3, <3>1, HotspotSets DEF Int63n
    <3> QED BY <3>1, <3>2, HotspotSets, Bounds
  <2> QED BY <2>2, <2>3
<1>4. CASE ~(dart < Fraction(conf.hotops))
  <2>1. k \in ColdKeys
    BY <1>1, <1>4
  <2>2. CASE ColdInterval = 0
    BY <1>2, <1>4, <2>1, <2>2, HotspotSets DEF ColdKeys, Panic
  <2>3. CASE ColdInterval # 0
    <3>1. PICK i \in Int63n(ColdInterval) : k = HotLower + HotInterval + i
      BY <2>1, <2>3 DEF ColdKeys
    <3>2. i \in 0 .. ColdInterval - 1
      BY <2>3, <3>1, HotspotSets DEF Int63n
    <3> QED BY <3>1, <3>2, HotspotSets, Bounds
  <2> QED BY <2>2, <2>3
<1> QED BY <1>3, <1>4

LEMMA ScrambledKeys ==
  ASSUME conf \in Configs, conf.dist = "zipfian", NEW h \in MinInt .. -MinInt - 1
  PROVE  /\ ScrambledNext(h) \in Int
         /\ h # MinInt => ScrambledNext(h) \in Lower .. Upper + conf.newKeys + 1
<1> DEFINE m == conf.count + conf.newKeys + 1
<1>1. conf.newKeys \in Nat /\ m \in Nat \ {0} /\ MinInt \in Int /\ MinInt < 0
  <2>1. conf.newKeys \in Nat /\ conf.count \in Nat
    BY ConfigsAssumption
  <2>2. MaxInt \in Nat
    BY ChoosersAssumption
  <2>3. MinInt \in Int /\ MinInt < 0
    BY <2>2 DEF MinInt
  <2> QED BY <2>1, <2>3
<1>2. Hash64(h) \in Int /\ (h # MinInt => Hash64(h) \in Nat)
  BY <1>1 DEF Hash64
<1>3. Rem(Hash64(h), m) \in Int /\ (Hash64(h) \in Nat => Rem(Hash64(h), m) \in 0 .. m - 1)
  <2> DEFINE a == Hash64(h)
  <2>1. a \in Int /\ m \in Nat \ {0}
    BY <1>1, <1>2
  <2> HIDE DEF a, m
  <2>2. a >= 0 => a % m \in 0 .. m - 1
    BY <2>1, Division
  <2>3. a < 0 => (-a) % m \in 0 .. m - 1
    BY <2>1, Division
  <2> QED BY <2>1, <2>2, <2>3 DEF Rem, a
<1>4. ScrambledNext(h) = Lower + Rem(Hash64(h), m)
  BY DEF ScrambledNext
<1> QED BY <1>1, <1>2, <1>3, <1>4, Bounds

(* Mixgraph. *)

LEMMA Regions ==
  ASSUME conf \in Configs, conf.dist = "mixgraph"
  PROVE  /\ NumRegions \in Nat \ {0} /\ RegionSize \in Nat \ {0} /\ conf.count \in Nat \ {0}
         /\ conf.count >= NumRegions => NumRegions * RegionSize <= conf.count
<1> DEFINE c == conf.count
           n == NumRegions
           q == c \div n
<1>1. c \in Nat \ {0}
  BY ConfigsAssumption
<1>2. c \div RegionKeys \in Nat
  <2> HIDE DEF c
  <2> QED BY <1>1, ChoosersAssumption, Division
<1>3. n \in Nat \ {0}
  BY <1>2, ChoosersAssumption DEF NumRegions
<1>4. RegionSize = IF q = 0 THEN 1 ELSE q
  BY DEF RegionSize
<1> HIDE DEF c, n
<1>5. q \in Nat /\ c % n \in 0 .. n - 1 /\ c = q * n + (c % n)
  BY <1>1, <1>3, Division
<1> HIDE DEF q
<1>6. ASSUME c >= n PROVE n * RegionSize <= c
  <2>1. q # 0
    BY <1>1, <1>3, <1>5, <1>6
  <2>2. RegionSize = q /\ n * q = q * n /\ q * n \in Nat
    BY <1>3, <1>4, <1>5, <2>1, ProductType
  <2> QED BY <1>1, <1>3, <1>5, <2>2
<1> QED BY <1>1, <1>3, <1>4, <1>5, <1>6 DEF c, n

\* Every bucket is the bucket of some region and every region that of one bucket.
Permutes(map, n) ==
  /\ map \in [1 .. n -> 0 .. n - 1]
  /\ \A i, j \in 1 .. n : map[i] = map[j] => i = j
  /\ \A r \in 0 .. n - 1 : \E i \in 1 .. n : map[i] = r

LEMMA IdentityPermutes ==
  ASSUME NEW n \in Nat PROVE Permutes(Identity(n), n)
<1>1. \A i \in 1 .. n : Identity(n)[i] = i - 1
  BY DEF Identity
<1>2. \A r \in 0 .. n - 1 : r + 1 \in 1 .. n /\ (r + 1) - 1 = r
  OBVIOUS
<1>3. Identity(n) \in [1 .. n -> 0 .. n - 1]
  BY DEF Identity
<1>4. \A i, j \in 1 .. n : Identity(n)[i] = Identity(n)[j] => i = j
  BY <1>1
<1>5. \A r \in 0 .. n - 1 : \E i \in 1 .. n : Identity(n)[i] = r
  BY <1>1, <1>2
<1> QED BY <1>3, <1>4, <1>5 DEF Permutes

\* Two positions that change places leave a permutation.
LEMMA SwapPermutes ==
  ASSUME NEW n \in Nat, NEW map, Permutes(map, n), NEW a \in 1 .. n, NEW b \in 1 .. n
  PROVE  Permutes(Swap(map, a, b), n)
<1> DEFINE new == Swap(map, a, b)
<1>1. /\ new \in [1 .. n -> 0 .. n - 1]
      /\ \A i \in 1 .. n : new[i] = IF i = b THEN map[a] ELSE IF i = a THEN map[b] ELSE map[i]
  BY DEF Swap, Permutes
<1> HIDE DEF new
<1>2. ASSUME NEW i \in 1 .. n, NEW j \in 1 .. n, new[i] = new[j] PROVE i = j
  <2> DEFINE from(x) == IF x = b THEN a ELSE IF x = a THEN b ELSE x
  <2>1. \A x \in 1 .. n : from(x) \in 1 .. n /\ new[x] = map[from(x)]
    BY <1>1
  <2>2. from(i) = from(j)
    BY <1>2, <2>1 DEF Permutes
  <2> QED BY <2>2
<1>3. ASSUME NEW r \in 0 .. n - 1 PROVE \E i \in 1 .. n : new[i] = r
  <2>1. PICK i \in 1 .. n : map[i] = r
    BY DEF Permutes
  <2>2. CASE i = a
    BY <1>1, <2>1, <2>2
  <2>3. CASE i = b
    BY <1>1, <2>1, <2>3
  <2>4. CASE i # a /\ i # b
    BY <1>1, <2>1, <2>4
  <2> QED BY <2>2, <2>3, <2>4
<1>4. Permutes(new, n)
  BY <1>1, <1>2, <1>3 DEF Permutes
<1> QED BY <1>4 DEF new

\* The mix filed under the region of a bucket is the mix of the bucket.
LEMMA MixOfRegion ==
  ASSUME conf \in Configs, conf.dist = "mixgraph", NEW map, Permutes(map, NumRegions)
  PROVE  /\ \A b \in 1 .. NumRegions : MixesByRegion(map)[map[b]] = Mix(b - 1)
         /\ \A r \in 0 .. NumRegions - 1 : MixesByRegion(map)[r] \in {"hot", "warm", "cold"}
<1>1. ASSUME NEW b \in 1 .. NumRegions
      PROVE  map[b] \in 0 .. NumRegions - 1 /\ MixesByRegion(map)[map[b]] = Mix(b - 1)
  <2>1. map[b] \in 0 .. NumRegions - 1 /\ DOMAIN map = 1 .. NumRegions
    BY DEF Permutes
  <2>2. {i \in DOMAIN map : map[i] = map[b]} = {b}
    BY <2>1 DEF Permutes
  <2>3. b \in Int
    BY Regions
  <2>4. Max({b}) = b
    BY <2>3, ExtremeOfOne
  <2> QED BY <2>1, <2>2, <2>4 DEF MixesByRegion
<1>2. \A b : Mix(b - 1) \in {"hot", "warm", "cold"}
  BY DEF Mix
<1>3. ASSUME NEW r \in 0 .. NumRegions - 1
      PROVE  MixesByRegion(map)[r] \in {"hot", "warm", "cold"}
  <2>1. PICK b \in 1 .. NumRegions : map[b] = r
    BY DEF Permutes
  <2> QED BY <1>1, <1>2, <2>1
<1> QED BY <1>1, <1>3

LEMMA BucketType ==
  ASSUME conf \in Configs, conf.dist = "mixgraph", NEW dart
  PROVE  BucketOf(dart) \in 1 .. NumRegions
<1> DEFINE S == {i \in 1 .. NumRegions - 1 :
                   /\ Total(conf.weights) > 0
                   /\ Area(conf.weights, i) * Darts >= dart * Total(conf.weights)}
<1>1. NumRegions \in Nat \ {0}
  BY Regions
<1>2. S \in SUBSET Nat
  BY <1>1
<1>3. BucketOf(dart) = IF S = {} THEN NumRegions ELSE Min(S)
  BY DEF BucketOf
<1>4. S # {} => Min(S) \in S
  BY <1>2, LeastNumber
<1>5. S \subseteq 1 .. NumRegions
  BY <1>1
<1> HIDE DEF S
<1>6. NumRegions \in 1 .. NumRegions
  BY <1>1
<1>7. S # {} => Min(S) \in 1 .. NumRegions
  BY <1>4, <1>5
<1> QED BY <1>3, <1>6, <1>7

\* The key of a bucket lies in the region of the bucket.
LEMMA KeyOfBucket ==
  ASSUME conf \in Configs, conf.dist = "mixgraph", Permutes(regionMap, NumRegions),
         NEW b \in 1 .. NumRegions, NEW offset \in 0 .. RegionSize - 1
  PROVE  /\ MixKey(b, offset) \in 0 .. conf.count - 1
         /\ RegionOf(MixKey(b, offset)) \in 0 .. NumRegions - 1
         /\ conf.count >= NumRegions => RegionOf(MixKey(b, offset)) = regionMap[b]
<1> DEFINE r == regionMap[b]
           n == NumRegions
           s == RegionSize
           c == conf.count
           k == r * s + offset
           m == MixKey(b, offset)
<1>1. /\ n \in Nat \ {0} /\ s \in Nat \ {0} /\ c \in Nat \ {0} /\ r \in 0 .. n - 1
      /\ c >= n => n * s <= c
  BY Regions DEF Permutes
<1>2. k \in Nat
  BY <1>1, ProductType
<1>3. m = IF k >= c THEN c - 1 ELSE k
  BY DEF MixKey
<1>4. m \in 0 .. c - 1
  BY <1>1, <1>2, <1>3
<1>5. RegionOf(m) = IF m \div s >= n THEN n - 1 ELSE m \div s
  BY DEF RegionOf
<1> HIDE DEF m, n, s, c, r
<1>6. m \div s \in Nat
  <2>1. m \in Nat
    BY <1>1, <1>4
  <2> QED BY <1>1, <2>1, Division
<1>7. RegionOf(m) \in 0 .. n - 1
  BY <1>1, <1>5, <1>6
<1>8. ASSUME c >= n PROVE RegionOf(m) = r
  <2>1. k < c
    <3>1. (r + 1) * s <= n * s
      BY <1>1, NoMoreThanTimes
    <3>2. (r + 1) * s = r * s + s
      BY <1>1, Z3
    <3>3. r * s \in Nat /\ n * s \in Nat
      BY <1>1, ProductType
    <3>4. offset \in 0 .. s - 1
      BY DEF s
    <3> QED BY <1>1, <1>8, <3>1, <3>2, <3>3, <3>4
  <2>2. m = k
    BY <1>1, <1>2, <1>3, <2>1
  <2>3. k \div s = r
    <3>1. offset \in 0 .. s - 1
      BY DEF s
    <3> QED BY <1>1, <3>1, DivisionUnique
  <2> QED BY <1>1, <1>5, <2>2, <2>3
<1> QED BY <1>4, <1>7, <1>8 DEF m, n, c, r

(* The inductive invariant of the choosers. *)

\* A draw k, with random input h, is in the range, or panics for a reason.
DrawOK(k, h) ==
  /\ k \in Int
  /\ k = Panic =>
       \/ conf.dist \in {"uniform", "sequential", "hotspot"} /\ conf.count = 0
       \/ conf.dist = "hotspot" /\ HotInterval = 0 /\ Fraction(conf.hotops) > 0
       \/ conf.dist = "hotspot" /\ ColdInterval = 0 /\ Fraction(conf.hotops) < Darts
       \/ conf.dist = "operation" /\ Added(conf.weights) = {}
       \/ conf.dist = "operation" /\ Cardinality(Added(conf.weights)) > 1 /\ h = Darts
       \/ conf.dist = "histogram" /\ Total(conf.weights) = 0
       \/ conf.dist = "zipfian" /\ h = MinInt
  /\ conf.dist \in {"uniform", "sequential", "hotspot"} =>
       conf.count = 0 \/ k \in Lower .. Upper \cup {Panic}
  /\ conf.dist = "mixgraph" => k \in 0 .. conf.count - 1
  /\ conf.dist = "zipfian" /\ h # MinInt => k \in Lower .. Upper + conf.newKeys + 1

\* The last value drawn; before the first draw there is none.
DrawnInv ==
  /\ conf \in Configs
  /\ counter \in 0 .. MaxDraws
  /\ IF counter = 0 THEN key = Lower /\ random = 0 ELSE DrawOK(key, random)

\* However far the shuffle is, the map is a permutation; the mixes are those of the map.
RegionInv ==
  conf.dist = "mixgraph" =>
    /\ shuffled \in 0 .. NumRegions
    /\ Permutes(regionMap, NumRegions)
    /\ shuffled = NumRegions => choosers = MixesByRegion(regionMap)
    /\ counter > 0 => /\ shuffled = NumRegions
                      /\ bucket \in 1 .. NumRegions
                      /\ \E offset \in 0 .. RegionSize - 1 : key = MixKey(bucket, offset)

OperationInv ==
  /\ operation \in {"none", "hot", "warm", "cold"}
  /\ OperationFitsBucket

\* After q rounds over the keys and r keys more, those r keys have been drawn once more.
Turn(q, r) ==
  /\ counter = q * conf.count + r
  /\ \A k \in Lower .. Upper : hits[k] = IF k - Lower \in 1 .. r THEN q + 1 ELSE q

TurnInv ==
  conf.dist = "sequential" =>
    /\ DOMAIN hits = Lower .. Upper
    /\ conf.count > 0 => \E q \in Nat : \E r \in 0 .. conf.count - 1 : Turn(q, r)

ChooserInv == DrawnInv /\ RegionInv /\ OperationInv /\ TurnInv
-----------------------------------------------------------------------------
LEMMA SameRegions ==
  conf' = conf => /\ NumRegions' = NumRegions /\ RegionSize' = RegionSize
                  /\ Lower' = Lower /\ Upper' = Upper
                  /\ \A i : Mix(i)' = Mix(i)
                  /\ \A k, h : DrawOK(k, h)' = DrawOK(k, h)
<1> SUFFICES ASSUME conf' = conf
             PROVE  /\ NumRegions' = NumRegions /\ RegionSize' = RegionSize
                    /\ Lower' = Lower /\ Upper' = Upper
                    /\ \A i : Mix(i)' = Mix(i)
                    /\ \A k, h : DrawOK(k, h)' = DrawOK(k, h)
  OBVIOUS
<1>1. NumRegions' = NumRegions
  BY DEF NumRegions
<1>2. RegionSize' = RegionSize /\ \A i : Mix(i)' = Mix(i)
  BY <1>1 DEF RegionSize, Mix
<1>3. Lower' = Lower /\ Upper' = Upper
  BY DEF Lower, Upper
<1>4. HotInterval' = HotInterval /\ ColdInterval' = ColdInterval
  BY <1>3 DEF ColdInterval, HotInterval, HotspotInterval, HotLower
<1>5. \A k, h : DrawOK(k, h)' = DrawOK(k, h)
  BY <1>3, <1>4 DEF DrawOK
<1> QED BY <1>1, <1>2, <1>3, <1>5

LEMMA ChooserInitInv == ChooserInit => ChooserInv
<1> SUFFICES ASSUME ChooserInit PROVE ChooserInv
  OBVIOUS
<1>1. conf \in Configs /\ counter = 0
  BY DEF ChooserInit
<1>2. DrawnInv
  BY <1>1, ChoosersAssumption DEF DrawnInv, ChooserInit
<1>3. RegionInv
  <2> SUFFICES ASSUME conf.dist = "mixgraph"
               PROVE  shuffled \in 0 .. NumRegions /\ Permutes(regionMap, NumRegions) /\ shuffled # NumRegions
    BY <1>1 DEF RegionInv
  <2>1. NumRegions \in Nat \ {0}
    BY <1>1, Regions
  <2>2. shuffled = 0 /\ regionMap = Identity(NumRegions)
    BY DEF ChooserInit
  <2> QED BY <2>1, <2>2, IdentityPermutes
<1>4. OperationInv
  BY DEF ChooserInit, OperationInv, OperationFitsBucket
<1>5. TurnInv
  <2>1. DOMAIN hits = Lower .. Upper
    BY DEF ChooserInit
  <2>2. ASSUME conf.count > 0 PROVE Turn(0, 0) /\ 0 \in 0 .. conf.count - 1
    <3>1. conf.count \in Nat /\ Lower \in Nat /\ Upper \in Int
      BY <1>1, Bounds
    <3>2. 0 * conf.count + 0 = 0
      BY <3>1
    <3>3. \A k \in Lower .. Upper : hits[k] = 0
      BY DEF ChooserInit
    <3>4. \A k \in Lower .. Upper : k - Lower \notin 1 .. 0
      BY <3>1
    <3> QED BY <1>1, <2>2, <3>1, <3>2, <3>3, <3>4 DEF Turn
  <2> QED BY <2>1, <2>2 DEF TurnInv
<1> QED BY <1>2, <1>3, <1>4, <1>5 DEF ChooserInv

LEMMA ChooserStutter == ChooserInv /\ UNCHANGED chooserVars => ChooserInv'
<1> SUFFICES ASSUME ChooserInv, UNCHANGED chooserVars PROVE ChooserInv'
  OBVIOUS
<1> USE DEF chooserVars, regionVars
<1>1. conf' = conf
  OBVIOUS
<1>2. DrawnInv'
  BY <1>1, SameRegions DEF ChooserInv, DrawnInv
<1>3. RegionInv'
  BY <1>1, SameRegions DEF ChooserInv, RegionInv, MixesByRegion, MixKey
<1>4. OperationInv' /\ TurnInv'
  BY <1>1, SameRegions DEF ChooserInv, OperationInv, OperationFitsBucket, TurnInv, Turn
<1> QED BY <1>2, <1>3, <1>4 DEF ChooserInv

LEMMA ShuffleRegionInv == ChooserInv /\ ShuffleRegion => ChooserInv'
<1> SUFFICES ASSUME ChooserInv, ShuffleRegion PROVE ChooserInv'
  OBVIOUS
<1>1. conf' = conf /\ conf \in Configs /\ conf.dist = "mixgraph" /\ counter' = counter
  BY DEF ShuffleRegion, ChooserInv, DrawnInv
<1>2. /\ NumRegions' = NumRegions /\ NumRegions \in Nat \ {0} /\ counter = 0
      /\ shuffled \in 0 .. NumRegions /\ Permutes(regionMap, NumRegions)
  BY <1>1, SameRegions, Regions DEF ShuffleRegion, ChooserInv, RegionInv, DrawnInv
<1>3. PICK pos \in 1 .. NumRegions : regionMap' = Swap(regionMap, shuffled', pos)
  BY DEF ShuffleRegion
<1>4. shuffled' \in 1 .. NumRegions
  BY <1>2 DEF ShuffleRegion
<1>5. Permutes(regionMap', NumRegions)
  BY <1>2, <1>3, <1>4, SwapPermutes
<1>6. shuffled' = NumRegions => choosers' = MixesByRegion(regionMap')
  BY DEF ShuffleRegion
<1>7. MixesByRegion(regionMap') = MixesByRegion(regionMap)'
  BY <1>1, <1>2, SameRegions DEF MixesByRegion
<1>8. RegionInv'
  BY <1>1, <1>2, <1>4, <1>5, <1>6, <1>7 DEF RegionInv
<1>9. DrawnInv'
  BY <1>1, SameRegions DEF ChooserInv, DrawnInv, ShuffleRegion
<1>10. OperationInv' /\ TurnInv'
  BY <1>1, SameRegions DEF ChooserInv, OperationInv, OperationFitsBucket, TurnInv, ShuffleRegion
<1> QED BY <1>8, <1>9, <1>10 DEF ChooserInv

LEMMA ChooseOperationInv == ChooserInv /\ ChooseOperationForKey => ChooserInv'
<1> SUFFICES ASSUME ChooserInv, ChooseOperationForKey PROVE ChooserInv'
  OBVIOUS
<1> USE DEF regionVars
<1>1. conf' = conf /\ conf \in Configs /\ conf.dist = "mixgraph" /\ counter > 0
  BY DEF ChooseOperationForKey, ChooserInv, DrawnInv
<1>2. /\ Permutes(regionMap, NumRegions) /\ choosers = MixesByRegion(regionMap)
      /\ bucket \in 1 .. NumRegions
  BY <1>1 DEF ChooserInv, RegionInv
<1>3. PICK offset \in 0 .. RegionSize - 1 : key = MixKey(bucket, offset)
  BY <1>1 DEF ChooserInv, RegionInv
<1>4. /\ RegionOf(key) \in 0 .. NumRegions - 1
      /\ conf.count >= NumRegions => RegionOf(key) = regionMap[bucket]
  BY <1>1, <1>2, <1>3, KeyOfBucket
<1>5. operation' = MixesByRegion(regionMap)[RegionOf(key)]
  BY <1>2 DEF ChooseOperationForKey
<1>6. operation' \in {"hot", "warm", "cold"}
  BY <1>1, <1>2, <1>4, <1>5, MixOfRegion
<1>7. conf.count >= NumRegions => operation' = Mix(bucket - 1)
  BY <1>1, <1>2, <1>4, <1>5, MixOfRegion
<1>8. OperationInv'
  BY <1>1, <1>6, <1>7, SameRegions DEF OperationInv, OperationFitsBucket, ChooseOperationForKey
<1>9. DrawnInv'
  BY <1>1, SameRegions DEF ChooserInv, DrawnInv, ChooseOperationForKey
<1>10. RegionInv'
  BY <1>1, SameRegions DEF ChooserInv, RegionInv, MixesByRegion, MixKey, ChooseOperationForKey
<1>11. TurnInv'
  BY <1>1 DEF TurnInv
<1> QED BY <1>8, <1>9, <1>10, <1>11 DEF ChooserInv

LEMMA NextKeyDraw ==
  ASSUME ChooserInv, NextKey
  PROVE  DrawOK(key', random')
<1>1. conf \in Configs /\ counter \in Nat /\ Lower \in Nat
  BY Bounds, ChoosersAssumption DEF ChooserInv, DrawnInv
<1>2. CASE conf.dist = "uniform"
  <2>1. key' \in UniformNext
    BY <1>2 DEF NextKey
  <2>2. IF conf.count = 0 THEN key' = Panic ELSE key' \in Lower .. Upper
    BY <1>1, <2>1, UniformKeys
  <2> QED BY <1>1, <1>2, <2>2, Bounds DEF DrawOK, Panic
<1>3. CASE conf.dist = "sequential"
  <2>1. key' \in SequentialNext
    BY <1>3 DEF NextKey
  <2>2. IF conf.count = 0 THEN key' = Panic ELSE key' \in Lower .. Upper
    BY <1>1, <2>1, SequentialKeys
  <2> QED BY <1>1, <1>3, <2>2, Bounds DEF DrawOK, Panic
<1>4. CASE conf.dist = "hotspot"
  <2>1. key' \in HotspotNext
    BY <1>4 DEF NextKey
  <2>2. /\ key' \in Int
        /\ \/ conf.count = 0
           \/ key' \in Lower .. Upper
           \/ key' = Panic /\ HotInterval = 0 /\ Fraction(conf.hotops) > 0
           \/ key' = Panic /\ ColdInterval = 0 /\ Fraction(conf.hotops) < Darts
    BY <1>1, <1>4, <2>1, HotspotKeys
  <2>3. key' = Panic => key' \notin Lower .. Upper
    BY <1>1, Bounds DEF Panic
  <2> QED BY <1>1, <1>4, <2>2, <2>3 DEF DrawOK
<1>5. CASE conf.dist = "zipfian"
  <2>1. random' \in MinInt .. -MinInt - 1 /\ key' = ScrambledNext(random')
    BY <1>5 DEF NextKey
  <2>2. /\ key' \in Int
        /\ random' # MinInt => key' \in Lower .. Upper + conf.newKeys + 1
    BY <1>1, <1>5, <2>1, ScrambledKeys
  <2>3. conf.newKeys \in Nat
    BY <1>1, <1>5, ConfigsAssumption
  <2>4. random' # MinInt => key' # Panic
    BY <1>1, <2>2, <2>3, Bounds DEF Panic
  <2> QED BY <1>5, <2>2, <2>4 DEF DrawOK
<1>6. CASE conf.dist = "mixgraph"
  <2>1. PICK dart \in 0 .. Darts - 1, offset \in 0 .. RegionSize - 1 :
          bucket' = BucketOf(dart) /\ key' = MixKey(BucketOf(dart), offset)
    BY <1>6 DEF NextKey
  <2>2. BucketOf(dart) \in 1 .. NumRegions /\ Permutes(regionMap, NumRegions)
    BY <1>1, <1>6, BucketType DEF ChooserInv, RegionInv
  <2>3. key' \in 0 .. conf.count - 1
    BY <1>1, <1>6, <2>1, <2>2, KeyOfBucket
  <2>4. conf.count \in Nat
    BY <1>1, Bounds
  <2> QED BY <1>6, <2>3, <2>4 DEF DrawOK, Panic
<1>7. CASE conf.dist = "operation"
  <2>1. random' \in DiscreteDarts(conf.weights) /\ key' = DiscreteNext(conf.weights, random')
    BY <1>7 DEF NextKey
  <2>2. conf.weights \in Seq(Nat)
    BY <1>1, <1>7, ConfigsAssumption
  <2>3. CASE Added(conf.weights) = {}
    <3>1. key' = Panic
      BY <2>1, <2>3 DEF DiscreteNext
    <3> QED BY <1>7, <2>3, <3>1 DEF DrawOK, Panic
  <2>4. CASE random' = Darts /\ Cardinality(Added(conf.weights)) > 1
    <3>1. key' \in Int
      BY <2>1, <2>2, <2>4, DiscreteNextInt, ChoosersAssumption
    <3> QED BY <1>7, <2>4, <3>1 DEF DrawOK
  <2>5. CASE Added(conf.weights) # {} /\ random' \in 0 .. Darts - 1
    <3>1. key' \in Added(conf.weights)
      BY <2>1, <2>2, <2>5, DiscreteNextFinds
    <3>2. key' \in Nat
      BY <2>2, <3>1, AddedTotal
    <3> QED BY <1>7, <3>2 DEF DrawOK, Panic
  <2>6. random' \in 0 .. Darts - 1 \/ (random' = Darts /\ Cardinality(Added(conf.weights)) > 1)
    BY <2>1, ChoosersAssumption DEF DiscreteDarts
  <2> QED BY <2>3, <2>4, <2>5, <2>6
<1>8. CASE conf.dist = "histogram"
  <2>1. conf.weights \in Seq(Nat) /\ conf.weights # <<>>
    BY <1>1, <1>8, ConfigsAssumption
  <2>2. Total(conf.weights) \in Nat /\ Len(conf.weights) \in Nat
    BY <2>1, AreaType DEF Total
  <2>3. CASE Total(conf.weights) = 0 /\ key' = Panic
    BY <1>8, <2>3 DEF DrawOK, Panic
  <2>4. CASE \E n \in Int63n(Total(conf.weights)) : key' = HistogramNext(conf.weights, n)
    <3>1. PICK n \in Int63n(Total(conf.weights)) : key' = HistogramNext(conf.weights, n)
      BY <2>4
    <3>2. n \in Nat
      BY <2>2, <3>1 DEF Int63n
    <3>3. key' \in 0 .. Len(conf.weights) - 1
      BY <2>1, <3>1, <3>2, HistogramNextBucket
    <3> QED BY <1>8, <2>2, <3>3 DEF DrawOK, Panic
  <2> QED BY <1>8, <2>3, <2>4 DEF NextKey
<1> QED BY <1>2, <1>3, <1>4, <1>5, <1>6, <1>7, <1>8 DEF NextKey

\* The next key in turn is the one after the r keys, or the first of a new round.
LEMMA NextKeyTurn ==
  ASSUME ChooserInv, NextKey, conf.dist = "sequential", conf.count > 0
  PROVE  (\E q \in Nat : \E r \in 0 .. conf.count - 1 : Turn(q, r))'
<1> DEFINE c == conf.count
<1>1. conf \in Configs /\ counter \in Nat /\ counter' = counter + 1 /\ conf' = conf
  BY ChoosersAssumption DEF ChooserInv, DrawnInv, NextKey
<1>2. /\ c \in Nat \ {0} /\ Lower \in Nat /\ Upper = Lower + c - 1 /\ Upper \in Int
      /\ Lower' = Lower /\ Upper' = Upper
  BY <1>1, Bounds, SameRegions
<1>3. DOMAIN hits = Lower .. Upper
  BY DEF ChooserInv, TurnInv
<1>4. PICK q \in Nat, r \in 0 .. c - 1 : Turn(q, r)
  BY DEF ChooserInv, TurnInv
<1>5. key' = Lower + ((counter + 1) % c) /\ key' \in Lower .. Upper
  <2>1. key' \in SequentialNext
    BY DEF NextKey
  <2> QED BY <1>1, <1>2, <2>1, SequentialKeys
<1>6. hits' = [hits EXCEPT ![key'] = @ + 1]
  BY <1>3, <1>5 DEF NextKey, Hit
<1>7. \A k \in Lower .. Upper : hits'[k] = IF k = key' THEN hits[k] + 1 ELSE hits[k]
  BY <1>3, <1>6
<1>8. /\ counter = q * c + r
      /\ \A k \in Lower .. Upper : hits[k] = IF k - Lower \in 1 .. r THEN q + 1 ELSE q
  BY <1>4 DEF Turn
<1>9. q * c \in Nat
  BY <1>2, <1>4, ProductType
<1> HIDE DEF c
<1>10. CASE r + 1 < c
  <2>1. r + 1 \in 0 .. c - 1 /\ counter + 1 = q * c + (r + 1)
    BY <1>2, <1>8, <1>9, <1>10
  <2>2. key' = Lower + (r + 1)
    <3>1. (counter + 1) % c = r + 1
      BY <1>2, <2>1, DivisionUnique
    <3> QED BY <1>5, <3>1
  <2>3. \A k \in Lower .. Upper : hits'[k] = IF k - Lower \in 1 .. r + 1 THEN q + 1 ELSE q
    BY <1>2, <1>7, <1>8, <2>1, <2>2
  <2>4. Turn(q, r + 1)'
    BY <1>1, <1>2, <2>1, <2>3 DEF Turn, c
  <2> QED BY <1>1, <2>1, <2>4 DEF c
<1>11. CASE r + 1 = c
  <2>1. counter + 1 = (q + 1) * c + 0 /\ q + 1 \in Nat /\ 0 \in 0 .. c - 1
    <3>1. (q + 1) * c = q * c + c
      BY <1>2, Z3
    <3> QED BY <1>2, <1>8, <1>9, <1>11, <3>1
  <2>2. key' = Lower
    <3>1. (counter + 1) % c = 0
      <4> DEFINE n == counter + 1
                 m == q + 1
      <4>1. n = m * c + 0 /\ m \in Nat
        BY <2>1
      <4> HIDE DEF n, m
      <4>2. n % c = 0
        BY <1>2, <2>1, <4>1, DivisionUnique
      <4> QED BY <4>2 DEF n
    <3> QED BY <1>2, <1>5, <3>1
  <2>3. \A k \in Lower .. Upper : hits'[k] = IF k - Lower \in 1 .. 0 THEN (q + 1) + 1 ELSE q + 1
    BY <1>2, <1>7, <1>8, <1>11, <2>2
  <2>4. Turn(q + 1, 0)'
    BY <1>1, <1>2, <2>1, <2>3 DEF Turn, c
  <2> QED BY <1>1, <2>1, <2>4 DEF c
<1> QED BY <1>2, <1>10, <1>11

LEMMA NextKeyInv == ChooserInv /\ NextKey => ChooserInv'
<1> SUFFICES ASSUME ChooserInv, NextKey PROVE ChooserInv'
  OBVIOUS
<1> USE DEF regionVars
<1>1. conf' = conf /\ conf \in Configs /\ counter \in 0 .. MaxDraws /\ counter < MaxDraws /\ counter' = counter + 1
  BY DEF NextKey, ChooserInv, DrawnInv
<1>2. counter' \in 0 .. MaxDraws /\ counter' # 0 /\ counter' > 0
  BY <1>1, ChoosersAssumption
<1>3. DrawnInv'
  <2>1. DrawOK(key', random')
    BY NextKeyDraw
  <2>2. DrawOK(key, random)'
    BY <1>1, <2>1, SameRegions DEF DrawOK
  <2> QED BY <1>1, <1>2, <2>2 DEF DrawnInv
<1>4. RegionInv'
  <2> SUFFICES ASSUME conf.dist = "mixgraph" PROVE RegionInv'
    BY <1>1 DEF RegionInv
  <2>1. PICK dart \in 0 .. Darts - 1, offset \in 0 .. RegionSize - 1 :
          bucket' = BucketOf(dart) /\ key' = MixKey(BucketOf(dart), offset)
    BY DEF NextKey
  <2>2. bucket' \in 1 .. NumRegions
    BY <1>1, <2>1, BucketType
  <2>3. MixKey(bucket', offset) = MixKey(bucket, offset)'
    BY <1>1, SameRegions DEF MixKey, NextKey
  <2>4. shuffled = NumRegions /\ UNCHANGED <<regionMap, shuffled, choosers>>
    BY DEF NextKey
  <2>5. MixesByRegion(regionMap)' = MixesByRegion(regionMap)
    BY <1>1, <2>4, SameRegions DEF MixesByRegion
  <2>6. (\E o \in 0 .. RegionSize - 1 : key = MixKey(bucket, o))'
    BY <1>1, <2>1, <2>3, SameRegions
  <2> QED BY <1>1, <2>2, <2>4, <2>5, <2>6, SameRegions DEF ChooserInv, RegionInv
<1>5. OperationInv'
  BY DEF OperationInv, OperationFitsBucket, NextKey
<1>6. TurnInv'
  <2>1. DOMAIN hits' = DOMAIN hits
    BY DEF NextKey, Hit
  <2>2. ASSUME conf.dist = "sequential", conf.count > 0
        PROVE  (\E q \in Nat : \E r \in 0 .. conf.count - 1 : Turn(q, r))'
    BY <2>2, NextKeyTurn
  <2> QED BY <1>1, <2>1, <2>2, SameRegions DEF ChooserInv, TurnInv
<1> QED BY <1>3, <1>4, <1>5, <1>6 DEF ChooserInv

LEMMA ChooserNextInv == ChooserInv /\ [Next]_vars => ChooserInv'
<1> SUFFICES ASSUME ChooserInv, [Next]_vars PROVE ChooserInv'
  OBVIOUS
<1>1. CASE UNCHANGED chooserVars
  BY <1>1, ChooserStutter
<1>2. CASE ShuffleRegion
  BY <1>2, ShuffleRegionInv
<1>3. CASE NextKey
  BY <1>3, NextKeyInv
<1>4. CASE ChooseOperationForKey
  BY <1>4, ChooseOperationInv
<1>5. UNCHANGED vars => UNCHANGED chooserVars
  BY DEF vars
<1> QED BY <1>1, <1>2, <1>3, <1>4, <1>5 DEF Next, LatestStep, Finished

LEMMA ChooserInvariance == Spec => []ChooserInv
<1>1. Init => ChooserInv
  BY ChooserInitInv DEF Init
<1> QED
  BY <1>1, ChooserNextInv, PTL DEF Spec
-----------------------------------------------------------------------------
\* Every draw is a loaded key, for "zipfian" also an expected one or the one after all of
\* these, or panics for one of the causes listed, for any bounds, fractions, weights,
\* regions and width of an integer; but the least hash leaves the range of "zipfian"
\* (core.go, Create).
THEOREM KeysInRangeHolds == Spec => []KeysInRange
<1>1. ChooserInv => KeysInRange
  <2> SUFFICES ASSUME ChooserInv PROVE KeysInRange
    OBVIOUS
  <2>1. conf \in Configs /\ counter \in Nat /\ counter \in 0 .. MaxDraws /\ Lower \in Nat
    BY Bounds, ChoosersAssumption DEF ChooserInv, DrawnInv
  <2>2. counter = 0 => key = Lower
    BY DEF ChooserInv, DrawnInv
  <2>3. counter > 0 => DrawOK(key, random)
    BY <2>1 DEF ChooserInv, DrawnInv
  <2>4. PanicCauses
    BY <2>3 DEF PanicCauses, DrawOK
  <2>5. ChooserTypeOK
    <3>1. key \in Int
      BY <2>1, <2>2, <2>3 DEF DrawOK
    <3>2. ASSUME conf.dist = "mixgraph"
          PROVE  {regionMap[i] : i \in DOMAIN regionMap} = 0 .. NumRegions - 1
      <4>1. Permutes(regionMap, NumRegions)
        BY <3>2 DEF ChooserInv, RegionInv
      <4>2. DOMAIN regionMap = 1 .. NumRegions
        BY <4>1 DEF Permutes
      <4> QED BY <4>1, <4>2 DEF Permutes
    <3> QED BY <2>1, <3>1, <3>2 DEF ChooserTypeOK, ChooserInv, OperationInv
  <2>6. conf.dist \in {"uniform", "sequential", "hotspot"} =>
          conf.count = 0 \/ key \in Lower .. Upper \cup {Panic}
    <3>1. conf.count # 0 => Lower \in Lower .. Upper
      BY <2>1, Bounds
    <3> QED BY <2>1, <2>2, <2>3, <3>1 DEF DrawOK
  <2>7. conf.dist = "mixgraph" /\ counter > 0 => key \in 0 .. conf.count - 1
    BY <2>3 DEF DrawOK
  <2>8. ASSUME conf.dist = "zipfian", random # MinInt
        PROVE  \/ key \in Lower .. Upper + conf.newKeys
               \/ key = Upper + conf.newKeys + 1
    <3>1. Lower \in Lower .. Upper + conf.newKeys + 1
      BY <2>1, <2>8, Bounds, ConfigsAssumption
    <3>2. key \in Lower .. Upper + conf.newKeys + 1
      BY <2>1, <2>2, <2>3, <2>8, <3>1 DEF DrawOK
    <3>3. Lower \in Int /\ Upper \in Int /\ conf.newKeys \in Int
      BY <2>1, <2>8, Bounds, ConfigsAssumption
    <3> QED BY <3>2, <3>3
  <2> QED BY <2>4, <2>5, <2>6, <2>7, <2>8 DEF KeysInRange
<1> QED
  BY <1>1, ChooserInvariance, PTL

\* The operation of a mixgraph key comes from the mix of the bucket it was drawn from,
\* whatever the shuffle did, for any number of records and regions (mixgraph.go).
THEOREM OperationFitsBucketHolds == Spec => []OperationFitsBucket
<1>1. ChooserInv => OperationFitsBucket
  BY DEF ChooserInv, OperationInv
<1> QED
  BY <1>1, ChooserInvariance, PTL

\* Keys in turn are drawn evenly, operations by their proportions up to one dart and
\* lengths by their counts up to one draw, for any weights and resolution
\* (sequential.go, discrete.go, histogram.go).
THEOREM DrawsProportionalHolds == Spec => []DrawsProportional
<1>1. ChooserInv => DrawsProportional
  <2> SUFFICES ASSUME ChooserInv PROVE DrawsProportional
    OBVIOUS
  <2>1. conf \in Configs
    BY DEF ChooserInv, DrawnInv
  <2>2. SequentialEven
    <3> SUFFICES ASSUME conf.dist = "sequential",
                        NEW j \in DOMAIN hits, NEW k \in DOMAIN hits
                 PROVE  hits[j] - hits[k] <= 1
      BY DEF SequentialEven
    <3>1. DOMAIN hits = Lower .. Upper /\ Lower \in Nat /\ conf.count \in Nat /\ Upper = Lower + conf.count - 1
      BY <2>1, Bounds DEF ChooserInv, TurnInv
    <3>2. conf.count > 0
      BY <3>1
    <3>3. PICK q \in Nat : \E r \in 0 .. conf.count - 1 : Turn(q, r)
      BY <3>2 DEF ChooserInv, TurnInv
    <3>4. hits[j] \in {q, q + 1} /\ hits[k] \in {q, q + 1}
      BY <3>1, <3>3 DEF Turn
    <3> QED BY <3>3, <3>4
  <2>3. DiscreteProportional
    BY <2>1, ConfigsAssumption, DiscreteShare DEF DiscreteProportional
  <2>4. HistogramFrequencies
    BY <2>1, ConfigsAssumption, HistogramShare DEF HistogramFrequencies
  <2> QED BY <2>2, <2>3, <2>4 DEF DrawsProportional
<1> QED
  BY <1>1, ChooserInvariance, PTL
=============================================================================
