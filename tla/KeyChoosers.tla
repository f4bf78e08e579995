---------------------------- MODULE KeyChoosers -----------------------------
(***************************************************************************)
(* The other generators of pkg/generator, as coreCreator.Create            *)
(* (pkg/workload/core.go) makes them: uniform, sequential, hotspot,        *)
(* scrambled zipfian, mixgraph and histogram, and the discrete chooser of  *)
(* the operations.  A random float is a dart in 0 .. Darts - 1 over Darts, *)
(* or the dart Darts when it is so close to 1 that rounding tells.         *)
(* Fractions are out of Darts.  -1 stands for a panic.                     *)
(***************************************************************************)
EXTENDS Integers, Sequences, FiniteSets, FiniteSetsExt

CONSTANTS Configs,     \* the properties tried: records with a field dist
          Darts,       \* the resolution of a random float
          RegionKeys,  \* keys of a mixgraph region (100000)
          MinRegions,  \* least number of mixgraph regions (10)
          MaxInt,      \* the greatest integer (2^63 - 1)
          MaxDraws     \* bound on the draws

ASSUME ChoosersAssumption ==
  /\ {RegionKeys, MinRegions, Darts} \subseteq Nat \ {0}
  /\ {MaxInt, MaxDraws} \subseteq Nat

\* insertstart and insertcount are not negative, and recordcount, the count of mixgraph,
\* is never 0: Create replaces it.  Weights are counted in some unit.
ASSUME ConfigsAssumption ==
  \A c \in Configs :
    /\ c.start \in Nat /\ c.count \in Nat
    /\ c.dist = "hotspot" => c.hotset \in Int /\ c.hotops \in Int
    /\ c.dist = "zipfian" => c.newKeys \in Nat
    /\ c.dist \in {"mixgraph", "operation", "histogram"} => c.weights \in Seq(Nat)
    /\ c.dist = "mixgraph" => c.count > 0
    /\ c.dist = "histogram" => c.weights # <<>>

VARIABLES conf,       \* the properties of this process
          regionMap,  \* mixgraph: the region of each hotness bucket
          shuffled,   \* mixgraph: the positions that the shuffle has been at
          choosers,   \* mixgraph: the operation mix of each region
          counter,    \* sequential: the draws so far
          bucket,     \* mixgraph: the hotness bucket of the last key (history)
          random,     \* the hash of zipfian, the dart of the operations (history)
          key,        \* the last value drawn
          operation,  \* mixgraph: the mix consulted for the key
          hits        \* sequential: how often each key was drawn (history)

regionVars == <<regionMap, shuffled, choosers>>
chooserVars == <<conf, regionVars, counter, bucket, random, key, operation, hits>>

Panic == -1

Lower == conf.start
Upper == conf.start + conf.count - 1

\* r.Int63n(n) panics when n is not positive.
Int63n(n) == IF n > 0 THEN 0 .. n - 1 ELSE {}
-----------------------------------------------------------------------------
(* Uniform, sequential, hotspot and scrambled zipfian. *)

Interval == Upper - Lower + 1

UniformNext ==
  IF Interval = 0 THEN {Panic} ELSE {i + Lower : i \in Int63n(Interval)}

\* Mutant: the interval leaves out its last key.
SequentialNextShort ==
  IF Interval = 0 THEN {Panic} ELSE {Lower + ((counter + 1) % (Interval - 1))}

SequentialNext ==
  IF Interval = 0 THEN {Panic} ELSE {Lower + ((counter + 1) % Interval)}

Fraction(f) == IF f < 0 \/ f > Darts THEN 0 ELSE f

\* NewHotspot exchanges bounds that are in the wrong order.
HotLower == Min({Lower, Upper})
HotspotInterval == Max({Lower, Upper}) - HotLower + 1

HotInterval == (HotspotInterval * Fraction(conf.hotset)) \div Darts
ColdInterval == HotspotInterval - HotInterval

HotKeys ==
  IF HotInterval = 0 THEN {Panic} ELSE {HotLower + i : i \in Int63n(HotInterval)}

ColdKeys ==
  IF ColdInterval = 0 THEN {Panic}
  ELSE {HotLower + HotInterval + i : i \in Int63n(ColdInterval)}

HotspotNext ==
  UNION {IF dart < Fraction(conf.hotops) THEN HotKeys ELSE ColdKeys :
           dart \in 0 .. Darts - 1}

MinInt == -MaxInt - 1

\* Mutant: the sign of the hash is kept.
Hash64Signed(h) == h

\* Hash64 of a hash value h: its magnitude, but the least integer has none.
Hash64(h) == IF h < 0 /\ h # MinInt THEN -h ELSE h

\* Go's remainder takes the sign of the dividend.
Rem(a, b) == IF a >= 0 THEN a % b ELSE -((-a) % b)

ScrambledNext(h) == Lower + Rem(Hash64(h), conf.count + conf.newKeys + 1)
-----------------------------------------------------------------------------
(* Discrete and histogram. *)

\* The sum of the first n weights: the unit squares below them.
Area(ws, n) == Cardinality(UNION {{i} \X (1 .. ws[i]) : i \in 1 .. n})

Total(ws) == Area(ws, Len(ws))

\* createOperationGenerator: the operations with a proportion are added, in their order.
Added(ws) == {i \in DOMAIN ws : ws[i] > 0}

\* Mutant: the dart is not moved to the next sector.
DiscreteNextUnmoved(ws, dart) ==
  LET hit == {i \in Added(ws) : dart * Total(ws) < ws[i] * Darts} IN
  IF hit = {} THEN Panic ELSE Min(hit)

\* Discrete.Next: the sector that the dart falls into.  Its place is found by taking the
\* sectors off the dart: with several sectors the rounded differences can leave the
\* largest darts beyond the last one.
DiscreteNext(ws, dart) ==
  LET hit == {i \in Added(ws) : dart * Total(ws) < Area(ws, i) * Darts} IN
  IF hit = {} THEN Panic ELSE Min(hit)

\* Mutant: what was taken off for a bucket is put back for the next.
HistogramNextAnew(bs, n) ==
  LET hit == {i \in 1 .. Len(bs) - 1 : n - bs[i] <= 0} IN
  IF hit = {} THEN Len(bs) - 1 ELSE Min(hit)

\* Histogram.Next for a random n, in blocks: the bucket that n falls into; the last
\* one has the value of the one before it.
HistogramNext(bs, n) ==
  LET hit == {i \in 1 .. Len(bs) - 1 : n - Area(bs, i) <= 0} IN
  IF hit = {} THEN Len(bs) - 1 ELSE Min(hit)

DiscreteDarts(ws) == 0 .. IF Cardinality(Added(ws)) > 1 THEN Darts ELSE Darts - 1
-----------------------------------------------------------------------------
(* Mixgraph. *)

\* coreCreator.Create: the regions follow from the number of records.
NumRegions ==
  LET n == conf.count \div RegionKeys IN IF n < MinRegions THEN MinRegions ELSE n

RegionSize == LET n == conf.count \div NumRegions IN IF n = 0 THEN 1 ELSE n

\* The operation mixes by hotness: the first tenth, up to three tenths, and the rest.
Mix(i) == CASE 10 * i <= NumRegions -> "hot"
            [] 10 * i > NumRegions /\ 10 * i <= 3 * NumRegions -> "warm"
            [] OTHER -> "cold"

Identity(n) == [i \in 1 .. n |-> i - 1]

\* Mutant: the entries are assigned one after the other.
SwapInTurn(f, i, j) == [f EXCEPT ![i] = f[j]]

Swap(f, i, j) == [f EXCEPT ![i] = f[j], ![j] = f[i]]

\* Mutant: the mix of a bucket is filed under the bucket.
MixesByBucket(map) == [r \in 0 .. NumRegions - 1 |-> Mix(r)]

\* The mix of a bucket is filed under its region; the last one to be filed stays.
MixesByRegion(map) ==
  LET buckets(r) == {i \in DOMAIN map : map[i] = r} IN
  [r \in 0 .. NumRegions - 1 |-> IF buckets(r) = {} THEN "nil"
                                ELSE Mix(Max(buckets(r)) - 1)]

\* sort.SearchFloat64s of the cumulative weights.
BucketOf(dart) ==
  LET w == conf.weights
      reached == {i \in 1 .. NumRegions - 1 :
                    Total(w) > 0 /\ Area(w, i) * Darts >= dart * Total(w)} IN
  IF reached = {} THEN NumRegions ELSE Min(reached)

\* The key of an offset in the bucket's region.
MixKey(b, offset) ==
  LET k == regionMap[b] * RegionSize + offset IN
  IF k >= conf.count THEN conf.count - 1 ELSE k

\* ChooseOperationForKey: the region of a key.
RegionOf(k) ==
  LET r == k \div RegionSize IN IF r >= NumRegions THEN NumRegions - 1 ELSE r
-----------------------------------------------------------------------------
ChooserInit ==
  /\ conf \in Configs
  /\ regionMap = IF conf.dist = "mixgraph" THEN Identity(NumRegions) ELSE <<>>
  /\ shuffled = 0
  /\ choosers = <<>>
  /\ counter = 0
  /\ bucket = 1
  /\ random = 0
  /\ key = Lower
  /\ operation = "none"
  /\ hits = [k \in Lower .. Upper |-> 0]

\* One position of the shuffle changes places with a random one; after the last the
\* mixes are filed.
ShuffleRegion ==
  /\ conf.dist = "mixgraph"
  /\ shuffled < NumRegions
  /\ shuffled' = shuffled + 1
  /\ \E pos \in 1 .. NumRegions : regionMap' = Swap(regionMap, shuffled', pos)
  /\ choosers' = IF shuffled' = NumRegions THEN MixesByRegion(regionMap') ELSE choosers
  /\ UNCHANGED <<conf, counter, bucket, random, key, operation, hits>>

Hit(k) ==
  hits' = IF conf.dist = "sequential" /\ k \in DOMAIN hits
          THEN [hits EXCEPT ![k] = @ + 1] ELSE hits

\* One draw by any worker: the generators' only shared state is an atomic counter.
NextKey ==
  /\ conf.dist = "mixgraph" => shuffled = NumRegions
  /\ counter < MaxDraws
  /\ key # Panic
  /\ counter' = counter + 1
  /\ \/ /\ conf.dist = "uniform"
        /\ key' \in UniformNext
        /\ UNCHANGED <<bucket, random>>
     \/ /\ conf.dist = "sequential"
        /\ key' \in SequentialNext
        /\ UNCHANGED <<bucket, random>>
     \/ /\ conf.dist = "hotspot"
        /\ key' \in HotspotNext
        /\ UNCHANGED <<bucket, random>>
     \/ /\ conf.dist = "zipfian"
        /\ random' \in MinInt .. -MinInt - 1
        /\ key' = ScrambledNext(random')
        /\ UNCHANGED bucket
     \/ /\ conf.dist = "mixgraph"
        /\ \E dart \in 0 .. Darts - 1, offset \in 0 .. RegionSize - 1 :
             /\ bucket' = BucketOf(dart)
             /\ key' = MixKey(BucketOf(dart), offset)
        /\ UNCHANGED random
     \/ /\ conf.dist = "operation"
        /\ random' \in DiscreteDarts(conf.weights)
        /\ key' = DiscreteNext(conf.weights, random')
        /\ UNCHANGED bucket
     \/ /\ conf.dist = "histogram"
        /\ \/ \E n \in Int63n(Total(conf.weights)) : key' = HistogramNext(conf.weights, n)
           \/ Total(conf.weights) = 0 /\ key' = Panic
        /\ UNCHANGED <<bucket, random>>
  /\ operation' = "none"
  /\ Hit(key')
  /\ UNCHANGED <<conf, regionVars>>

\* mixgraph: the operation is chosen by the key.
ChooseOperationForKey ==
  /\ conf.dist = "mixgraph"
  /\ counter > 0
  /\ operation = "none"
  /\ operation' = choosers[RegionOf(key)]
  /\ UNCHANGED <<conf, regionVars, counter, bucket, random, key, hits>>
-----------------------------------------------------------------------------
(* Properties. *)

ChooserTypeOK ==
  /\ conf \in Configs
  /\ counter \in 0 .. MaxDraws
  /\ key \in Int
  /\ operation \in {"none", "hot", "warm", "cold"}
  /\ conf.dist = "mixgraph" =>
       {regionMap[i] : i \in DOMAIN regionMap} = 0 .. NumRegions - 1

\* "sequential" visits the keys evenly: no key is drawn twice before every other one
\* has been drawn.
SequentialEven ==
  conf.dist = "sequential" =>
    \A j, k \in DOMAIN hits : hits[j] - hits[k] <= 1

\* The operation of a mixgraph key comes from the mix of the hotness bucket that the key
\* was drawn from, though bucket and key are two numberings of the regions that the
\* shuffle relates.  With fewer records than regions the last key stands for several.
OperationFitsBucket ==
  operation # "none" /\ conf.count >= NumRegions => operation = Mix(bucket - 1)

\* A generator panics only on an empty range (a hot or cold set without keys that has
\* operations, operations without a proportion, a histogram without area), or when the
\* rounding of several proportions leaves a dart close to 1 beyond the last of them.
PanicCauses ==
  key = Panic /\ counter > 0 =>
    \/ conf.dist \in {"uniform", "sequential"} /\ conf.count = 0
    \/ conf.dist = "hotspot" /\ conf.count = 0
    \/ conf.dist = "hotspot" /\ HotInterval = 0 /\ Fraction(conf.hotops) > 0
    \/ conf.dist = "hotspot" /\ ColdInterval = 0 /\ Fraction(conf.hotops) < Darts
    \/ conf.dist = "operation" /\ Added(conf.weights) = {}
    \/ conf.dist = "operation" /\ Cardinality(Added(conf.weights)) > 1 /\ random = Darts
    \/ conf.dist = "histogram" /\ Total(conf.weights) = 0
    \/ conf.dist = "zipfian" /\ random = MinInt

\* Types, and the keys drawn: "uniform", "sequential" and "hotspot" draw keys that were
\* loaded, "mixgraph" any record's whatever insertstart is.  "zipfian" draws those, the
\* ones expected to be inserted, and the one after all of these, since its bound is part
\* of its range (core.go:694): without new keys this one is never loaded.  The draws that
\* panic have the causes of PanicCauses.  Of an empty range hotspot draws keys all the
\* same.  The least integer is its own magnitude, and its remainder negative: only that
\* hash takes a key of "zipfian" below or beyond its range (pkg/util/hash.go:28-30).
KeysInRange ==
  /\ ChooserTypeOK
  /\ PanicCauses
  /\ conf.dist \in {"uniform", "sequential", "hotspot"} =>
       conf.count = 0 \/ key \in Lower .. Upper \cup {Panic}
  /\ conf.dist = "mixgraph" /\ counter > 0 => key \in 0 .. conf.count - 1
  /\ conf.dist = "zipfian" /\ random # MinInt =>
       \/ key \in Lower .. Upper + conf.newKeys
       \/ key = Upper + conf.newKeys + 1

\* Each operation gets its share of the darts, up to one dart.
DiscreteProportional ==
  conf.dist = "operation" =>
    LET ws == conf.weights
        darts(v) == Cardinality({d \in 0 .. Darts - 1 : DiscreteNext(ws, d) = v}) IN
    \A i \in Added(ws) :
      LET off == darts(i) * Total(ws) - ws[i] * Darts IN
      -Total(ws) < off /\ off < Total(ws)

\* Each length of a histogram is drawn as often as its bucket counts, up to one draw;
\* the last bucket's draws have the length of the one before.
HistogramFrequencies ==
  conf.dist = "histogram" /\ Total(conf.weights) > 0 =>
    LET bs == conf.weights
        draws(i) == Cardinality({n \in Int63n(Total(bs)) : HistogramNext(bs, n) = i})
        count(i) == IF i = Len(bs) - 1 THEN bs[i] + bs[i + 1] ELSE bs[i] IN
    \A i \in 1 .. Len(bs) - 1 : draws(i) - count(i) \in -1 .. 1

\* Every outcome is drawn as often as it should be: keys in turn, operations by their
\* proportions, lengths by their counts (sequential.go, discrete.go, histogram.go).
DrawsProportional == SequentialEven /\ DiscreteProportional /\ HistogramFrequencies
=============================================================================
