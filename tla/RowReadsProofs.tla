--------------------------- MODULE RowReadsProofs ---------------------------
(***************************************************************************)
(* Proofs about RowReads, for any workers, keys, fields and buffers.       *)
(***************************************************************************)
EXTENDS RowReads, FiniteSetTheorems, WellFoundedInduction, TLAPS

Kinds == {"none", "insert", "update", "rmw", "read", "scan"}
WriteKinds == {"insert", "update", "rmw"}

\* The types of the state; of records and results, only that they are functions.
TypesInv ==
  /\ adapter \in Adapters /\ varying \in BOOLEAN
  /\ commits \in Nat /\ ops \in 0 .. MaxOps
  /\ pc \in [Workers -> {"idle", "read", "scan", "write", "verify", "put"}]
  /\ verdict \in [Workers -> {"none", "ok", "fatal"}]
  /\ op \in [Workers -> [kind : Kinds, key : Keys \cup {0}, fields : SUBSET Fields,
                         count : 0 .. MaxScan]]
  /\ values \in [Workers -> UNION {[F -> Buffers] : F \in SUBSET Fields}]
  /\ free \in SUBSET Buffers
  /\ content = [b \in Buffers |-> content[b]]
  /\ got = [w \in Workers |-> got[w]]
  /\ rows = [w \in Workers |-> rows[w]]
  /\ table = [k \in Keys |-> table[k]]

\* What a worker does at each point; between operations it has nothing left.
PointInv ==
  \A w \in Workers :
    /\ pc[w] = "idle" => /\ op[w] = NoOp /\ values[w] = EmptyRow /\ got[w] = NoGot
                         /\ rows[w] = NoRows
    /\ pc[w] # "idle" => op[w].key \in Keys
    /\ pc[w] = "write" => op[w].kind \in WriteKinds
    /\ pc[w] = "read" => op[w].kind \in {"read", "rmw"}

\* A buffer belongs to the pool or to one value of one worker, and holds that value.
BufferInv ==
  \A w \in Workers :
    /\ Held(w) \subseteq Buffers \ free
    /\ \A v \in Workers \ {w} : Held(w) \cap Held(v) = {}
    /\ \A f, g \in DOMAIN values[w] : values[w][f] = values[w][g] => f = g
    /\ \A f \in DOMAIN values[w] : content[values[w][f]] = Value(op[w].key, f)

\* The writes that are still to come.
Pending == {w \in Workers : pc[w] \in {"read", "write"} /\ op[w].kind \in WriteKinds}

CommitInv == commits + Cardinality(Pending) <= ops

\* A row with values of its key, in the form in which the workload built them unless the
\* adapter is redis's JSON type.
GoodRow(k, r) ==
  /\ r = [f \in DOMAIN r |-> r[f]]
  /\ DOMAIN r \subseteq Fields
  /\ \A f \in DOMAIN r : /\ r[f].key = k /\ r[f].field = f
                         /\ adapter # "redisJson" => r[f] = Value(k, f)

TableInv == \A k \in Keys : Here(k) # NoRow => GoodRow(k, Here(k))

\* The row that is about to be verified.
VerifyInv ==
  \A w \in Workers :
    /\ pc[w] = "verify" \/ (pc[w] = "write" /\ op[w].kind = "rmw")
    /\ adapter # "redisJson"
    => \A f \in DOMAIN got[w].row : got[w].row[f] = Value(op[w].key, f)

IInv ==
  /\ TypesInv /\ PointInv /\ BufferInv /\ CommitInv /\ TableInv /\ VerifyInv
  /\ VerifyPasses /\ ReadExact /\ ScanExact
-----------------------------------------------------------------------------
(* The row codec. *)

\* There are finitely many fields, and each has an index.
LEMMA FieldsFinite ==
  /\ IsFiniteSet(Fields)
  /\ \A f \in Fields : \E i \in DOMAIN FieldNames : FieldNames[i] = f
  /\ \E n \in Nat : DOMAIN FieldNames = 1 .. n
  <1> DEFINE D == DOMAIN FieldNames
  <1>1. FieldNames \in Seq(Fields)
    BY ReadsAssumption DEF Fields
  <1>2. D = 1 .. Len(FieldNames) /\ Len(FieldNames) \in Nat
    BY <1>1
  <1>3. IsFiniteSet(1 .. Len(FieldNames))
    BY <1>2, FS_Interval
  <1>4. \A f \in Fields : \E i \in D : FieldNames[i] = f
    BY DEF Fields
  <1>5. FieldNames \in [1 .. Len(FieldNames) -> Fields]
    BY <1>1, <1>2
  <1>6. FieldNames \in Surjection(1 .. Len(FieldNames), Fields)
    BY <1>2, <1>4, <1>5 DEF Surjection
  <1>7. IsFiniteSet(Fields)
    BY <1>3, <1>6, FS_Surjection
  <1> QED BY <1>2, <1>4, <1>7

\* No two fields share an index.
LEMMA IndicesDiffer ==
  ASSUME NEW f \in Fields, NEW g \in Fields, createFieldIndices[f] = createFieldIndices[g]
  PROVE  f = g
  <1> DEFINE I(h) == CHOOSE i \in DOMAIN FieldNames : FieldNames[i] = h
  <1>1. /\ I(f) \in DOMAIN FieldNames /\ FieldNames[I(f)] = f
        /\ I(g) \in DOMAIN FieldNames /\ FieldNames[I(g)] = g
    BY FieldsFinite
  <1>2. createFieldIndices[f] = I(f) - 1 /\ createFieldIndices[g] = I(g) - 1
    BY DEF createFieldIndices
  <1>3. I(f) \in Int /\ I(g) \in Int
    BY <1>1, FieldsFinite
  <1> HIDE DEF I
  <1>4. I(f) - 1 = I(g) - 1
    BY <1>2
  <1>5. I(f) = I(g)
    BY <1>3, <1>4
  <1> QED BY <1>1, <1>5

\* The order of the numbers is well-founded.
Less == {p \in Nat \X Nat : p[1] < p[2]}

LEMMA LessWellFounded == IsWellFoundedOn(Less, Nat)
  <1> DEFINE R == OpToRel(<, Nat)
  <1>1. IsWellFoundedOn(R, Nat)
    BY NatLessThanWellFounded
  <1>2. Less \cap (Nat \X Nat) \subseteq R
    BY DEF OpToRel, Less
  <1> QED BY <1>1, <1>2, IsWellFoundedOnSubrelation

\* A set of places has a last one.
LEMMA LastPlace ==
  ASSUME NEW n \in Nat, NEW S \in SUBSET (1 .. n), S # {}
  PROVE  Max(S) \in S
  <1> DEFINE T == {i \in 0 .. n : n - i \in S}
  <1>1. T \subseteq Nat /\ T # {}
    <2>1. PICK i \in S : TRUE
      OBVIOUS
    <2>2. n - i \in 0 .. n /\ n - (n - i) = i
      BY <2>1
    <2>3. n - i \in T
      BY <2>1, <2>2
    <2>4. T \subseteq 0 .. n
      OBVIOUS
    <2> HIDE DEF T
    <2> QED BY <2>3, <2>4
  <1>2. PICK m \in T : \A j \in T : ~(<<j, m>> \in Less)
    BY <1>1, LessWellFounded, WFMin
  <1>3. n - m \in S
    BY <1>2
  <1>4. \A i \in S : n - m >= i
    <2> SUFFICES ASSUME NEW i \in S PROVE n - m >= i
      OBVIOUS
    <2>1. n - i \in 0 .. n /\ n - (n - i) = i
      OBVIOUS
    <2>2. n - i \in T
      BY <2>1
    <2>3. ~(n - i < m)
      BY <1>1, <1>2, <2>2 DEF Less
    <2> QED BY <1>1, <1>2, <2>3
  <1> QED BY <1>3, <1>4 DEF Max

\* Decode undoes Encode, in whatever order the map gave the fields.
LEMMA DecodeEncode ==
  ASSUME NEW row, row = [f \in DOMAIN row |-> row[f]], DOMAIN row \subseteq Fields,
         NEW n \in Nat, NEW order \in [1 .. n -> DOMAIN row],
         \A f \in DOMAIN row : \E i \in 1 .. n : order[i] = f
  PROVE  Decode(Encode(row, order), {}) = row
  <1> DEFINE b == Encode(row, order)
             idx == createFieldIndices
             data == DecodeRow(b)
  <1>1. b = [i \in 1 .. n |-> [id |-> idx[order[i]], value |-> row[order[i]]]]
    BY DEF Encode, EncodeRow
  <1> HIDE DEF b, idx
  <1>2. /\ DOMAIN b = 1 .. n
        /\ \A i \in 1 .. n : b[i].id = idx[order[i]] /\ b[i].value = row[order[i]]
    BY <1>1
  <1>3. /\ DOMAIN data = {b[i].id : i \in DOMAIN b}
        /\ \A id \in DOMAIN data : data[id] = b[Max({i \in DOMAIN b : b[i].id = id})].value
    BY DEF DecodeRow
  <1>4. \A f \in DOMAIN row : idx[f] \in DOMAIN data /\ data[idx[f]] = row[f]
    <2> SUFFICES ASSUME NEW f \in DOMAIN row
                 PROVE  idx[f] \in DOMAIN data /\ data[idx[f]] = row[f]
      OBVIOUS
    <2> DEFINE S == {i \in DOMAIN b : b[i].id = idx[f]}
    <2>1. PICK i \in 1 .. n : order[i] = f
      OBVIOUS
    <2>2. idx[f] \in DOMAIN data /\ i \in S
      BY <1>2, <1>3, <2>1
    <2>3. S \in SUBSET (1 .. n) /\ S # {}
      BY <1>2, <2>2
    <2> HIDE DEF data
    <2>4. data[idx[f]] = b[Max(S)].value
      BY <1>3, <2>2
    <2>5. Max(S) \in S
      BY <2>3, LastPlace
    <2>6. Max(S) \in 1 .. n /\ idx[order[Max(S)]] = idx[f]
      BY <1>2, <2>5
    <2> HIDE DEF S
    <2>7. order[Max(S)] = f
      BY <2>6, IndicesDiffer DEF idx
    <2> QED BY <1>2, <2>2, <2>4, <2>6, <2>7
  <1>5. \A f \in Fields : idx[f] \in DOMAIN data => f \in DOMAIN row
    <2> SUFFICES ASSUME NEW f \in Fields, idx[f] \in DOMAIN data
                 PROVE  f \in DOMAIN row
      OBVIOUS
    <2>1. PICK i \in 1 .. n : idx[f] = idx[order[i]]
      BY <1>2, <1>3
    <2>2. order[i] \in DOMAIN row /\ order[i] \in Fields
      OBVIOUS
    <2>3. f = order[i]
      BY <2>1, <2>2, IndicesDiffer DEF idx
    <2> QED BY <2>2, <2>3
  <1> HIDE DEF data
  <1> DEFINE F == {g \in Fields : idx[g] \in DOMAIN data}
  <1>6. F = DOMAIN row
    BY <1>4, <1>5
  <1>7. Decode(b, {}) = [f \in F |-> data[idx[f]]]
    BY DEF Decode, data, idx
  <1>8. [f \in F |-> data[idx[f]]] = [f \in DOMAIN row |-> row[f]]
    BY <1>4, <1>6
  <1> QED BY <1>7, <1>8 DEF b

\* The stored forms of a row all stand for it.
LEMMA FormatsParse ==
  ASSUME NEW k \in Keys, NEW row, GoodRow(k, row), NEW record \in Formats(row)
  PROVE  Parse(record) = row
  <1>1. CASE adapter \in CodecAdapters
    <2>1. PICK order \in SetToSeqs(DOMAIN row) : record = Encode(row, order)
      BY <1>1 DEF Formats
    <2> DEFINE S == DOMAIN row
               n == Cardinality(S)
    <2>2. IsFiniteSet(S)
      BY FieldsFinite, FS_Subset DEF GoodRow
    <2>3. n \in Nat
      BY <2>2, FS_CardinalityType
    <2>4. order \in [1 .. n -> S] /\ \A i, j \in 1 .. n : i # j => order[i] # order[j]
      BY <2>1 DEF SetToSeqs
    <2> HIDE DEF S, n
    <2>5. order \in Injection(1 .. n, S)
      BY <2>4 DEF Injection, IsInjective
    <2>6. Cardinality(1 .. n) = n
      BY <2>3, FS_Interval
    <2>7. order \in Surjection(1 .. n, S)
      BY <2>2, <2>5, <2>6, FS_Injection DEF n
    <2>8. \A f \in S : \E i \in 1 .. n : order[i] = f
      BY <2>7 DEF Surjection
    <2>9. row = [f \in DOMAIN row |-> row[f]] /\ DOMAIN row \subseteq Fields
      BY DEF GoodRow
    <2>10. Decode(Encode(row, order), {}) = row
      BY <2>3, <2>4, <2>8, <2>9, DecodeEncode DEF S
    <2> QED BY <1>1, <2>1, <2>10 DEF Parse
  <1>2. CASE adapter \notin CodecAdapters
    BY <1>2 DEF Formats, Parse
  <1> QED BY <1>1, <1>2
-----------------------------------------------------------------------------
(* Read and Scan. *)

\* What a read gives: an error, nothing, or fields of the record.
LEMMA ReadKinds ==
  ASSUME adapter \in Adapters, NEW row, NEW fields, NEW r, r = ReadOf(row, fields)
  PROVE  \/ r = Error
         \/ r = Ok(EmptyRow) /\ (row = NoRow \/ adapter \in {"pegasus", "redisHash"})
         \/ row # NoRow /\ (r = Ok(Only(row, fields)) \/ r = Ok(Only(row, Fields)))
         \/ /\ row # NoRow /\ adapter = "redisJson"
            /\ r = Ok([f \in DOMAIN row \cap fields |-> JsonForm(row[f])])
  <1>1. adapter \in {"badger", "boltdb", "rocksdb", "tikv", "raw", "fdb", "redisString",
                     "redisHash", "redisJson", "etcd", "pegasus", "aerospike"}
    BY ReadsAssumption DEF CodecAdapters, RedisAdapters
  <1>2. CASE adapter \in {"badger", "boltdb"}
    BY <1>2 DEF ReadOf, BadgerRead, BoltRead, OrError
  <1>3. CASE adapter \in {"rocksdb", "tikv", "raw", "fdb"}
    BY <1>3 DEF ReadOf, RocksRead, TxnRead, RawRead, FdbRead, OrEmpty
  <1>4. CASE adapter \in {"etcd", "redisString"}
    BY <1>4 DEF ReadOf, EtcdRead, StringRead, OrError
  <1>5. CASE adapter = "aerospike"
    BY <1>5 DEF ReadOf, AerospikeRead, OrEmpty
  <1>6. CASE adapter = "redisHash"
    BY <1>6 DEF ReadOf, HashRead
  <1>7. CASE adapter = "redisJson"
    BY <1>7 DEF ReadOf, JsonRead
  <1>8. CASE adapter = "pegasus"
    BY <1>8 DEF ReadOf, PegasusRead
  <1> QED BY <1>1, <1>2, <1>3, <1>4, <1>5, <1>6, <1>7, <1>8

\* What is read of a good record is good, and is all that was asked for.
LEMMA ReadFacts ==
  ASSUME adapter \in Adapters, TableInv, NEW k \in Keys, NEW fields \in SUBSET Fields,
         NEW r \in Reads(k, fields)
  PROVE  /\ r.error \in BOOLEAN
         /\ ~r.error /\ adapter # "redisJson" => \A f \in DOMAIN r.row : r.row[f] = Value(k, f)
         /\ ~r.error /\ Here(k) # NoRow =>
              \/ fields \cap DOMAIN Here(k) \subseteq DOMAIN r.row
              \/ adapter \in {"pegasus", "redisHash"} /\ r.row = EmptyRow
  <1> DEFINE row == Here(k)
  <1>1. row # NoRow => GoodRow(k, row)
    BY DEF TableInv
  <1> HIDE DEF row
  <1>2. DOMAIN EmptyRow = {}
    BY DEF EmptyRow
  <1>3. r = ReadFails \/ r = ReadOf(row, fields)
    BY DEF Reads, row
  <1>4. CASE r = Error
    BY <1>4 DEF Error
  <1>5. CASE r = Ok(EmptyRow) /\ (row = NoRow \/ adapter \in {"pegasus", "redisHash"})
    BY <1>2, <1>5 DEF Ok, row
  <1>6. CASE row # NoRow /\ (r = Ok(Only(row, fields)) \/ r = Ok(Only(row, Fields)))
    <2>1. PICK F \in {fields, Fields} : r = Ok(Only(row, F))
      BY <1>6
    <2>2. ~r.error /\ r.error \in BOOLEAN /\ r.row = [f \in DOMAIN row \cap F |-> row[f]]
      BY <2>1 DEF Ok, Only
    <2> QED BY <1>1, <1>6, <2>1, <2>2 DEF GoodRow, row
  <1>7. CASE /\ row # NoRow /\ adapter = "redisJson"
             /\ r = Ok([f \in DOMAIN row \cap fields |-> JsonForm(row[f])])
    BY <1>7 DEF Ok, row
  <1>8. CASE r = ReadFails
    BY <1>2, <1>8 DEF ReadFails, Error, Ok
  <1> QED BY <1>3, <1>4, <1>5, <1>6, <1>7, <1>8, ReadKinds

LEMMA MinOfTwo ==
  ASSUME NEW a \in Int, NEW b \in Int
  PROVE  Min({a, b}) = IF a <= b THEN a ELSE b
  <1>1. CASE a <= b
    <2>1. \A x \in {a, b} : (\A y \in {a, b} : x <= y) => x = a
      BY <1>1
    <2>2. \E x \in {a, b} : \A y \in {a, b} : x <= y
      BY <1>1
    <2> QED BY <1>1, <2>1, <2>2 DEF Min
  <1>2. CASE ~(a <= b)
    <2>1. \A x \in {a, b} : (\A y \in {a, b} : x <= y) => x = b
      BY <1>2
    <2>2. \E x \in {a, b} : \A y \in {a, b} : x <= y
      BY <1>2
    <2> QED BY <1>2, <2>1, <2>2 DEF Min
  <1> QED BY <1>1, <1>2

\* The keys of a scan are a sequence, and the first of them too.
LEMMA FirstKeys ==
  ASSUME NEW k, NEW n \in Nat
  PROVE  LET ks == KeysFrom(k)
             fs == FirstOf(ks, n) IN
         /\ Len(ks) \in Nat /\ DOMAIN ks = 1 .. Len(ks)
         /\ Len(fs) \in 0 .. n /\ DOMAIN fs = 1 .. Len(fs)
         /\ Len(ks) = n => fs = ks
  <1> DEFINE S == {j \in Keys : j >= k /\ table[j] # NoRow}
             c == Cardinality(S)
             ks == KeysFrom(k)
             fs == FirstOf(ks, n)
  <1>1. c \in Nat
    <2>1. S \in SUBSET Keys
      OBVIOUS
    <2> HIDE DEF S
    <2>2. IsFiniteSet(S)
      BY <2>1, ReadsAssumption, FS_Subset
    <2> QED BY <2>2, FS_CardinalityType
  <1>2. ks = [i \in 1 .. c |-> ks[i]]
    <2> DEFINE e(i) == CHOOSE x \in S : Cardinality({j \in S : j < x}) = i - 1
    <2>1. ks = [i \in 1 .. c |-> e(i)]
      BY DEF KeysFrom, Ascending
    <2> HIDE DEF e, ks, c
    <2> QED BY <2>1
  <1> HIDE DEF ks, c
  <1> DEFINE T == {ks[i] : i \in 1 .. c}
  <1>3. ks \in [1 .. c -> T]
    BY <1>2
  <1> HIDE DEF T
  <1>4. ks \in Seq(T) /\ Len(ks) = c /\ DOMAIN ks = 1 .. c
    BY <1>1, <1>3
  <1> DEFINE m == Min({n, Len(ks)})
  <1>5. m = IF n <= c THEN n ELSE c
    BY <1>1, <1>4, MinOfTwo
  <1>6. m \in Nat /\ m <= n /\ m <= c
    BY <1>1, <1>5
  <1>7. fs = SubSeq(ks, 1, m)
    BY DEF FirstOf
  <1> HIDE DEF fs, m
  <1>8. Len(fs) = m /\ DOMAIN fs = 1 .. m /\ (m = c => fs = ks)
    BY <1>1, <1>4, <1>6, <1>7
  <1>9. /\ Len(ks) \in Nat /\ DOMAIN ks = 1 .. Len(ks)
        /\ Len(fs) \in 0 .. n /\ DOMAIN fs = 1 .. Len(fs)
        /\ Len(ks) = n => fs = ks
    BY <1>1, <1>4, <1>5, <1>6, <1>8
  <1> QED BY <1>9 DEF ks, fs

\* Padding around a sequence of rows.
PadBefore(n, s) == Nils(n) \o s

LEMMA Padding ==
  ASSUME NEW s, NEW m \in Nat, DOMAIN s = 1 .. m, s = [i \in DOMAIN s |-> s[i]]
  PROVE  /\ Len(s) = m
         /\ Nils(0) \o s = s /\ s \o Nils(0) = s
         /\ \A n \in Nat : PadBefore(n, s) \o Nils(0) = PadBefore(n, s)
  <1> DEFINE T == {s[i] : i \in 1 .. m} \cup {NoRow}
  <1>1. s \in [1 .. m -> T]
    OBVIOUS
  <1>2. NoRow \in T
    OBVIOUS
  <1> HIDE DEF T
  <1>3. s \in Seq(T) /\ Len(s) = m
    BY <1>1
  <1>4. Nils(0) = <<>>
    BY DEF Nils
  <1>5. <<>> \o s = s /\ s \o <<>> = s
    BY <1>3
  <1>6. ASSUME NEW n \in Nat PROVE PadBefore(n, s) \o <<>> = PadBefore(n, s)
    <2>1. Nils(n) \in Seq(T)
      BY <1>2 DEF Nils
    <2>2. PadBefore(n, s) \in Seq(T)
      BY <1>3, <2>1 DEF PadBefore
    <2> QED BY <2>2
  <1> QED BY <1>3, <1>4, <1>5, <1>6

\* The scans that give one result.
LEMMA ScanKinds ==
  ASSUME NEW k, NEW n, NEW fields
  PROVE  /\ adapter \in {"badger", "boltdb", "rocksdb"} =>
              Scans(k, n, fields) = {Ok(Padded(k, n, fields))}
         /\ adapter \in {"tikv", "raw", "fdb"} =>
              Scans(k, n, fields) = {Ok(RowsOf(Scanned(k, n), fields))}
         /\ adapter = "etcd" => Scans(k, n, fields) = {EtcdScan(k, n)}
         /\ adapter \in RedisAdapters => Scans(k, n, fields) = {Error}
  <1>1. CASE adapter = "badger"
    BY <1>1 DEF Scans, BadgerScan, RedisAdapters
  <1>2. CASE adapter = "boltdb"
    BY <1>2 DEF Scans, BoltScan, RedisAdapters
  <1>3. CASE adapter = "rocksdb"
    BY <1>3 DEF Scans, RocksScan, RedisAdapters
  <1>4. CASE adapter = "tikv"
    BY <1>4 DEF Scans, TxnScan, RedisAdapters
  <1>5. CASE adapter = "raw"
    BY <1>5 DEF Scans, RawScan, RedisAdapters
  <1>6. CASE adapter = "fdb"
    BY <1>6 DEF Scans, FdbScan, RedisAdapters
  <1>7. CASE adapter = "etcd"
    BY <1>7 DEF Scans, RedisAdapters
  <1>8. CASE adapter \in RedisAdapters
    BY <1>8 DEF Scans, RedisScan, RedisAdapters
  <1> QED BY <1>1, <1>2, <1>3, <1>4, <1>5, <1>6, <1>7, <1>8 DEF RedisAdapters

WantedRows(k, n, fields) ==
  RowsOf(FirstOf(KeysFrom(k), n), IF adapter = "etcd" THEN Fields ELSE fields)

\* The wanted rows, with nils before or after them.
PaddedRows(row, n, wanted) ==
  \E before \in {0, n}, after \in {0, n - Len(wanted)} :
    row = Nils(before) \o wanted \o Nils(after)

\* What a scan gives is the wanted rows, with padding.
LEMMA ScanFacts ==
  ASSUME adapter \in Adapters, adapter \notin {"pegasus", "aerospike"},
         NEW k, NEW n \in Nat, NEW fields, NEW r \in Scans(k, n, fields) \cup {Error}, ~r.error
  PROVE  PaddedRows(r.row, n, WantedRows(k, n, fields))
  <1> SUFFICES ASSUME NEW wanted,
                      wanted = RowsOf(FirstOf(KeysFrom(k), n),
                                      IF adapter = "etcd" THEN Fields ELSE fields)
               PROVE  \E before \in {0, n}, after \in {0, n - Len(wanted)} :
                        r.row = Nils(before) \o wanted \o Nils(after)
    BY DEF PaddedRows, WantedRows
  <1> DEFINE ks == KeysFrom(k)
             fs == FirstOf(ks, n)
             m == Len(fs)
  <1>1. /\ Len(ks) \in Nat /\ DOMAIN ks = 1 .. Len(ks)
        /\ m \in 0 .. n /\ DOMAIN fs = 1 .. m
        /\ Len(ks) = n => fs = ks
    BY FirstKeys
  <1> HIDE DEF ks, fs, m
  <1>2. DOMAIN wanted = 1 .. m /\ wanted = [i \in DOMAIN wanted |-> wanted[i]]
    BY <1>1 DEF RowsOf, ks, fs
  <1>3. m \in Nat /\ n - m \in Nat
    <2>1. m \in 0 .. n
      BY <1>1
    <2> QED BY <2>1
  <1>4. /\ Len(wanted) = m
        /\ Nils(0) \o wanted \o Nils(0) = wanted
        /\ Nils(0) \o wanted \o Nils(n - m) = wanted \o Nils(n - m)
        /\ Nils(n) \o wanted \o Nils(0) = Nils(n) \o wanted
    <2>1. /\ Len(wanted) = m
          /\ Nils(0) \o wanted = wanted /\ wanted \o Nils(0) = wanted
      BY <1>2, <1>3, Padding
    <2>2. PadBefore(n, wanted) \o Nils(0) = PadBefore(n, wanted)
      BY <1>2, <1>3, Padding
    <2>3. PadBefore(n, wanted) = Nils(n) \o wanted
      BY DEF PadBefore
    <2> QED BY <2>1, <2>2, <2>3, Zenon
  <1>5. r # Error /\ r \in Scans(k, n, fields)
    <2>1. r # Error
      BY DEF Error
    <2> QED BY <2>1
  <1>6. adapter \in {"badger", "boltdb", "rocksdb", "tikv", "raw", "fdb", "redisString",
                     "redisHash", "redisJson", "etcd"}
    BY ReadsAssumption DEF CodecAdapters, RedisAdapters
  <1>7. CASE adapter \in {"badger", "boltdb", "rocksdb"}
    <2>1. r = Ok(Padded(k, n, fields))
      BY <1>5, <1>7, ScanKinds
    <2>2. wanted = RowsOf(Scanned(k, n), fields)
      BY <1>7 DEF Scanned
    <2>3. r.row = wanted \o Nils(n - Len(wanted))
      BY <2>1, <2>2 DEF Padded, Ok
    <2> QED BY <1>4, <2>3
  <1>8. CASE adapter \in {"tikv", "raw", "fdb"}
    <2>1. r = Ok(RowsOf(Scanned(k, n), fields))
      BY <1>5, <1>8, ScanKinds
    <2>2. r.row = wanted
      BY <1>8, <2>1 DEF Scanned, Ok
    <2> QED BY <1>4, <2>2
  <1>9. CASE adapter = "etcd"
    <2>1. r = EtcdScan(k, n)
      BY <1>5, <1>9, ScanKinds
    <2>2. Len(ks) = n /\ r = Ok(Nils(n) \o RowsOf(ks, Fields))
      BY <1>5, <2>1 DEF EtcdScan, ks
    <2>3. wanted = RowsOf(ks, Fields)
      BY <1>1, <1>9, <2>2 DEF fs, ks
    <2>4. r.row = Nils(n) \o wanted
      BY <2>2, <2>3 DEF Ok
    <2> QED BY <1>4, <2>4
  <1>10. CASE adapter \in {"redisString", "redisHash", "redisJson"}
    BY <1>5, <1>10, ScanKinds DEF RedisAdapters
  <1> QED BY <1>6, <1>7, <1>8, <1>9, <1>10
-----------------------------------------------------------------------------
(* The steps. *)

\* A set of workers has a size.
LEMMA WorkerSets ==
  ASSUME NEW S \in SUBSET Workers
  PROVE  IsFiniteSet(S) /\ Cardinality(S) \in Nat
  BY ReadsAssumption, FS_Subset, FS_CardinalityType

\* The row of a key, from values of that key, is good.
LEMMA GoodValues ==
  ASSUME NEW k, NEW kind, NEW S \in SUBSET Fields, NEW r,
         r = [f \in S |-> StoredForm(kind, Value(k, f))]
  PROVE  GoodRow(k, r)
  BY DEF GoodRow, StoredForm, Value

\* Initially every record is as the load left it.
LEMMA InitIInv == Init => IInv
  <1> SUFFICES ASSUME Init PROVE IInv
    OBVIOUS
  <1> USE DEF Init
  <1>1. \A w \in Workers : /\ pc[w] = "idle" /\ op[w] = NoOp /\ values[w] = EmptyRow
                           /\ got[w] = NoGot /\ rows[w] = NoRows /\ verdict[w] = "none"
    OBVIOUS
  <1>2. TypesInv
    <2>1. NoOp \in [kind : Kinds, key : Keys \cup {0}, fields : SUBSET Fields, count : 0 .. MaxScan]
      BY ReadsAssumption DEF NoOp, Kinds
    <2>2. op \in [Workers -> [kind : Kinds, key : Keys \cup {0}, fields : SUBSET Fields,
                              count : 0 .. MaxScan]]
      BY <2>1
    <2>3. EmptyRow \in [{} -> Buffers]
      BY DEF EmptyRow
    <2>4. EmptyRow \in UNION {[F -> Buffers] : F \in SUBSET Fields}
      BY <2>3
    <2>5. values \in [Workers -> UNION {[F -> Buffers] : F \in SUBSET Fields}]
      BY <2>4
    <2>6. /\ content = [b \in Buffers |-> content[b]] /\ got = [w \in Workers |-> got[w]]
          /\ rows = [w \in Workers |-> rows[w]] /\ table = [k \in Keys |-> table[k]]
      OBVIOUS
    <2>7. /\ adapter \in Adapters /\ varying \in BOOLEAN /\ commits \in Nat /\ free \in SUBSET Buffers
      OBVIOUS
    <2>8. ops \in 0 .. MaxOps
      BY ReadsAssumption
    <2>9. /\ pc \in [Workers -> {"idle", "read", "scan", "write", "verify", "put"}]
          /\ verdict \in [Workers -> {"none", "ok", "fatal"}]
      OBVIOUS
    <2> QED BY <2>2, <2>5, <2>6, <2>7, <2>8, <2>9 DEF TypesInv
  <1>3. PointInv
    BY <1>1 DEF PointInv
  <1>4. BufferInv
    <2>1. \A w \in Workers : DOMAIN values[w] = {}
      BY <1>1 DEF EmptyRow
    <2>2. \A w \in Workers : Held(w) = {}
      BY <2>1 DEF Held
    <2> QED BY <2>1, <2>2 DEF BufferInv
  <1>5. CommitInv
    <2>1. Pending = {}
      BY <1>1 DEF Pending
    <2> QED BY <2>1, FS_EmptySet DEF CommitInv
  <1>6. TableInv
    <2> SUFFICES ASSUME NEW k \in Keys, Here(k) # NoRow PROVE GoodRow(k, Here(k))
      BY DEF TableInv
    <2> DEFINE row == [f \in Fields |-> StoredForm("insert", Value(k, f))]
    <2>1. Here(k) = Parse(Loaded(k))
      BY DEF Here
    <2>2. GoodRow(k, row)
      BY GoodValues
    <2>3. Parse(Loaded(k)) = row
      <3>1. CASE adapter \in CodecAdapters
        <4>1. PICK n \in Nat : DOMAIN FieldNames = 1 .. n
          BY FieldsFinite
        <4>2. FieldNames \in [1 .. n -> Fields]
          BY <4>1, ReadsAssumption DEF Fields
        <4>3. DOMAIN row = Fields /\ row = [f \in DOMAIN row |-> row[f]]
          OBVIOUS
        <4>4. Loaded(k) = Encode(row, FieldNames)
          BY <3>1 DEF Loaded
        <4> HIDE DEF row
        <4>5. Decode(Encode(row, FieldNames), {}) = row
          BY <4>1, <4>2, <4>3, FieldsFinite, DecodeEncode
        <4> QED BY <3>1, <4>4, <4>5 DEF Parse
      <3>2. CASE adapter \notin CodecAdapters
        BY <3>2 DEF Parse, Loaded
      <3> QED BY <3>1, <3>2
    <2> QED BY <2>1, <2>2, <2>3
  <1>7. VerifyInv /\ VerifyPasses
    BY <1>1 DEF VerifyInv, VerifyPasses
  <1>8. ReadExact
    BY <1>1 DEF ReadExact, NoGot
  <1>9. ScanExact
    BY <1>1 DEF ScanExact, NoRows, Error
  <1> QED BY <1>2, <1>3, <1>4, <1>5, <1>6, <1>7, <1>8, <1>9 DEF IInv

\* What ScanExact says of a worker.
ScanOK(w) ==
  ~rows[w].result.error /\ adapter \notin {"pegasus", "aerospike"} =>
    PaddedRows(rows[w].result.row, op[w].count, rows[w].wanted)

LEMMA ScanParts == ScanExact <=> \A w \in Workers : ScanOK(w)
  BY DEF ScanExact, ScanOK, PaddedRows

LEMMA ScanPartsNext == ScanExact' <=> \A w \in Workers : ScanOK(w)'
  BY DEF ScanExact, ScanOK, PaddedRows

\* A worker whose result is the same.
LEMMA SameScan ==
  ASSUME NEW w \in Workers, ScanOK(w), adapter' = adapter, op'[w] = op[w], rows'[w] = rows[w]
  PROVE  ScanOK(w)'
  BY DEF ScanOK

\* Records change with the table only.
LEMMA SameTable ==
  ASSUME TableInv, UNCHANGED <<adapter, table>>
  PROVE  TableInv'
  <1>1. \A k \in Keys : Here(k)' = Here(k)
    BY DEF Here, Parse
  <1> QED BY <1>1 DEF TableInv, GoodRow

\* A worker that begins an operation leaves what the others have read alone.
LEMMA BeginQuiet ==
  ASSUME IInv, ~Fatal, NEW w \in Workers, pc[w] = "idle",
         UNCHANGED <<settings, got, rows, verdict>>,
         \A v \in Workers \ {w} : op'[v] = op[v] /\ pc'[v] = pc[v],
         pc'[w] # "verify", ~(pc'[w] = "write" /\ op'[w].kind = "rmw")
  PROVE  VerifyInv' /\ VerifyPasses' /\ ReadExact' /\ ScanExact'
  <1>1. got[w] = NoGot /\ rows[w] = NoRows
    BY DEF IInv, PointInv
  <1>2. got' = got /\ rows' = rows /\ verdict' = verdict /\ adapter' = adapter
    BY DEF settings
  <1>3. VerifyInv'
    BY <1>2 DEF IInv, VerifyInv
  <1>4. VerifyPasses'
    BY <1>2 DEF Fatal, VerifyPasses
  <1>5. ReadExact'
    BY <1>1, <1>2 DEF IInv, ReadExact, NoGot
  <1>6. ScanExact'
    <2>1. \A v \in Workers : ScanOK(v)
      BY ScanParts DEF IInv
    <2>2. ScanOK(w)'
      BY <1>1, <1>2 DEF NoRows, Error, ScanOK
    <2>3. \A v \in Workers \ {w} : ScanOK(v)'
      BY <1>2, <2>1, SameScan
    <2> QED BY <2>2, <2>3, ScanPartsNext
  <1> QED BY <1>3, <1>4, <1>5, <1>6

\* The values that a write builds go to buffers of the pool.
LEMMA StartWriteIInv ==
  ASSUME IInv, ~Fatal, NEW w \in Workers, StartWrite(w)
  PROVE  IInv'
  <1> USE DEF IInv
  <1>1. PICK kind \in {"insert", "update", "rmw"}, k \in Keys :
          /\ At(w, "idle", IF kind = "rmw" THEN "read" ELSE "write")
          /\ \E rf \in FieldChoices(all.read \/ kind # "rmw") :
               op' = [op EXCEPT ![w] = [kind |-> kind, key |-> k, fields |-> rf, count |-> 0]]
          /\ \E wf \in FieldChoices(all.write \/ kind = "insert") : BuildValues(w, k, wf)
    BY DEF StartWrite
  <1>2. PICK rf \in FieldChoices(all.read \/ kind # "rmw") :
          op' = [op EXCEPT ![w] = [kind |-> kind, key |-> k, fields |-> rf, count |-> 0]]
    BY <1>1
  <1>3. PICK wf \in FieldChoices(all.write \/ kind = "insert") : BuildValues(w, k, wf)
    BY <1>1
  <1>4. PICK bs \in [wf -> free] :
          /\ IsInjective(bs)
          /\ content' = [b \in Buffers |->
                           IF \E f \in wf : bs[f] = b
                           THEN Value(k, CHOOSE f \in wf : bs[f] = b) ELSE content[b]]
          /\ values' = [values EXCEPT ![w] = bs]
          /\ free' = free \ {bs[f] : f \in wf}
    BY <1>3 DEF BuildValues
  <1>5. rf \in SUBSET Fields /\ wf \in SUBSET Fields
    BY DEF FieldChoices
  <1>6. /\ ops < MaxOps /\ ops' = ops + 1
        /\ UNCHANGED <<settings, storeVars, got, rows, verdict>>
    BY DEF StartWrite
  <1> DEFINE to == IF kind = "rmw" THEN "read" ELSE "write"
  <1>7. to \in {"read", "write"} /\ (to = "read" <=> kind = "rmw")
    OBVIOUS
  <1>8. pc[w] = "idle" /\ pc' = [pc EXCEPT ![w] = to]
    BY <1>1 DEF At
  <1> HIDE DEF to
  <1>9. pc'[w] = to /\ \A v \in Workers \ {w} : pc'[v] = pc[v]
    BY <1>8 DEF TypesInv
  <1>10. /\ op'[w] = [kind |-> kind, key |-> k, fields |-> rf, count |-> 0]
         /\ \A v \in Workers \ {w} : op'[v] = op[v]
    BY <1>2 DEF TypesInv
  <1>11. values'[w] = bs /\ \A v \in Workers \ {w} : values'[v] = values[v]
    BY <1>4 DEF TypesInv
  <1>12. bs \in [wf -> Buffers] /\ DOMAIN bs = wf
    BY DEF TypesInv
  <1>13. values[w] = EmptyRow /\ op[w] = NoOp
    BY <1>8 DEF PointInv
  <1>14. TypesInv'
    <2>1. op' \in [Workers -> [kind : Kinds, key : Keys \cup {0}, fields : SUBSET Fields,
                               count : 0 .. MaxScan]]
      <3>1. [kind |-> kind, key |-> k, fields |-> rf, count |-> 0]
              \in [kind : Kinds, key : Keys \cup {0}, fields : SUBSET Fields, count : 0 .. MaxScan]
        BY <1>5, ReadsAssumption DEF Kinds
      <3> QED BY <1>2, <3>1 DEF TypesInv
    <2>2. values' \in [Workers -> UNION {[F -> Buffers] : F \in SUBSET Fields}]
      <3>1. bs \in UNION {[F -> Buffers] : F \in SUBSET Fields}
        BY <1>5, <1>12
      <3> QED BY <1>4, <3>1 DEF TypesInv
    <2>3. content' = [b \in Buffers |-> content'[b]]
      BY <1>4
    <2>4. free' \in SUBSET Buffers
      BY <1>4 DEF TypesInv
    <2>5. ops' \in 0 .. MaxOps
      BY <1>6, ReadsAssumption DEF TypesInv
    <2>6. pc' \in [Workers -> {"idle", "read", "scan", "write", "verify", "put"}]
      BY <1>7, <1>8 DEF TypesInv
    <2> QED BY <1>6, <2>1, <2>2, <2>3, <2>4, <2>5, <2>6 DEF TypesInv, settings, storeVars
  <1>15. PointInv'
    BY <1>6, <1>7, <1>9, <1>10, <1>11 DEF PointInv, WriteKinds
  <1>16. \A f \in wf : content'[bs[f]] = Value(k, f)
    <2> SUFFICES ASSUME NEW f \in wf PROVE content'[bs[f]] = Value(k, f)
      OBVIOUS
    <2>1. \A g \in wf : bs[g] = bs[f] => g = f
      BY <1>4, <1>12 DEF IsInjective
    <2>2. (CHOOSE g \in wf : bs[g] = bs[f]) = f
      BY <2>1
    <2>3. bs[f] \in Buffers
      BY <1>12
    <2> QED BY <1>4, <2>2, <2>3
  <1>17. BufferInv'
    <2>1. Held(w)' = {bs[f] : f \in wf} /\ \A v \in Workers \ {w} : Held(v)' = Held(v)
      BY <1>11, <1>12 DEF Held
    <2>2. \A v \in Workers \ {w} : Held(v) \cap {bs[f] : f \in wf} = {}
      BY DEF BufferInv
    <2> SUFFICES ASSUME NEW v \in Workers
                 PROVE  /\ Held(v)' \subseteq Buffers \ free'
                        /\ \A u \in Workers \ {v} : Held(v)' \cap Held(u)' = {}
                        /\ \A f, g \in DOMAIN values'[v] : values'[v][f] = values'[v][g] => f = g
                        /\ \A f \in DOMAIN values'[v] : content'[values'[v][f]] = Value(op'[v].key, f)
      BY DEF BufferInv
    <2>3. Held(v)' \subseteq Buffers \ free'
      BY <1>4, <1>12, <2>1 DEF BufferInv
    <2>4. \A u \in Workers \ {v} : Held(v)' \cap Held(u)' = {}
      BY <2>1, <2>2 DEF BufferInv
    <2>5. \A f, g \in DOMAIN values'[v] : values'[v][f] = values'[v][g] => f = g
      BY <1>4, <1>11 DEF BufferInv, IsInjective
    <2>6. \A f \in DOMAIN values'[v] : content'[values'[v][f]] = Value(op'[v].key, f)
      <3>1. CASE v = w
        BY <1>10, <1>11, <1>12, <1>16, <3>1
      <3>2. CASE v # w
        <4> SUFFICES ASSUME NEW f \in DOMAIN values[v]
                     PROVE  content'[values[v][f]] = Value(op[v].key, f)
          BY <1>10, <1>11, <3>2
        <4>1. values[v][f] \in Held(v) /\ values[v][f] \in Buffers
          BY DEF Held, BufferInv
        <4>2. ~(\E g \in wf : bs[g] = values[v][f])
          BY <2>2, <3>2, <4>1
        <4> QED BY <1>4, <4>1, <4>2 DEF BufferInv
      <3> QED BY <3>1, <3>2
    <2> QED BY <2>3, <2>4, <2>5, <2>6
  <1>18. CommitInv'
    <2>1. Pending' = Pending \cup {w} /\ w \notin Pending
      BY <1>7, <1>8, <1>9, <1>10 DEF Pending, WriteKinds
    <2>2. Pending \in SUBSET Workers
      BY DEF Pending
    <2>3. Cardinality(Pending') = Cardinality(Pending) + 1 /\ Cardinality(Pending) \in Nat
      BY <2>1, <2>2, WorkerSets, FS_AddElement
    <2>4. commits' = commits /\ commits \in Nat /\ ops \in Nat
      BY <1>6, ReadsAssumption DEF storeVars, TypesInv
    <2> QED BY <1>6, <2>3, <2>4 DEF CommitInv
  <1>19. TableInv'
    BY <1>6, SameTable DEF settings, storeVars
  <1>20. VerifyInv' /\ VerifyPasses' /\ ReadExact' /\ ScanExact'
    <2>1. pc'[w] # "verify" /\ ~(pc'[w] = "write" /\ op'[w].kind = "rmw")
      BY <1>7, <1>9, <1>10
    <2> QED BY <1>6, <1>8, <1>9, <1>10, <2>1, BeginQuiet
  <1> QED BY <1>14, <1>15, <1>17, <1>18, <1>19, <1>20

LEMMA SameBuffers ==
  ASSUME IInv, UNCHANGED poolVars,
         \A v \in Workers : op'[v] = op[v] \/ (values[v] = EmptyRow)
  PROVE  BufferInv'
  <1>1. free' = free /\ content' = content /\ values' = values
    BY DEF poolVars
  <1>2. \A v \in Workers : Held(v)' = Held(v)
    BY <1>1 DEF Held
  <1>3. DOMAIN EmptyRow = {}
    BY DEF EmptyRow
  <1> QED BY <1>1, <1>2, <1>3 DEF IInv, BufferInv

LEMMA StartReadIInv ==
  ASSUME IInv, ~Fatal, NEW w \in Workers, StartRead(w)
  PROVE  IInv'
  <1> USE DEF IInv
  <1>1. PICK kind \in {"read", "scan"}, k \in Keys, rf \in FieldChoices(all.read), n \in 1 .. MaxScan :
          /\ At(w, "idle", kind)
          /\ op' = [op EXCEPT ![w] = [kind |-> kind, key |-> k, fields |-> rf, count |-> n]]
    BY DEF StartRead
  <1>2. /\ ops < MaxOps /\ ops' = ops + 1
        /\ UNCHANGED <<settings, storeVars, poolVars, got, rows, verdict>>
    BY DEF StartRead
  <1>3. pc[w] = "idle" /\ pc' = [pc EXCEPT ![w] = kind]
    BY <1>1 DEF At
  <1>4. pc'[w] = kind /\ \A v \in Workers \ {w} : pc'[v] = pc[v]
    BY <1>3 DEF TypesInv
  <1>5. /\ op'[w] = [kind |-> kind, key |-> k, fields |-> rf, count |-> n]
        /\ \A v \in Workers \ {w} : op'[v] = op[v]
    BY <1>1 DEF TypesInv
  <1>6. values[w] = EmptyRow
    BY <1>3 DEF PointInv
  <1>7. TypesInv'
    <2>1. op' \in [Workers -> [kind : Kinds, key : Keys \cup {0}, fields : SUBSET Fields,
                               count : 0 .. MaxScan]]
      <3>1. rf \in SUBSET Fields
        BY DEF FieldChoices
      <3>2. n \in 0 .. MaxScan
        BY ReadsAssumption
      <3>3. [kind |-> kind, key |-> k, fields |-> rf, count |-> n]
              \in [kind : Kinds, key : Keys \cup {0}, fields : SUBSET Fields, count : 0 .. MaxScan]
        BY <3>1, <3>2 DEF Kinds
      <3> QED BY <1>1, <3>3 DEF TypesInv
    <2>2. ops' \in 0 .. MaxOps
      BY <1>2, ReadsAssumption DEF TypesInv
    <2>3. pc' \in [Workers -> {"idle", "read", "scan", "write", "verify", "put"}]
      BY <1>3 DEF TypesInv
    <2> QED BY <1>2, <2>1, <2>2, <2>3 DEF TypesInv, settings, storeVars, poolVars
  <1>8. PointInv'
    BY <1>2, <1>4, <1>5 DEF PointInv, poolVars
  <1>9. BufferInv'
    BY <1>2, <1>5, <1>6, SameBuffers
  <1>10. CommitInv'
    <2>1. Pending' = Pending
      BY <1>3, <1>4, <1>5 DEF Pending, WriteKinds
    <2>2. Pending \in SUBSET Workers
      BY DEF Pending
    <2>3. Cardinality(Pending) \in Nat
      BY <2>2, WorkerSets
    <2>4. commits' = commits /\ commits \in Nat /\ ops \in Nat
      BY <1>2, ReadsAssumption DEF storeVars, TypesInv
    <2> QED BY <1>2, <2>1, <2>3, <2>4 DEF CommitInv
  <1>11. TableInv'
    BY <1>2, SameTable DEF settings, storeVars
  <1>12. VerifyInv' /\ VerifyPasses' /\ ReadExact' /\ ScanExact'
    BY <1>2, <1>3, <1>4, <1>5, BeginQuiet
  <1> QED BY <1>7, <1>8, <1>9, <1>10, <1>11, <1>12

\* The writes to come become fewer, by one for a commit.
LEMMA FewerPending ==
  ASSUME IInv, NEW w \in Workers, NEW p, p \in {"write", "verify", "put"},
         pc' = [pc EXCEPT ![w] = p], UNCHANGED <<op, ops>>,
         p = "write" => pc[w] = "read",
         \/ commits' = commits
         \/ commits' = commits + 1 /\ pc[w] = "write" /\ p # "write"
  PROVE  CommitInv'
  <1> USE DEF IInv
  <1>1. pc'[w] = p /\ \A v \in Workers \ {w} : pc'[v] = pc[v]
    BY DEF TypesInv
  <1>2. Pending \in SUBSET Workers /\ Pending' \in SUBSET Pending
    BY <1>1 DEF Pending
  <1>3. IsFiniteSet(Pending) /\ Cardinality(Pending) \in Nat /\ Cardinality(Pending') <= Cardinality(Pending)
    BY <1>2, WorkerSets, FS_Subset
  <1>4. Cardinality(Pending') \in Nat
    BY <1>2, WorkerSets
  <1>5. commits \in Nat /\ ops \in Nat
    BY ReadsAssumption DEF TypesInv
  <1>6. CASE commits' = commits
    BY <1>3, <1>4, <1>5, <1>6 DEF CommitInv
  <1>7. CASE commits' = commits + 1 /\ pc[w] = "write" /\ p # "write"
    <2>1. w \in Pending
      BY <1>7 DEF Pending, PointInv
    <2>2. w \notin Pending'
      BY <1>1, <1>7 DEF Pending
    <2>3. Pending' \in SUBSET (Pending \ {w})
      BY <1>2, <2>2
    <2>4. IsFiniteSet(Pending \ {w}) /\ Cardinality(Pending \ {w}) = Cardinality(Pending) - 1
      BY <1>3, <2>1, FS_RemoveElement
    <2>5. Cardinality(Pending') <= Cardinality(Pending) - 1
      BY <2>3, <2>4, FS_Subset
    <2> QED BY <1>3, <1>4, <1>5, <1>7, <2>5 DEF CommitInv
  <1> QED BY <1>6, <1>7

\* A step that leaves the results of Scan alone.
LEMMA SameScans ==
  ASSUME ScanExact, UNCHANGED <<adapter, op, rows>>
  PROVE  ScanExact'
  <1>1. \A w \in Workers : ScanOK(w)
    BY ScanParts
  <1>2. \A w \in Workers : ScanOK(w)'
    BY <1>1, SameScan
  <1> QED BY <1>2, ScanPartsNext

LEMMA SameReads ==
  ASSUME ReadExact, UNCHANGED <<adapter, op, got>>
  PROVE  ReadExact'
  BY DEF ReadExact

LEMMA ReadIInv ==
  ASSUME IInv, ~Fatal, NEW w \in Workers, Read(w)
  PROVE  IInv'
  <1> USE DEF IInv
  <1> DEFINE k == op[w].key
             fields == op[w].fields
  <1>1. PICK r \in Reads(k, fields) :
          /\ pc' = [pc EXCEPT ![w] = IF r.error THEN "put"
                                     ELSE IF op[w].kind = "rmw" THEN "write" ELSE "verify"]
          /\ got' = [got EXCEPT ![w] =
                       [row |-> r.row, there |-> Here(k) # NoRow /\ ~r.error,
                        wanted |-> Here(k), commit |-> commits]]
    BY DEF Read
  <1>2. pc[w] = "read" /\ UNCHANGED <<settings, storeVars, ops, poolVars, op, rows, verdict>>
    BY DEF Read
  <1>3. k \in Keys /\ fields \in SUBSET Fields /\ adapter \in Adapters
    BY <1>2 DEF PointInv, TypesInv
  <1>4. /\ r.error \in BOOLEAN
        /\ ~r.error /\ adapter # "redisJson" => \A f \in DOMAIN r.row : r.row[f] = Value(k, f)
        /\ ~r.error /\ Here(k) # NoRow =>
             \/ fields \cap DOMAIN Here(k) \subseteq DOMAIN r.row
             \/ adapter \in {"pegasus", "redisHash"} /\ r.row = EmptyRow
    BY <1>3, ReadFacts
  <1> DEFINE p == IF r.error THEN "put" ELSE IF op[w].kind = "rmw" THEN "write" ELSE "verify"
  <1>5. /\ p \in {"put", "write", "verify"} /\ (p # "put" => ~r.error)
        /\ (p = "write" => op[w].kind = "rmw")
    BY <1>4
  <1>6. pc' = [pc EXCEPT ![w] = p]
    BY <1>1
  <1> HIDE DEF p
  <1>7. pc'[w] = p /\ \A v \in Workers \ {w} : pc'[v] = pc[v]
    BY <1>6 DEF TypesInv
  <1>8. got = [v \in Workers |-> got[v]]
    BY DEF TypesInv
  <1>9. /\ got' = [v \in Workers |-> got'[v]]
        /\ got'[w] = [row |-> r.row, there |-> Here(k) # NoRow /\ ~r.error,
                      wanted |-> Here(k), commit |-> commits]
        /\ \A v \in Workers \ {w} : got'[v] = got[v]
    BY <1>1, <1>8
  <1>10. /\ got'[w].row = r.row /\ got'[w].wanted = Here(k)
         /\ got'[w].there => Here(k) # NoRow /\ ~r.error
    <2> DEFINE there == Here(k) # NoRow /\ ~r.error
               here == Here(k)
    <2> HIDE DEF there, here
    <2>1. got'[w] = [row |-> r.row, there |-> there, wanted |-> here, commit |-> commits]
      BY <1>9 DEF there, here
    <2>2. got'[w].row = r.row /\ got'[w].wanted = here /\ got'[w].there = there
      BY <2>1
    <2>3. there => Here(k) # NoRow /\ ~r.error
      BY DEF there
    <2> QED BY <2>2, <2>3 DEF here
  <1>11. op' = op /\ adapter' = adapter /\ varying' = varying /\ rows' = rows /\ verdict' = verdict
    BY <1>2 DEF settings
  <1>12. TypesInv'
    <2>1. pc' \in [Workers -> {"idle", "read", "scan", "write", "verify", "put"}]
      BY <1>5, <1>6 DEF TypesInv
    <2> QED BY <1>2, <1>9, <2>1 DEF TypesInv, settings, storeVars, poolVars
  <1>13. PointInv'
    BY <1>2, <1>5, <1>7, <1>9, <1>11 DEF PointInv, WriteKinds, poolVars
  <1>14. BufferInv'
    BY <1>2, <1>11, SameBuffers
  <1>15. CommitInv'
    BY <1>2, <1>5, <1>6, FewerPending DEF storeVars
  <1>16. TableInv'
    BY <1>2, SameTable DEF settings, storeVars
  <1>17. VerifyInv'
    <2> SUFFICES ASSUME NEW v \in Workers, adapter' # "redisJson",
                        pc'[v] = "verify" \/ (pc'[v] = "write" /\ op'[v].kind = "rmw")
                 PROVE  \A f \in DOMAIN got'[v].row : got'[v].row[f] = Value(op'[v].key, f)
      BY DEF VerifyInv
    <2>1. CASE v = w
      BY <1>4, <1>5, <1>7, <1>10, <1>11, <2>1
    <2>2. CASE v # w
      BY <1>7, <1>9, <1>11, <2>2 DEF VerifyInv
    <2> QED BY <2>1, <2>2
  <1>18. VerifyPasses'
    BY <1>11 DEF VerifyPasses, Fatal
  <1>19. ReadExact'
    <2> SUFFICES ASSUME NEW v \in Workers, got'[v].there
                 PROVE  \/ op'[v].fields \cap DOMAIN got'[v].wanted \subseteq DOMAIN got'[v].row
                        \/ adapter' \in {"pegasus", "redisHash"} /\ got'[v].row = EmptyRow
      BY DEF ReadExact
    <2>1. CASE v = w
      BY <1>4, <1>10, <1>11, <2>1
    <2>2. CASE v # w
      BY <1>9, <1>11, <2>2 DEF ReadExact
    <2> QED BY <2>1, <2>2
  <1>20. ScanExact'
    BY <1>11, SameScans
  <1> QED BY <1>12, <1>13, <1>14, <1>15, <1>16, <1>17, <1>18, <1>19, <1>20

LEMMA ScanIInv ==
  ASSUME IInv, ~Fatal, NEW w \in Workers, Scan(w)
  PROVE  IInv'
  <1> USE DEF IInv
  <1> DEFINE k == op[w].key
             fields == op[w].fields
             n == op[w].count
             wanted == WantedRows(k, n, fields)
  <1>1. PICK r \in Scans(k, n, fields) \cup {Error} :
          rows' = [rows EXCEPT ![w] = [result |-> r, wanted |-> wanted]]
    BY DEF Scan, WantedRows
  <1>2. /\ pc[w] = "scan" /\ pc' = [pc EXCEPT ![w] = "put"]
        /\ UNCHANGED <<settings, storeVars, ops, poolVars, op, got, verdict>>
    BY DEF Scan, At
  <1>3. n \in Nat /\ adapter \in Adapters
    BY ReadsAssumption DEF TypesInv
  <1>4. ~r.error /\ adapter \notin {"pegasus", "aerospike"} => PaddedRows(r.row, n, wanted)
    <2> HIDE DEF k, n, fields
    <2> QED BY <1>3, ScanFacts
  <1> HIDE DEF wanted
  <1>5. pc'[w] = "put" /\ \A v \in Workers \ {w} : pc'[v] = pc[v]
    BY <1>2 DEF TypesInv
  <1>6. rows = [v \in Workers |-> rows[v]]
    BY DEF TypesInv
  <1>7. /\ rows' = [v \in Workers |-> rows'[v]]
        /\ rows'[w] = [result |-> r, wanted |-> wanted]
        /\ \A v \in Workers \ {w} : rows'[v] = rows[v]
    BY <1>1, <1>6
  <1>8. rows'[w].result = r /\ rows'[w].wanted = wanted
    BY <1>7
  <1>9. op' = op /\ adapter' = adapter /\ got' = got /\ verdict' = verdict
    BY <1>2 DEF settings
  <1>10. TypesInv'
    <2>1. pc' \in [Workers -> {"idle", "read", "scan", "write", "verify", "put"}]
      BY <1>2 DEF TypesInv
    <2> QED BY <1>2, <1>7, <2>1 DEF TypesInv, settings, storeVars, poolVars
  <1>11. PointInv'
    BY <1>2, <1>5, <1>7, <1>9 DEF PointInv, poolVars
  <1>12. BufferInv'
    BY <1>2, <1>9, SameBuffers
  <1>13. CommitInv'
    BY <1>2, FewerPending DEF storeVars
  <1>14. TableInv'
    BY <1>2, SameTable DEF settings, storeVars
  <1>15. VerifyInv'
    BY <1>5, <1>9 DEF VerifyInv
  <1>16. VerifyPasses'
    BY <1>9 DEF VerifyPasses, Fatal
  <1>17. ReadExact'
    BY <1>9, SameReads
  <1>18. ScanExact'
    <2>1. \A v \in Workers : ScanOK(v)
      BY ScanParts
    <2>2. ScanOK(w)'
      BY <1>4, <1>8, <1>9 DEF ScanOK
    <2>3. \A v \in Workers \ {w} : ScanOK(v)'
      BY <1>7, <1>9, <2>1, SameScan
    <2> QED BY <2>2, <2>3, ScanPartsNext
  <1> QED BY <1>10, <1>11, <1>12, <1>13, <1>14, <1>15, <1>16, <1>17, <1>18

LEMMA VerifyIInv ==
  ASSUME IInv, ~Fatal, NEW w \in Workers, Verify(w)
  PROVE  IInv'
  <1> USE DEF IInv
  <1>1. /\ pc[w] = "verify" /\ pc' = [pc EXCEPT ![w] = "put"]
        /\ UNCHANGED <<settings, storeVars, ops, poolVars, op, got, rows>>
        /\ \/ verdict' = [verdict EXCEPT ![w] = "ok"]
           \/ /\ ~Matches(w) \/ varying \/ Reused(w)
              /\ verdict' = [verdict EXCEPT ![w] = "fatal"]
    BY DEF Verify, At
  <1>2. pc'[w] = "put" /\ \A v \in Workers \ {w} : pc'[v] = pc[v]
    BY <1>1 DEF TypesInv
  <1>3. op' = op /\ adapter' = adapter /\ varying' = varying /\ commits' = commits /\ got' = got
        /\ rows' = rows
    BY <1>1 DEF settings, storeVars
  <1>4. TypesInv'
    <2>1. /\ pc' \in [Workers -> {"idle", "read", "scan", "write", "verify", "put"}]
          /\ verdict' \in [Workers -> {"none", "ok", "fatal"}]
      BY <1>1 DEF TypesInv
    <2> QED BY <1>1, <2>1 DEF TypesInv, settings, storeVars, poolVars
  <1>5. PointInv'
    BY <1>1, <1>2, <1>3 DEF PointInv, poolVars
  <1>6. BufferInv'
    BY <1>1, <1>3, SameBuffers
  <1>7. CommitInv'
    BY <1>1, <1>3, FewerPending
  <1>8. TableInv'
    BY <1>1, SameTable DEF settings, storeVars
  <1>9. VerifyInv'
    BY <1>2, <1>3 DEF VerifyInv
  <1>10. VerifyPasses'
    <2>1. adapter # "redisJson" => Matches(w)
      BY <1>1 DEF VerifyInv, Matches
    <2>2. \A v \in Workers : Reused(v)' = Reused(v)
      BY <1>3 DEF Reused
    <2>3. \A v \in Workers \ {w} : verdict'[v] = verdict[v] /\ verdict[v] # "fatal"
      BY <1>1 DEF TypesInv, Fatal
    <2>4. verdict'[w] = "fatal" => ~Matches(w) \/ varying \/ Reused(w)
      BY <1>1 DEF TypesInv
    <2> QED BY <1>3, <2>1, <2>2, <2>3, <2>4 DEF VerifyPasses
  <1>11. ReadExact' /\ ScanExact'
    BY <1>3, SameReads, SameScans
  <1> QED BY <1>4, <1>5, <1>6, <1>7, <1>8, <1>9, <1>10, <1>11

\* A write leaves a good row under its key: the values are those of the buffers it holds.
LEMMA WriteIInv ==
  ASSUME IInv, ~Fatal, NEW w \in Workers, Write(w)
  PROVE  IInv'
  <1> USE DEF IInv
  <1> DEFINE k == op[w].key
             kind == IF op[w].kind = "insert" THEN "insert" ELSE "update"
             new == [f \in DOMAIN values[w] |-> StoredForm(kind, content[values[w][f]])]
             row == Written(Here(k), kind, new)
  <1>1. pc[w] = "write" /\ UNCHANGED <<settings, ops, poolVars, op, got, rows, verdict>>
    BY DEF Write
  <1>2. k \in Keys
    BY <1>1 DEF PointInv
  <1>3. PICK p \in {"verify", "put"} :
          /\ pc' = [pc EXCEPT ![w] = p]
          /\ p = "verify" => op[w].kind = "rmw"
          /\ \/ /\ \E record \in Formats(row) : table' = [table EXCEPT ![k] = record]
                /\ commits' = commits + 1
             \/ UNCHANGED storeVars
    BY DEF Write, At
  <1>4. pc'[w] = p /\ \A v \in Workers \ {w} : pc'[v] = pc[v]
    BY <1>3 DEF TypesInv
  <1>5. op' = op /\ adapter' = adapter /\ varying' = varying /\ got' = got /\ rows' = rows
        /\ verdict' = verdict
    BY <1>1 DEF settings
  <1>6. GoodRow(k, new)
    <2>1. DOMAIN values[w] \in SUBSET Fields
      BY DEF TypesInv
    <2>2. new = [f \in DOMAIN values[w] |-> StoredForm(kind, Value(k, f))]
      BY DEF BufferInv
    <2> HIDE DEF kind, k, new
    <2> QED BY <2>1, <2>2, GoodValues
  <1> HIDE DEF new, kind
  <1>7. GoodRow(k, row)
    <2> DEFINE old == Here(k)
    <2>1. old # NoRow => GoodRow(k, old)
      BY <1>2 DEF TableInv
    <2> HIDE DEF old, k
    <2>2. CASE row = new
      BY <1>6, <2>2
    <2>3. CASE /\ old # NoRow
               /\ row = [f \in DOMAIN old \cup DOMAIN new |->
                           IF f \in DOMAIN new THEN new[f] ELSE old[f]]
      <3> HIDE DEF row
      <3> QED BY <1>6, <2>1, <2>3 DEF GoodRow
    <2> QED BY <2>2, <2>3 DEF Written, old
  <1> HIDE DEF row
  <1>8. TypesInv'
    <2>1. pc' \in [Workers -> {"idle", "read", "scan", "write", "verify", "put"}]
      BY <1>3 DEF TypesInv
    <2>2. commits' \in Nat /\ table' = [j \in Keys |-> table'[j]]
      BY <1>3 DEF TypesInv, storeVars
    <2> QED BY <1>1, <2>1, <2>2 DEF TypesInv, settings, poolVars
  <1>9. PointInv'
    BY <1>1, <1>4, <1>5 DEF PointInv, poolVars
  <1>10. BufferInv'
    BY <1>1, <1>5, SameBuffers
  <1>11. CommitInv'
    BY <1>1, <1>3, FewerPending DEF storeVars
  <1>12. TableInv'
    <2>1. CASE UNCHANGED storeVars
      BY <1>5, <2>1, SameTable DEF storeVars
    <2>2. CASE \E record \in Formats(row) : table' = [table EXCEPT ![k] = record]
      <3>1. PICK record \in Formats(row) : table' = [table EXCEPT ![k] = record]
        BY <2>2
      <3>2. Parse(record) = row
        BY <1>2, <1>7, <3>1, FormatsParse
      <3>3. table'[k] = record /\ \A j \in Keys \ {k} : table'[j] = table[j]
        BY <1>2, <3>1 DEF TypesInv
      <3>4. Parse(record)' = Parse(record)
        BY <1>5 DEF Parse
      <3>5. ASSUME NEW j \in Keys, j = k PROVE Here(j)' = NoRow \/ Here(j)' = row
        BY <1>5, <3>2, <3>3, <3>5 DEF Here, Parse
      <3>6. \A j \in Keys \ {k} : Here(j)' = Here(j)
        BY <1>5, <3>3 DEF Here, Parse
      <3> SUFFICES ASSUME NEW j \in Keys, Here(j)' # NoRow PROVE GoodRow(j, Here(j))'
        BY DEF TableInv
      <3>7. CASE j = k
        <4>1. Here(j)' = row
          BY <3>5, <3>7
        <4> QED BY <1>5, <1>7, <3>7, <4>1 DEF GoodRow
      <3>8. CASE j # k
        <4>1. Here(j)' = Here(j)
          BY <3>6, <3>8
        <4> QED BY <1>5, <4>1 DEF GoodRow, TableInv
      <3> QED BY <3>7, <3>8
    <2> QED BY <1>3, <2>1, <2>2
  <1>13. VerifyInv'
    BY <1>1, <1>3, <1>4, <1>5 DEF VerifyInv
  <1>14. VerifyPasses'
    BY <1>5 DEF VerifyPasses, Fatal
  <1>15. ReadExact' /\ ScanExact'
    BY <1>5, SameReads, SameScans
  <1> QED BY <1>8, <1>9, <1>10, <1>11, <1>12, <1>13, <1>14, <1>15

\* The buffers of an operation that ends go back to the pool.
LEMMA PutValuesIInv ==
  ASSUME IInv, ~Fatal, NEW w \in Workers, PutValues(w)
  PROVE  IInv'
  <1> USE DEF IInv
  <1>1. /\ pc[w] = "put" /\ pc' = [pc EXCEPT ![w] = "idle"]
        /\ free' = free \cup Held(w)
        /\ content' = [b \in Buffers |->
                         IF b \in Held(w) /\ \A v \in Workers \ {w} : b \notin Held(v)
                         THEN NoRow ELSE content[b]]
        /\ values' = [values EXCEPT ![w] = EmptyRow]
        /\ op' = [op EXCEPT ![w] = NoOp]
        /\ got' = [got EXCEPT ![w] = NoGot]
        /\ rows' = [rows EXCEPT ![w] = NoRows]
        /\ verdict' = [verdict EXCEPT ![w] = "none"]
        /\ UNCHANGED <<settings, storeVars, ops>>
    BY DEF PutValues, At, EndOperation
  <1>2. /\ pc'[w] = "idle" /\ op'[w] = NoOp /\ values'[w] = EmptyRow
        /\ \A v \in Workers \ {w} : pc'[v] = pc[v] /\ op'[v] = op[v] /\ values'[v] = values[v]
    BY <1>1 DEF TypesInv
  <1>3. /\ got'[w] = NoGot /\ rows'[w] = NoRows /\ verdict'[w] = "none"
        /\ \A v \in Workers \ {w} : got'[v] = got[v] /\ rows'[v] = rows[v] /\ verdict'[v] = verdict[v]
    BY <1>1 DEF TypesInv
  <1>4. adapter' = adapter /\ varying' = varying /\ commits' = commits /\ ops' = ops /\ table' = table
    BY <1>1 DEF settings, storeVars
  <1>5. DOMAIN EmptyRow = {}
    BY DEF EmptyRow
  <1>6. TypesInv'
    <2>1. NoOp \in [kind : Kinds, key : Keys \cup {0}, fields : SUBSET Fields, count : 0 .. MaxScan]
      BY ReadsAssumption DEF NoOp, Kinds
    <2>2. EmptyRow \in UNION {[F -> Buffers] : F \in SUBSET Fields}
      <3>1. EmptyRow \in [{} -> Buffers]
        BY DEF EmptyRow
      <3> QED BY <3>1
    <2>3. op' \in [Workers -> [kind : Kinds, key : Keys \cup {0}, fields : SUBSET Fields,
                               count : 0 .. MaxScan]]
      BY <1>1, <2>1 DEF TypesInv
    <2>4. values' \in [Workers -> UNION {[F -> Buffers] : F \in SUBSET Fields}]
      BY <1>1, <2>2 DEF TypesInv
    <2>5. free' \in SUBSET Buffers
      BY <1>1 DEF TypesInv, BufferInv
    <2>6. /\ pc' \in [Workers -> {"idle", "read", "scan", "write", "verify", "put"}]
          /\ verdict' \in [Workers -> {"none", "ok", "fatal"}]
      BY <1>1 DEF TypesInv
    <2>7. content' = [b \in Buffers |-> content'[b]]
      BY <1>1
    <2>8. got' = [v \in Workers |-> got'[v]] /\ rows' = [v \in Workers |-> rows'[v]]
      BY <1>1 DEF TypesInv
    <2> QED BY <1>4, <2>3, <2>4, <2>5, <2>6, <2>7, <2>8 DEF TypesInv
  <1>7. PointInv'
    BY <1>2, <1>3 DEF PointInv
  <1>8. BufferInv'
    <2>1. Held(w)' = {} /\ \A v \in Workers \ {w} : Held(v)' = Held(v)
      BY <1>2, <1>5 DEF Held
    <2>2. \A v \in Workers \ {w} : Held(v) \cap Held(w) = {}
      BY DEF BufferInv
    <2> SUFFICES ASSUME NEW v \in Workers
                 PROVE  /\ Held(v)' \subseteq Buffers \ free'
                        /\ \A u \in Workers \ {v} : Held(v)' \cap Held(u)' = {}
                        /\ \A f, g \in DOMAIN values'[v] : values'[v][f] = values'[v][g] => f = g
                        /\ \A f \in DOMAIN values'[v] : content'[values'[v][f]] = Value(op'[v].key, f)
      BY DEF BufferInv
    <2>3. CASE v = w
      BY <1>2, <1>5, <2>1, <2>3
    <2>4. CASE v # w
      <3>1. Held(v)' \subseteq Buffers \ free'
        BY <1>1, <2>1, <2>2, <2>4 DEF BufferInv
      <3>2. \A u \in Workers \ {v} : Held(v)' \cap Held(u)' = {}
        BY <2>1, <2>4 DEF BufferInv
      <3>3. \A f, g \in DOMAIN values'[v] : values'[v][f] = values'[v][g] => f = g
        BY <1>2, <2>4 DEF BufferInv
      <3>4. \A f \in DOMAIN values'[v] : content'[values'[v][f]] = Value(op'[v].key, f)
        <4> SUFFICES ASSUME NEW f \in DOMAIN values[v]
                     PROVE  content'[values[v][f]] = Value(op[v].key, f)
          BY <1>2, <2>4
        <4>1. values[v][f] \in Held(v) /\ values[v][f] \in Buffers
          BY DEF Held, BufferInv
        <4>2. values[v][f] \notin Held(w)
          BY <2>2, <2>4, <4>1
        <4> QED BY <1>1, <4>1, <4>2 DEF BufferInv
      <3> QED BY <3>1, <3>2, <3>3, <3>4
    <2> QED BY <2>3, <2>4
  <1>9. CommitInv'
    <2>1. Pending' = Pending
      BY <1>1, <1>2 DEF Pending
    <2> QED BY <1>4, <2>1 DEF CommitInv
  <1>10. TableInv'
    BY <1>4, SameTable
  <1>11. VerifyInv'
    BY <1>2, <1>3, <1>4 DEF VerifyInv
  <1>12. VerifyPasses'
    BY <1>3 DEF VerifyPasses, Fatal
  <1>13. ReadExact'
    <2>1. ~got'[w].there
      BY <1>3 DEF NoGot
    <2> QED BY <1>2, <1>3, <1>4, <2>1 DEF ReadExact
  <1>14. ScanExact'
    <2>1. \A v \in Workers : ScanOK(v)
      BY ScanParts
    <2>2. ScanOK(w)'
      BY <1>3 DEF NoRows, Error, ScanOK
    <2>3. \A v \in Workers \ {w} : ScanOK(v)'
      BY <1>2, <1>3, <1>4, <2>1, SameScan
    <2> QED BY <2>2, <2>3, ScanPartsNext
  <1> QED BY <1>6, <1>7, <1>8, <1>9, <1>10, <1>11, <1>12, <1>13, <1>14

LEMMA Stutter ==
  ASSUME IInv, UNCHANGED vars
  PROVE  IInv'
  <1>1. /\ UNCHANGED <<adapter, varying, all, table, commits, ops, free, content, pc, op>>
        /\ UNCHANGED <<values, got, rows, verdict>>
    BY DEF vars, settings, storeVars, poolVars, workerVars
  <1>2. TypesInv' /\ PointInv'
    BY <1>1 DEF IInv, TypesInv, PointInv
  <1>3. BufferInv'
    BY <1>1, SameBuffers DEF poolVars
  <1>4. CommitInv'
    BY <1>1 DEF IInv, CommitInv, Pending
  <1>5. TableInv'
    BY <1>1, SameTable DEF IInv
  <1>6. VerifyInv' /\ VerifyPasses'
    BY <1>1 DEF IInv, VerifyInv, VerifyPasses, Reused
  <1>7. ReadExact' /\ ScanExact'
    BY <1>1, SameReads, SameScans DEF IInv
  <1> QED BY <1>2, <1>3, <1>4, <1>5, <1>6, <1>7 DEF IInv

LEMMA NextIInv ==
  ASSUME IInv, [Next]_vars
  PROVE  IInv'
  <1>1. CASE UNCHANGED vars
    BY <1>1, Stutter
  <1>2. CASE Finished
    BY <1>2, Stutter DEF Finished
  <1>3. ASSUME NEW w \in Workers, ~Fatal,
               \/ StartWrite(w) \/ StartRead(w) \/ Read(w) \/ Scan(w) \/ Write(w) \/ Verify(w)
               \/ PutValues(w)
        PROVE  IInv'
    BY <1>3, StartWriteIInv, StartReadIInv, ReadIInv, ScanIInv, WriteIInv, VerifyIInv,
       PutValuesIInv
  <1> QED BY <1>1, <1>2, <1>3 DEF Next

LEMMA SpecIInv == Spec => []IInv
  BY InitIInv, NextIInv, PTL DEF Spec
-----------------------------------------------------------------------------
\* Every stored field holds the value of its key and field, whatever buffers the pool hands
\* to which worker and in whatever order the codec meets the map (buildValues and putValues
\* of pkg/workload/core.go, Encode and Decode of pkg/util/row.go).
THEOREM RowsAuthenticHolds == Spec => []RowsAuthentic
  <1>1. IInv => RowsAuthentic
    <2> SUFFICES ASSUME IInv PROVE RowsAuthentic
      OBVIOUS
    <2>1. Pending \in SUBSET Workers
      BY DEF Pending
    <2>2. Cardinality(Pending) \in Nat
      BY <2>1, WorkerSets
    <2>3. commits \in Nat /\ ops \in Nat /\ ops <= MaxOps /\ MaxOps \in Nat
      BY ReadsAssumption DEF IInv, TypesInv
    <2>4. commits + Cardinality(Pending) <= ops
      BY DEF IInv, CommitInv
    <2>5. commits \in 0 .. MaxOps
      BY <2>2, <2>3, <2>4
    <2>6. TypeOK
      BY <2>5 DEF IInv, TypesInv, BufferInv, TypeOK
    <2>7. \A k \in Keys : Here(k) # NoRow =>
            \A f \in DOMAIN Here(k) : Here(k)[f].key = k /\ Here(k)[f].field = f
      BY DEF IInv, TableInv, GoodRow
    <2> QED BY <2>6, <2>7 DEF RowsAuthentic
  <1> QED BY <1>1, SpecIInv, PTL

\* verifyRow ends the process only with redis's JSON type, varying lengths, or a page that
\* bolt has reused (verifyRow of pkg/workload/core.go).
THEOREM VerifyPassesHolds == Spec => []VerifyPasses
  <1>1. IInv => VerifyPasses
    BY DEF IInv
  <1> QED BY <1>1, SpecIInv, PTL

\* A Read or Scan without an error returns what is stored, with every field asked for and
\* every record from the start key (Read and Scan of the adapters under db/).
THEOREM ReadsExactHolds == Spec => []ReadsExact
  <1>1. IInv => ReadsExact
    BY DEF IInv, ReadsExact
  <1> QED BY <1>1, SpecIInv, PTL
=============================================================================
