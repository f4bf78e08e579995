-------------------------- MODULE LoadInsertProofs --------------------------
(***************************************************************************)
(* Proofs about LoadInsert, for any number of workers, batch sizes, retry  *)
(* limit and keys.                                                         *)
(***************************************************************************)
EXTENDS LoadInsert, FiniteSetTheorems, TLAPS

Busy(w) == pc[w] # "idle"

Issued == Start .. keySequence - 1

\* The keys that the batches in progress still take are left below the bound.
BudgetInv == keySequence + Cardinality(Promised) <= Start + MaxKeys

\* A batch that still takes keys is not complete.
BatchInv == \A w \in Workers : pc[w] = "keys" => Cardinality(keys[w]) < batchSize

\* What was done with keys was done with issued ones.
IssuedInv ==
  /\ \A w \in Workers : keys[w] \subseteq Issued
  /\ returned \cup failed \subseteq Issued
  /\ \A k \in AllKeys : k >= keySequence => stored[k] = 0

\* A key belongs to one insert in progress, or to one that is over.
OwnerInv ==
  /\ \A v, w \in Workers : v # w /\ Busy(v) /\ Busy(w) => keys[v] \cap keys[w] = {}
  /\ \A w \in Workers : Busy(w) => keys[w] \cap (returned \cup failed) = {}
  /\ \A k \in Issued : \/ k \in returned \cup failed
                       \/ \E w \in Workers : Busy(w) /\ k \in keys[w]

\* An insert in progress has stored its keys once for each retry it counted, and once
\* more when it has yet to count.
RetryInv ==
  \A w \in Workers :
    /\ pc[w] = "keys" => numOfRetries[w] = 0
    /\ pc[w] \in {"insert", "poll"} => numOfRetries[w] <= insertionRetryLimit
    /\ pc[w] \in {"keys", "insert"} => \A k \in keys[w] : stored[k] = numOfRetries[w]
    /\ pc[w] = "poll" => \A k \in keys[w] : stored[k] = numOfRetries[w] + 1

\* The keys of an insert that is over.
EndedInv ==
  /\ \A k \in returned : stored[k] > 0
  /\ \A k \in returned \cup failed : stored[k] <= insertionRetryLimit + 1

IInv ==
  /\ TypeOK /\ BudgetInv /\ BatchInv /\ IssuedInv /\ OwnerInv /\ RetryInv /\ EndedInv
-----------------------------------------------------------------------------
\* A set of keys is finite, and so has a size.
LEMMA KeySetsFinite ==
  ASSUME TypeOK, NEW w \in Workers
  PROVE  IsFiniteSet(keys[w]) /\ Cardinality(keys[w]) \in Nat
  <1>1. Start \in Int /\ Start + MaxKeys - 1 \in Int
    BY ConstantsAssumption
  <1>2. IsFiniteSet(AllKeys)
    BY <1>1, FS_Interval DEF AllKeys
  <1>3. keys[w] \in SUBSET AllKeys
    BY DEF TypeOK
  <1> QED BY <1>2, <1>3, FS_Subset, FS_CardinalityType

\* So are the keys promised to batches.
LEMMA PromisedFinite ==
  ASSUME TypeOK
  PROVE  IsFiniteSet(Promised) /\ Cardinality(Promised) \in Nat
  <1>1. batchSize \in Int /\ 1 \in Int
    BY ConstantsAssumption DEF TypeOK
  <1>2. IsFiniteSet(1 .. batchSize)
    BY <1>1, FS_Interval
  <1>3. IsFiniteSet(Workers \X (1 .. batchSize))
    BY <1>2, FS_Product, ConstantsAssumption
  <1>4. Promised \in SUBSET (Workers \X (1 .. batchSize))
    BY DEF Promised
  <1> QED BY <1>3, <1>4, FS_Subset, FS_CardinalityType

\* The places of one whole batch.
LEMMA BatchPlaces ==
  ASSUME NEW w, NEW n \in Nat
  PROVE  IsFiniteSet({w} \X (1 .. n)) /\ Cardinality({w} \X (1 .. n)) = n
  <1> DEFINE W == {w}
             I == 1 .. n
  <1>1. IsFiniteSet(W) /\ Cardinality(W) = 1
    BY FS_Singleton
  <1>2. IsFiniteSet(I) /\ Cardinality(I) = n
    BY FS_Interval
  <1> HIDE DEF W, I
  <1>3. IsFiniteSet(W \X I) /\ Cardinality(W \X I) = Cardinality(W) * Cardinality(I)
    BY <1>1, <1>2, FS_Product
  <1>4. Cardinality(W \X I) = n
    BY <1>1, <1>2, <1>3
  <1> QED BY <1>3, <1>4 DEF W, I

\* Initially no key is issued.
LEMMA InitIInv == Init => IInv
  <1> SUFFICES ASSUME Init PROVE IInv
    OBVIOUS
  <1> USE ConstantsAssumption DEF Init, Busy, Issued
  <1>1. TypeOK
    <2>1. keys \in [Workers -> SUBSET AllKeys] /\ stored \in [AllKeys -> Nat]
      OBVIOUS
    <2>2. keySequence \in Start .. Start + MaxKeys
      OBVIOUS
    <2>3. pc \in [Workers -> {"idle", "keys", "insert", "poll"}] /\ numOfRetries \in [Workers -> Nat]
      OBVIOUS
    <2>4. cancelled \in BOOLEAN
      OBVIOUS
    <2>5. returned \subseteq AllKeys /\ failed \subseteq AllKeys
      OBVIOUS
    <2> QED BY <2>1, <2>2, <2>3, <2>4, <2>5 DEF TypeOK
  <1>2. Promised = {}
    BY DEF Promised
  <1>3. BudgetInv
    BY <1>2, FS_EmptySet DEF BudgetInv
  <1>4. BatchInv /\ RetryInv /\ EndedInv
    BY DEF BatchInv, RetryInv, EndedInv
  <1>5. IssuedInv /\ OwnerInv
    BY DEF IssuedInv, OwnerInv
  <1> QED BY <1>1, <1>3, <1>4, <1>5 DEF IInv

\* Begin promises one more batch, for which there is room.
LEMMA BeginIInv ==
  ASSUME IInv, NEW w \in Workers, Begin(w)
  PROVE  IInv'
  <1> USE ConstantsAssumption DEF IInv, Begin, Goto
  <1>1. TypeOK'
    BY DEF TypeOK
  <1>2. BudgetInv'
    <2> DEFINE New == {w} \X (1 .. batchSize)
    <2>1. batchSize \in Nat \ {0}
      BY DEF TypeOK
    <2>4. IsFiniteSet(New) /\ Cardinality(New) = batchSize
      BY <2>1, BatchPlaces
    <2>5. Cardinality(keys'[w]) = 0
      BY FS_EmptySet DEF TypeOK
    <2>6. Promised' = Promised \cup New
      BY <2>1, <2>5 DEF Promised, TypeOK
    <2>7. Promised \cap New = {}
      BY DEF Promised, TypeOK
    <2> HIDE DEF New
    <2>8. Cardinality(Promised \cup New) = Cardinality(Promised) + batchSize - 0
      BY <2>4, <2>7, PromisedFinite, FS_Union, FS_EmptySet
    <2> QED BY <2>1, <2>6, <2>8, PromisedFinite DEF BudgetInv, TypeOK
  <1>3. BatchInv'
    BY FS_EmptySet DEF BatchInv, TypeOK
  <1>4. IssuedInv'
    BY DEF IssuedInv, Issued, TypeOK
  <1>5. OwnerInv'
    BY DEF OwnerInv, Issued, Busy, TypeOK
  <1>6. RetryInv'
    BY DEF RetryInv, TypeOK
  <1>7. EndedInv'
    BY DEF EndedInv
  <1> QED BY <1>1, <1>2, <1>3, <1>4, <1>5, <1>6, <1>7

\* TakeKey uses up one promised key, which no other insert has.
LEMMA TakeKeyIInv ==
  ASSUME IInv, NEW w \in Workers, TakeKey(w)
  PROVE  IInv'
  <1> DEFINE c == Cardinality(keys[w])
             place == <<w, c + 1>>
  <1> USE ConstantsAssumption DEF IInv, TakeKey, Goto
  <1>1. batchSize \in Nat \ {0} /\ c \in Nat /\ c < batchSize
    BY KeySetsFinite DEF TypeOK, BatchInv
  <1>2. place \in Promised
    BY <1>1 DEF Promised
  <1>3. Cardinality(Promised) \in Nat \ {0}
    BY <1>2, PromisedFinite, FS_EmptySet
  <1>4. keySequence \in AllKeys
    BY <1>3 DEF BudgetInv, TypeOK, AllKeys
  <1>5. keySequence \notin keys[w]
    BY DEF IssuedInv, Issued, TypeOK
  <1>6. keys'[w] = keys[w] \cup {keySequence} /\ Cardinality(keys'[w]) = c + 1
    BY <1>5, KeySetsFinite, FS_AddElement DEF TypeOK
  <1>7. TypeOK'
    BY <1>3, <1>4, PromisedFinite DEF TypeOK, BudgetInv
  <1>8. \A v \in Workers : v # w => keys'[v] = keys[v] /\ pc'[v] = pc[v]
    BY DEF TypeOK
  <1>9. pc'[w] = (IF c + 1 = batchSize THEN "insert" ELSE "keys")
    BY <1>6 DEF TypeOK
  <1>10. BudgetInv'
    <2>1. Promised' = Promised \ {place}
      BY <1>1, <1>6, <1>8, <1>9 DEF Promised
    <2>2. Cardinality(Promised \ {place}) = Cardinality(Promised) - 1
      BY <1>2, PromisedFinite, FS_RemoveElement
    <2> QED BY <2>1, <2>2, <1>3 DEF BudgetInv, TypeOK
  <1>11. BatchInv'
    BY <1>1, <1>6, <1>8, <1>9 DEF BatchInv
  <1>12. Issued' = Issued \cup {keySequence}
    BY DEF Issued, TypeOK
  <1>13. IssuedInv'
    BY <1>6, <1>8, <1>12 DEF IssuedInv, TypeOK, AllKeys
  <1>14. OwnerInv'
    BY <1>6, <1>8, <1>9, <1>12 DEF OwnerInv, IssuedInv, Issued, Busy, TypeOK
  <1>15. RetryInv'
    BY <1>4, <1>6, <1>8, <1>9 DEF RetryInv, IssuedInv, TypeOK
  <1>16. EndedInv'
    BY DEF EndedInv
  <1> QED BY <1>7, <1>10, <1>11, <1>13, <1>14, <1>15, <1>16

\* A step of an insert that takes no key leaves the promised keys alone.
LEMMA PromisedSame ==
  ASSUME NEW w \in Workers, TypeOK, pc[w] # "keys", pc'[w] # "keys",
         UNCHANGED <<keys, batchSize>>,
         \A v \in Workers : v # w => pc'[v] = pc[v]
  PROVE  Promised' = Promised
  BY DEF Promised

\* The database stores some of a worker's keys, all of them when it reports success.
LEMMA InsertIInv ==
  ASSUME IInv, NEW w \in Workers, Insert(w)
  PROVE  IInv'
  <1> USE ConstantsAssumption DEF IInv
  <1>1. PICK S \in SUBSET keys[w] :
          /\ stored' = [k \in AllKeys |-> stored[k] + (IF k \in S THEN 1 ELSE 0)]
          /\ \/ S = keys[w] /\ pc' = [pc EXCEPT ![w] = "poll"] /\ UNCHANGED failed
             \/ pc' = [pc EXCEPT ![w] = "idle"] /\ failed' = failed \cup keys[w]
    BY DEF Insert, Store, Goto
  <1>2. pc[w] = "insert" /\ UNCHANGED <<batchSize, keySequence, keys, numOfRetries, returned, cancelled>>
    BY DEF Insert
  <1>3. pc'[w] \in {"poll", "idle"} /\ \A v \in Workers : v # w => pc'[v] = pc[v]
    BY <1>1 DEF TypeOK
  <1>4. TypeOK'
    <2>1. stored' \in [AllKeys -> Nat]
      BY <1>1 DEF TypeOK
    <2>2. pc' \in [Workers -> {"idle", "keys", "insert", "poll"}] /\ failed' \subseteq AllKeys
      BY <1>1 DEF TypeOK
    <2> QED BY <1>2, <2>1, <2>2 DEF TypeOK
  <1>5. BudgetInv' /\ BatchInv'
    BY <1>2, <1>3, PromisedSame DEF BudgetInv, BatchInv
  <1>6. keys[w] \subseteq Issued /\ Issued \cap AllKeys = Issued
    BY DEF IssuedInv, Issued, TypeOK, AllKeys
  <1>7. IssuedInv'
    BY <1>1, <1>2, <1>6 DEF IssuedInv, Issued, TypeOK
  <1>8. OwnerInv'
    BY <1>1, <1>2, <1>3 DEF OwnerInv, Issued, Busy, TypeOK
  <1>9. \A k \in AllKeys : k \notin keys[w] => stored'[k] = stored[k]
    BY <1>1 DEF TypeOK
  <1>10. RetryInv'
    <2> SUFFICES ASSUME NEW v \in Workers PROVE RetryInv!(v)'
      BY DEF RetryInv
    <2>1. CASE v = w
      BY <1>1, <1>2, <1>3, <2>1 DEF RetryInv, TypeOK
    <2>2. CASE v # w
      <3>1. Busy(v) => keys[v] \cap keys[w] = {}
        BY <1>2, <2>2 DEF OwnerInv, Busy
      <3> QED BY <1>2, <1>3, <1>9, <2>2, <3>1 DEF RetryInv, TypeOK, Busy
    <2> QED BY <2>1, <2>2
  <1>11. EndedInv'
    <2>1. \A k \in returned \cup failed : k \notin keys[w] /\ k \in AllKeys
      BY <1>2 DEF OwnerInv, Busy, TypeOK
    <2>2. \A k \in keys[w] : k \in AllKeys /\ stored'[k] <= insertionRetryLimit + 1
      BY <1>1, <1>2 DEF RetryInv, TypeOK
    <2> QED BY <1>1, <1>2, <1>9, <2>1, <2>2 DEF EndedInv
  <1> QED BY <1>4, <1>5, <1>7, <1>8, <1>10, <1>11

\* After a success the insert ends with nil, or counts a retry within the limit.
LEMMA AfterSuccessIInv ==
  ASSUME IInv, NEW w \in Workers, AfterSuccess(w)
  PROVE  IInv'
  <1> USE ConstantsAssumption DEF IInv
  <1>1. /\ pc[w] = "poll"
        /\ UNCHANGED <<batchSize, keySequence, keys, stored, failed, cancelled>>
        /\ \/ /\ pc' = [pc EXCEPT ![w] = "idle"]
              /\ returned' = returned \cup keys[w]
              /\ numOfRetries' = numOfRetries
                 \/ numOfRetries' = [numOfRetries EXCEPT ![w] = numOfRetries[w] + 1]
           \/ /\ pc' = [pc EXCEPT ![w] = "insert"]
              /\ UNCHANGED returned
              /\ numOfRetries[w] + 1 <= insertionRetryLimit
              /\ numOfRetries' = [numOfRetries EXCEPT ![w] = numOfRetries[w] + 1]
    BY DEF AfterSuccess, Goto, TypeOK
  <1>2. pc'[w] \in {"insert", "idle"} /\ \A v \in Workers : v # w => pc'[v] = pc[v]
    BY <1>1 DEF TypeOK
  <1>3. TypeOK'
    <2>1. /\ pc' \in [Workers -> {"idle", "keys", "insert", "poll"}]
          /\ returned' \subseteq AllKeys
          /\ numOfRetries' \in [Workers -> Nat]
      BY <1>1 DEF TypeOK
    <2> QED BY <1>1, <2>1 DEF TypeOK
  <1>4. BudgetInv' /\ BatchInv'
    BY <1>1, <1>2, PromisedSame DEF BudgetInv, BatchInv
  <1>5. IssuedInv'
    BY <1>1 DEF IssuedInv, Issued
  <1>6. OwnerInv'
    BY <1>1, <1>2 DEF OwnerInv, Issued, Busy, TypeOK
  <1>7. RetryInv'
    BY <1>1, <1>2 DEF RetryInv, TypeOK
  <1>8. EndedInv'
    BY <1>1 DEF EndedInv, RetryInv, TypeOK
  <1> QED BY <1>3, <1>4, <1>5, <1>6, <1>7, <1>8

\* Every step keeps the invariant; a cancellation touches nothing it speaks of.
LEMMA StepIInv == IInv /\ [Next]_vars => IInv'
  <1> SUFFICES ASSUME IInv, [Next]_vars PROVE IInv'
    OBVIOUS
  <1>1. ASSUME NEW w \in Workers, Step(w) PROVE IInv'
    BY <1>1, BeginIInv, TakeKeyIInv, InsertIInv, AfterSuccessIInv DEF Step
  <1>2. CASE Cancel \/ UNCHANGED vars
    <2>1. UNCHANGED <<batchSize, keySequence, pc, keys, numOfRetries, stored, returned, failed>>
      BY <1>2 DEF Cancel, vars
    <2>2. cancelled' \in BOOLEAN
      BY <1>2 DEF Cancel, vars, IInv, TypeOK
    <2>3. TypeOK'
      BY <2>1, <2>2 DEF IInv, TypeOK
    <2> QED
      BY <2>1, <2>3 DEF IInv, BudgetInv, Promised, BatchInv, IssuedInv, Issued, OwnerInv,
                        Busy, RetryInv, EndedInv
  <1> QED BY <1>1, <1>2 DEF Next

LEMMA InvariantHolds == Spec => []IInv
  BY InitIInv, StepIInv, PTL DEF Spec

\* An insert that returns nil has stored its keys, also when the load is cancelled
\* between the call and the return (core.go:279-285).
THEOREM NilMeansStoredHolds == Spec => []NilMeansStored
  <1>1. IInv => NilMeansStored
    BY DEF IInv, EndedInv, NilMeansStored
  <1> QED BY <1>1, InvariantHolds, PTL

\* The database stores no key more often than the retry limit allows (core.go:265,
\* 290-293), with the types of the load's state.
THEOREM BoundedInsertsHolds == Spec => []BoundedInserts
  <1>1. ASSUME IInv PROVE BoundedInserts
    <2> SUFFICES ASSUME NEW k \in AllKeys PROVE stored[k] <= insertionRetryLimit + 1
      BY <1>1 DEF IInv, BoundedInserts
    <2> USE <1>1, ConstantsAssumption DEF IInv
    <2>1. CASE k >= keySequence
      BY <2>1 DEF IssuedInv
    <2>2. CASE k \in returned \cup failed
      BY <2>2 DEF EndedInv
    <2>3. CASE \E w \in Workers : Busy(w) /\ k \in keys[w]
      BY <2>3 DEF RetryInv, Busy, TypeOK
    <2> QED BY <2>1, <2>2, <2>3 DEF OwnerInv, Issued, TypeOK, AllKeys
  <1> QED BY <1>1, InvariantHolds, PTL

\* No key of the sequence is skipped: whenever all workers are idle, the insert of each
\* issued key has returned nil or an error.
THEOREM EveryKeyAttemptedHolds == Spec => []EveryKeyAttempted
  <1>1. IInv => EveryKeyAttempted
    BY DEF IInv, OwnerInv, Issued, Busy, EveryKeyAttempted
  <1> QED BY <1>1, InvariantHolds, PTL
=============================================================================
