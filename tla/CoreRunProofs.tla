--------------------------- MODULE CoreRunProofs ----------------------------
(***************************************************************************)
(* Proofs about CoreRun, for any number of workers, records and fields and *)
(* any set of modes.                                                       *)
(***************************************************************************)
EXTENDS CoreRun, FiniteSetTheorems, TLAPS

\* The keys that this run has issued.
IssuedKeys == RecordCount .. issued - 1

Inserting(w) == op[w] = "insert" /\ pc[w] # "idle"

\* The operation and the number of keys still to choose go with the program point.
PointInv ==
  \A w \in Workers :
    /\ left[w] <= mode.batchSize
    /\ pc[w] \in {"take", "batchAck", "insert", "ack"} => op[w] = "insert"
    /\ pc[w] \in {"choose", "call", "update"} => op[w] # "insert"
    /\ pc[w] \in {"take", "choose"} => left[w] > 0
    /\ pc[w] \in {"idle", "insert", "ack"} /\ op[w] = "insert" => left[w] = 0
    /\ pc[w] = "batchAck" => mode.batchSize > 1
    /\ pc[w] = "ack" => mode.batchSize = 1

\* The keys that the inserts in progress still take are left below the bound.
BudgetInv == issued + Cardinality(Reserved) <= MaxKey + 1

\* Last is below every key that is not acknowledged.
SequenceInv ==
  /\ unacked \subseteq IssuedKeys
  /\ last < issued
  /\ \A k \in unacked : last < k

\* A key belongs to one insert in progress, and is not ended before its call.
OwnerInv ==
  /\ ended \subseteq IssuedKeys
  /\ \A w \in Workers : Inserting(w) => keys[w] \subseteq IssuedKeys
  /\ \A v, w \in Workers : v # w /\ Inserting(v) /\ Inserting(w) => keys[v] \cap keys[w] = {}
  /\ \A w \in Workers : pc[w] \in {"take", "batchAck", "insert"} => keys[w] \cap ended = {}

\* A single insert has one key, which waits for its acknowledgement to the end.
SingleInv ==
  mode.batchSize = 1 =>
    \A w \in Workers :
      /\ pc[w] = "take" => keys[w] = {}
      /\ pc[w] \in {"insert", "ack"} => \E k \in unacked : keys[w] = {k}
      /\ pc[w] = "ack" => keys[w] \subseteq ended

\* A batch has one key to acknowledge, between taking it and the next.
BatchInv ==
  mode.batchSize > 1 =>
    \A w \in Workers :
      /\ pc[w] \in {"take", "insert"} => keys[w] \cap unacked = {}
      /\ pc[w] = "batchAck" => \A j, k \in keys[w] \cap unacked : j = k

\* In single mode a key is acknowledged only after its insert has returned.
AckInv == mode.batchSize = 1 => \A k \in IssuedKeys \ unacked : k \in ended

IInv ==
  /\ TypeOK /\ PointInv /\ BudgetInv /\ SequenceInv /\ OwnerInv /\ SingleInv /\ BatchInv
  /\ AckInv /\ ChosenKeysInserted /\ NoAckLeak /\ InsertsWhole
-----------------------------------------------------------------------------
\* What the assumptions say of the mode.
LEMMA ModeType ==
  ASSUME TypeOK
  PROVE  mode.batchSize \in Nat \ {0} /\ mode.chooser \in Choosers
         /\ mode.writeAllFields \in BOOLEAN
  BY ConstantsAssumption DEF TypeOK

\* The keys reserved by inserts in progress are finitely many.
LEMMA ReservedFinite ==
  ASSUME TypeOK
  PROVE  IsFiniteSet(Reserved) /\ Cardinality(Reserved) \in Nat
  <1>1. IsFiniteSet(1 .. mode.batchSize)
    BY ModeType, FS_Interval
  <1>2. IsFiniteSet(Workers \X (1 .. mode.batchSize))
    BY <1>1, FS_Product, ConstantsAssumption
  <1>3. Reserved \in SUBSET (Workers \X (1 .. mode.batchSize))
    BY DEF Reserved
  <1> QED BY <1>2, <1>3, FS_Subset, FS_CardinalityType

\* The places of one whole batch.
LEMMA BatchPlaces ==
  ASSUME NEW w, NEW n \in Nat
  PROVE  IsFiniteSet({w} \X (1 .. n)) /\ Cardinality({w} \X (1 .. n)) = n
  <1> DEFINE W == {w}
             I == 1 .. n
  <1>1. IsFiniteSet(W) /\ Cardinality(W) = 1
    BY FS_Singleton
  <1>2. IsFiniteSet(I) /\ Cardinality(I) = n
    BY FS_Interval
  <1> HIDE DEF W, I
  <1>3. IsFiniteSet(W \X I) /\ Cardinality(W \X I) = Cardinality(W) * Cardinality(I)
    BY <1>1, <1>2, FS_Product
  <1>4. Cardinality(W \X I) = n
    BY <1>1, <1>2, <1>3
  <1> QED BY <1>3, <1>4 DEF W, I

\* Every chosen key is stored or may be; those of "latest" and "exponential" stop at
\* Last, and so before the keys that are not acknowledged.
LEMMA KeyRangeInserted ==
  ASSUME IInv, NEW k \in KeyRange
  PROVE  /\ k \in AllKeys
         /\ mode.chooser \in {"latest", "exponential"} =>
              \/ k < RecordCount
              \/ IF mode.batchSize = 1 THEN k \in ended ELSE k < issued
  <1> USE ConstantsAssumption, ModeType DEF IInv
  <1>1. KeyRange \subseteq AllKeys
    BY DEF KeyRange, AllKeys, Choosers, TypeOK
  <1>2. CASE mode.chooser \in {"latest", "exponential"}
    <2>1. k \in 0 .. last
      BY <1>2 DEF KeyRange
    <2>2. k < RecordCount \/ k \in IssuedKeys \ unacked
      BY <2>1 DEF IssuedKeys, SequenceInv, TypeOK
    <2> QED BY <1>1, <2>1, <2>2 DEF AckInv, IssuedKeys, TypeOK
  <1> QED BY <1>1, <1>2

\* Initially no worker has begun and no key is issued.
LEMMA InitIInv == Init => IInv
  <1> SUFFICES ASSUME Init PROVE IInv
    OBVIOUS
  <1> USE ConstantsAssumption DEF Init, KeySeq!SeqInit
  <1>1. TypeOK
    <2>1. rows \in [AllKeys -> SUBSET Fields]
      OBVIOUS
    <2>2. /\ issued \in RecordCount .. MaxKey + 1
          /\ last \in RecordCount - 1 .. MaxKey
          /\ pc \in [Workers -> {"idle", "choose", "take", "batchAck", "insert", "ack",
                                  "call", "update"}]
          /\ op \in [Workers -> {"read", "update", "insert", "scan", "readModifyWrite"}]
          /\ left \in [Workers -> Nat]
      OBVIOUS
    <2>3. keys \in [Workers -> SUBSET AllKeys]
      OBVIOUS
    <2> QED BY <2>1, <2>2, <2>3 DEF TypeOK
  <1>2. mode.batchSize \in Nat \ {0}
    BY <1>1, ModeType
  <1>3. Reserved = {}
    BY DEF Reserved
  <1>4. BudgetInv
    BY <1>3, FS_EmptySet DEF BudgetInv
  <1>5. PointInv
    BY <1>2 DEF PointInv
  <1>6. SequenceInv /\ OwnerInv /\ SingleInv /\ BatchInv /\ AckInv
    BY DEF SequenceInv, OwnerInv, SingleInv, BatchInv, AckInv, IssuedKeys, Inserting
  <1>7. ChosenKeysInserted /\ NoAckLeak /\ InsertsWhole
    BY <1>1 DEF ChosenKeysInserted, NoAckLeak, InsertsWhole
  <1> QED BY <1>1, <1>4, <1>5, <1>6, <1>7 DEF IInv

\* A step of w that is idle or not inserting, and goes on without inserting, reserves
\* nothing.
LEMMA ReservedSame ==
  ASSUME IInv, NEW w \in Workers, mode' = mode,
         left[w] = 0 \/ op[w] # "insert", left'[w] = 0 \/ op'[w] # "insert",
         left'[w] \in Nat,
         \A v \in Workers : v # w => op'[v] = op[v] /\ left'[v] = left[v]
  PROVE  Reserved' = Reserved
  BY DEF Reserved, IInv, TypeOK

\* The choice of a key first, or of an operation: the worker was idle.
LEMMA BeginIInv ==
  ASSUME IInv, NEW w \in Workers, ChooseKeyFirst(w) \/ ChooseOperation(w)
  PROVE  IInv'
  <1> USE ConstantsAssumption, ModeType DEF IInv
  <1>1. PICK K \in SUBSET KeyRange, operation \in {"read", "update", "scan", "readModifyWrite"},
               n \in {0, mode.batchSize} :
          /\ op' = [op EXCEPT ![w] = operation]
          /\ keys' = [keys EXCEPT ![w] = K]
          /\ left' = [left EXCEPT ![w] = n]
          /\ pc' = [pc EXCEPT ![w] = IF n = 0 THEN "call" ELSE "choose"]
    <2>1. CASE ChooseKeyFirst(w)
      <3>1. PICK k \in KeyRange, operation \in {"read", "update"} : Begin(w, operation, {k}, 0)
        BY <2>1 DEF ChooseKeyFirst
      <3>2. {k} \in SUBSET KeyRange
        OBVIOUS
      <3> QED BY <2>1, <3>1, <3>2 DEF ChooseKeyFirst, Begin, Goto
    <2>2. CASE ChooseOperation(w)
      <3>1. PICK operation \in Operations : Begin(w, operation, {}, mode.batchSize)
        BY <2>2 DEF ChooseOperation
      <3>2. {} \in SUBSET KeyRange
        OBVIOUS
      <3> QED BY <2>2, <3>1, <3>2 DEF ChooseOperation, Begin, Goto, Operations
    <2> QED BY <2>1, <2>2
  <1>2. pc[w] = "idle" /\ UNCHANGED <<mode, issued, unacked, last, rows, ended, whole>>
    BY DEF ChooseKeyFirst, ChooseOperation, Begin, seqVars, dbVars
  <1>3. /\ op'[w] # "insert" /\ pc'[w] \in {"call", "choose"}
        /\ left'[w] \in Nat /\ left'[w] <= mode.batchSize
        /\ pc'[w] = "choose" => left'[w] > 0
        /\ keys'[w] \subseteq KeyRange
        /\ \A v \in Workers : v # w => /\ op'[v] = op[v] /\ left'[v] = left[v]
                                        /\ pc'[v] = pc[v] /\ keys'[v] = keys[v]
    BY <1>1 DEF TypeOK
  <1>4. TypeOK'
    <2>1. K \subseteq AllKeys
      BY KeyRangeInserted
    <2> QED BY <1>1, <1>2, <2>1 DEF TypeOK
  <1>5. PointInv'
    BY <1>2, <1>3 DEF PointInv
  <1>6. BudgetInv'
    BY <1>2, <1>3, ReservedSame DEF BudgetInv, PointInv
  <1>7. SequenceInv' /\ AckInv'
    BY <1>2 DEF SequenceInv, AckInv, IssuedKeys
  <1>8. OwnerInv'
    BY <1>2, <1>3 DEF OwnerInv, Inserting, IssuedKeys
  <1>9. SingleInv' /\ BatchInv'
    BY <1>2, <1>3 DEF SingleInv, BatchInv
  <1>10. ChosenKeysInserted'
    BY <1>2, <1>3, KeyRangeInserted DEF ChosenKeysInserted
  <1>11. NoAckLeak'
    BY <1>2, <1>3 DEF NoAckLeak
  <1>12. InsertsWhole'
    BY <1>2, <1>4 DEF InsertsWhole
  <1> QED BY <1>4, <1>5, <1>6, <1>7, <1>8, <1>9, <1>10, <1>11, <1>12

\* An insert reserves its keys, for which there is room.
LEMMA ChooseInsertIInv ==
  ASSUME IInv, NEW w \in Workers, ChooseInsert(w)
  PROVE  IInv'
  <1> USE ConstantsAssumption, ModeType DEF IInv
  <1>1. /\ op' = [op EXCEPT ![w] = "insert"]
        /\ keys' = [keys EXCEPT ![w] = {}]
        /\ left' = [left EXCEPT ![w] = mode.batchSize]
        /\ pc' = [pc EXCEPT ![w] = "take"]
        /\ pc[w] = "idle"
        /\ issued + Cardinality(Reserved) + mode.batchSize - 1 <= MaxKey
        /\ UNCHANGED <<mode, issued, unacked, last, rows, ended, whole>>
    BY DEF ChooseInsert, Begin, Goto, seqVars, dbVars
  <1>2. /\ op'[w] = "insert" /\ pc'[w] = "take" /\ left'[w] = mode.batchSize /\ keys'[w] = {}
        /\ \A v \in Workers : v # w => /\ op'[v] = op[v] /\ left'[v] = left[v]
                                        /\ pc'[v] = pc[v] /\ keys'[v] = keys[v]
    BY <1>1 DEF TypeOK
  <1>3. TypeOK'
    BY <1>1 DEF TypeOK
  <1>4. PointInv'
    BY <1>1, <1>2 DEF PointInv
  <1>5. BudgetInv'
    <2> DEFINE New == {w} \X (1 .. mode.batchSize)
    <2>1. IsFiniteSet(New) /\ Cardinality(New) = mode.batchSize
      BY BatchPlaces
    <2>2. Reserved' = Reserved \cup New
      BY <1>1, <1>2 DEF Reserved, TypeOK, PointInv
    <2>3. Reserved \cap New = {}
      BY <1>1 DEF Reserved, TypeOK, PointInv
    <2> HIDE DEF New
    <2>4. Cardinality(Reserved \cup New) = Cardinality(Reserved) + mode.batchSize - 0
      BY <2>1, <2>3, ReservedFinite, FS_Union, FS_EmptySet
    <2> QED BY <1>1, <2>2, <2>4, ReservedFinite DEF BudgetInv, TypeOK
  <1>6. SequenceInv' /\ AckInv'
    BY <1>1 DEF SequenceInv, AckInv, IssuedKeys
  <1>7. OwnerInv'
    BY <1>1, <1>2 DEF OwnerInv, Inserting, IssuedKeys
  <1>8. SingleInv' /\ BatchInv'
    BY <1>1, <1>2 DEF SingleInv, BatchInv
  <1>9. ChosenKeysInserted'
    BY <1>1, <1>2 DEF ChosenKeysInserted
  <1>10. NoAckLeak'
    BY <1>1, <1>2 DEF NoAckLeak
  <1>11. InsertsWhole'
    BY <1>1, <1>3 DEF InsertsWhole
  <1> QED BY <1>3, <1>4, <1>5, <1>6, <1>7, <1>8, <1>9, <1>10, <1>11

\* The next key of an operation that inserts nothing.
LEMMA ChooseKeyIInv ==
  ASSUME IInv, NEW w \in Workers, ChooseKey(w)
  PROVE  IInv'
  <1> USE ConstantsAssumption, ModeType DEF IInv
  <1>1. PICK k \in KeyRange : keys' = [keys EXCEPT ![w] = @ \cup {k}]
    BY DEF ChooseKey
  <1>2. /\ pc[w] = "choose"
        /\ left' = [left EXCEPT ![w] = left[w] - 1]
        /\ pc' = [pc EXCEPT ![w] = IF left[w] = 1 THEN "call" ELSE "choose"]
        /\ UNCHANGED <<mode, issued, unacked, last, rows, ended, whole, op>>
    BY DEF ChooseKey, Goto, seqVars, dbVars
  <1>3. op[w] # "insert" /\ left[w] \in Nat \ {0} /\ left[w] <= mode.batchSize
    BY <1>2 DEF PointInv, TypeOK
  <1>4. /\ keys'[w] = keys[w] \cup {k} /\ left'[w] = left[w] - 1
        /\ pc'[w] = (IF left[w] = 1 THEN "call" ELSE "choose")
        /\ \A v \in Workers : v # w => /\ left'[v] = left[v] /\ pc'[v] = pc[v]
                                        /\ keys'[v] = keys[v]
    BY <1>1, <1>2 DEF TypeOK
  <1>5. TypeOK'
    BY <1>1, <1>2, <1>3, KeyRangeInserted DEF TypeOK
  <1>6. PointInv'
    BY <1>2, <1>3, <1>4 DEF PointInv
  <1>7. BudgetInv'
    BY <1>2, <1>3, <1>4, ReservedSame DEF BudgetInv
  <1>8. SequenceInv' /\ AckInv'
    BY <1>2 DEF SequenceInv, AckInv, IssuedKeys
  <1>9. OwnerInv'
    BY <1>2, <1>3, <1>4 DEF OwnerInv, Inserting, IssuedKeys
  <1>10. SingleInv' /\ BatchInv'
    BY <1>2, <1>4 DEF SingleInv, BatchInv
  <1>11. ChosenKeysInserted'
    BY <1>2, <1>4, KeyRangeInserted DEF ChosenKeysInserted
  <1>12. NoAckLeak'
    BY <1>2, <1>3, <1>4 DEF NoAckLeak
  <1>13. InsertsWhole'
    BY <1>2, <1>5 DEF InsertsWhole
  <1> QED BY <1>5, <1>6, <1>7, <1>8, <1>9, <1>10, <1>11, <1>12, <1>13

\* A key is issued: it is new to everybody, and one reserved key less.
LEMMA TakeInsertKeyIInv ==
  ASSUME IInv, NEW w \in Workers, TakeInsertKey(w)
  PROVE  IInv'
  <1> USE ConstantsAssumption, ModeType DEF IInv
  <1>1. /\ pc[w] = "take"
        /\ issued' = issued + 1
        /\ unacked' = unacked \cup {issued}
        /\ keys' = [keys EXCEPT ![w] = keys[w] \cup {issued}]
        /\ left' = [left EXCEPT ![w] = left[w] - 1]
        /\ pc' = [pc EXCEPT ![w] = IF mode.batchSize = 1 THEN "insert" ELSE "batchAck"]
        /\ UNCHANGED <<last, mode, rows, ended, whole, op>>
    BY DEF TakeInsertKey, KeySeq!Issue, Goto, dbVars
  <1>2. op[w] = "insert" /\ left[w] \in Nat \ {0} /\ left[w] <= mode.batchSize
    BY <1>1 DEF PointInv, TypeOK
  <1>3. /\ keys'[w] = keys[w] \cup {issued} /\ left'[w] = left[w] - 1
        /\ pc'[w] = (IF mode.batchSize = 1 THEN "insert" ELSE "batchAck")
        /\ \A v \in Workers : v # w => /\ left'[v] = left[v] /\ pc'[v] = pc[v]
                                        /\ keys'[v] = keys[v]
    BY <1>1 DEF TypeOK
  <1>4. <<w, left[w]>> \in Reserved
    BY <1>2 DEF Reserved
  <1>5. Cardinality(Reserved) \in Nat \ {0}
    BY <1>4, ReservedFinite, FS_EmptySet
  <1>6. issued \in RecordCount .. MaxKey
    BY <1>5 DEF BudgetInv, TypeOK
  <1>7. TypeOK'
    <2>1. issued \in AllKeys
      BY <1>6 DEF AllKeys
    <2> QED BY <1>1, <1>2, <1>6, <2>1 DEF TypeOK
  <1>8. PointInv'
    BY <1>1, <1>2, <1>3 DEF PointInv
  <1>9. BudgetInv'
    <2> DEFINE place == <<w, left[w]>>
    <2>1. Reserved' = Reserved \ {place}
      BY <1>1, <1>2, <1>3 DEF Reserved, TypeOK
    <2>2. Cardinality(Reserved \ {place}) = Cardinality(Reserved) - 1
      BY <1>4, ReservedFinite, FS_RemoveElement
    <2> QED BY <1>1, <1>5, <2>1, <2>2 DEF BudgetInv, TypeOK
  <1>10. IssuedKeys' = IssuedKeys \cup {issued} /\ issued \notin IssuedKeys
    BY <1>1, <1>6 DEF IssuedKeys
  <1>11. SequenceInv' /\ AckInv'
    BY <1>1, <1>6, <1>10 DEF SequenceInv, AckInv, TypeOK
  <1>12. OwnerInv'
    BY <1>1, <1>2, <1>3, <1>10 DEF OwnerInv, Inserting
  <1>13. \A v \in Workers : pc[v] \in {"take", "batchAck", "insert", "ack"} =>
                             issued \notin keys[v] /\ op[v] = "insert"
    BY <1>10 DEF OwnerInv, Inserting, PointInv
  <1>14. SingleInv'
    BY <1>1, <1>2, <1>3 DEF SingleInv
  <1>15. BatchInv'
    BY <1>1, <1>3, <1>13 DEF BatchInv
  <1>16. ChosenKeysInserted'
    BY <1>1, <1>2, <1>3, <1>6 DEF ChosenKeysInserted, TypeOK, AllKeys
  <1>17. NoAckLeak'
    BY <1>1, <1>2, <1>3 DEF NoAckLeak
  <1>18. InsertsWhole'
    BY <1>1, <1>7 DEF InsertsWhole
  <1> QED BY <1>7, <1>8, <1>9, <1>11, <1>12, <1>14, <1>15, <1>16, <1>17, <1>18

\* A batch acknowledges the key that it took last.
LEMMA BatchAcknowledgeIInv ==
  ASSUME IInv, NEW w \in Workers, BatchAcknowledge(w)
  PROVE  IInv'
  <1> USE ConstantsAssumption, ModeType DEF IInv
  <1>1. PICK k \in keys[w] \cap unacked :
          unacked' = unacked \ {k} /\ issued' = issued /\ last' = last
    BY DEF BatchAcknowledge, KeySeq!Acked
  <1>2. /\ pc[w] = "batchAck"
        /\ pc' = [pc EXCEPT ![w] = IF left[w] = 0 THEN "insert" ELSE "take"]
        /\ UNCHANGED <<mode, rows, ended, whole, op, keys, left>>
    BY DEF BatchAcknowledge, Goto, dbVars
  <1>3. op[w] = "insert" /\ mode.batchSize > 1 /\ left[w] \in Nat
    BY <1>2 DEF PointInv, TypeOK
  <1>4. /\ pc'[w] = (IF left[w] = 0 THEN "insert" ELSE "take")
        /\ \A v \in Workers : v # w => pc'[v] = pc[v]
    BY <1>2 DEF TypeOK
  <1>5. TypeOK'
    BY <1>1, <1>2 DEF TypeOK
  <1>6. PointInv'
    BY <1>2, <1>3, <1>4 DEF PointInv
  <1>7. BudgetInv'
    BY <1>1, <1>2 DEF BudgetInv, Reserved
  <1>8. SequenceInv' /\ AckInv'
    <2>1. SequenceInv'
      BY <1>1 DEF SequenceInv, IssuedKeys
    <2>2. AckInv'
      BY <1>2, <1>3 DEF AckInv
    <2> QED BY <2>1, <2>2
  <1>9. OwnerInv'
    BY <1>1, <1>2, <1>4 DEF OwnerInv, Inserting, IssuedKeys
  <1>10. SingleInv'
    BY <1>2, <1>3 DEF SingleInv
  <1>11. BatchInv'
    BY <1>1, <1>2, <1>4 DEF BatchInv
  <1>12. ChosenKeysInserted'
    BY <1>1, <1>2 DEF ChosenKeysInserted
  <1>13. NoAckLeak'
    <2> SUFFICES ASSUME NEW j \in unacked'
                 PROVE  \E v \in Workers : j \in keys'[v] /\ op'[v] = "insert" /\ pc'[v] # "idle"
      BY DEF NoAckLeak
    <2>1. PICK v \in Workers : j \in keys[v] /\ op[v] = "insert" /\ pc[v] # "idle"
      BY <1>1 DEF NoAckLeak
    <2> QED BY <1>2, <1>4, <2>1
  <1>14. InsertsWhole'
    BY <1>2, <1>5 DEF InsertsWhole
  <1> QED BY <1>5, <1>6, <1>7, <1>8, <1>9, <1>10, <1>11, <1>12, <1>13, <1>14

\* The insert call returns: it wrote rows of its own keys only, all of them with success.
LEMMA InsertReturnsIInv ==
  ASSUME IInv, NEW w \in Workers, InsertCall(w) \/ BatchInsertCall(w)
  PROVE  IInv'
  <1> USE ConstantsAssumption, ModeType DEF IInv
  <1> DEFINE F == IF mode.batchSize = 1 THEN {Fields} ELSE UpdatedFields
  <1>1. /\ InsertReturns(w, F)
        /\ pc' = [pc EXCEPT ![w] = IF mode.batchSize = 1 THEN "ack" ELSE "idle"]
    BY DEF InsertCall, BatchInsertCall, Goto
  <1>2. /\ pc[w] = "insert"
        /\ ended' = ended \cup keys[w]
        /\ UNCHANGED <<mode, issued, unacked, last, op, keys, left>>
    BY <1>1 DEF InsertReturns, seqVars
  <1>3. PICK K \in SUBSET keys[w] :
          /\ \E fs \in [K -> F] :
               rows' = [k \in AllKeys |-> IF k \in K THEN fs[k] ELSE rows[k]]
          /\ \/ K = keys[w] /\ whole' = whole \cup keys[w]
             \/ whole' = whole
    <2>1. CASE InsertRows(keys[w], F) /\ whole' = whole \cup keys[w]
      BY <2>1 DEF InsertRows
    <2>2. CASE (\E K \in SUBSET keys[w] : InsertRows(K, F)) /\ UNCHANGED whole
      BY <2>2 DEF InsertRows
    <2> QED BY <1>1, <2>1, <2>2 DEF InsertReturns
  <1>3a. PICK fs \in [K -> F] :
           rows' = [k \in AllKeys |-> IF k \in K THEN fs[k] ELSE rows[k]]
    BY <1>3
  <1>4. F \subseteq SUBSET Fields
    BY DEF UpdatedFields
  <1>5. mode.batchSize = 1 \/ mode.writeAllFields => F = {Fields}
    BY DEF UpdatedFields
  <1> HIDE DEF F
  <1>6. op[w] = "insert" /\ left[w] = 0 /\ keys[w] \subseteq IssuedKeys /\ keys[w] \subseteq AllKeys
        /\ keys[w] \cap ended = {}
    BY <1>2 DEF PointInv, OwnerInv, Inserting, TypeOK
  <1>7. /\ pc'[w] = (IF mode.batchSize = 1 THEN "ack" ELSE "idle")
        /\ \A v \in Workers : v # w => pc'[v] = pc[v]
    BY <1>1 DEF TypeOK
  <1>8. TypeOK'
    <2>1. rows' \in [AllKeys -> SUBSET Fields]
      BY <1>3a, <1>4 DEF TypeOK
    <2>2. ended' \subseteq AllKeys /\ whole' \subseteq ended'
      BY <1>2, <1>3, <1>6 DEF TypeOK
    <2>3. pc' \in [Workers -> {"idle", "choose", "take", "batchAck", "insert", "ack",
                               "call", "update"}]
      BY <1>1 DEF TypeOK
    <2> QED BY <1>2, <2>1, <2>2, <2>3 DEF TypeOK
  <1>9. PointInv'
    BY <1>2, <1>6, <1>7 DEF PointInv
  <1>10. BudgetInv'
    BY <1>2 DEF BudgetInv, Reserved
  <1>11. SequenceInv' /\ AckInv'
    BY <1>2 DEF SequenceInv, AckInv, IssuedKeys
  <1>12. OwnerInv'
    <2>1. \A v \in Workers : v # w /\ pc[v] \in {"take", "batchAck", "insert"} =>
            keys[v] \cap keys[w] = {}
      BY <1>2, <1>6 DEF OwnerInv, Inserting, PointInv
    <2> QED BY <1>2, <1>6, <1>7, <2>1 DEF OwnerInv, Inserting, IssuedKeys
  <1>13. SingleInv'
    BY <1>2, <1>7 DEF SingleInv
  <1>14. BatchInv'
    BY <1>2, <1>7 DEF BatchInv
  <1>15. ChosenKeysInserted'
    BY <1>2 DEF ChosenKeysInserted
  <1>16. NoAckLeak'
    <2>1. CASE mode.batchSize = 1
      BY <1>2, <1>7, <2>1 DEF NoAckLeak
    <2>2. CASE mode.batchSize > 1
      <3>1. keys[w] \cap unacked = {}
        BY <1>2, <2>2 DEF BatchInv
      <3> QED BY <1>2, <1>7, <3>1 DEF NoAckLeak
    <2> QED BY <2>1, <2>2
  <1>17. InsertsWhole'
    <2>1. ASSUME mode.batchSize = 1 \/ mode.writeAllFields, NEW k \in whole'
          PROVE  rows'[k] = Fields
      <3>1. k \in AllKeys
        BY <1>3, <1>6 DEF TypeOK
      <3>2. CASE k \in K
        BY <1>3a, <1>5, <2>1, <3>1, <3>2
      <3>3. CASE k \notin K
        BY <1>3, <1>3a, <2>1, <3>1, <3>3 DEF InsertsWhole, TypeOK
      <3> QED BY <3>2, <3>3
    <2> QED BY <1>2, <1>8, <2>1 DEF InsertsWhole
  <1> QED BY <1>8, <1>9, <1>10, <1>11, <1>12, <1>13, <1>14, <1>15, <1>16, <1>17

\* The deferred Acknowledge: the one key of the insert, whose call has returned.
LEMMA AcknowledgeIInv ==
  ASSUME IInv, NEW w \in Workers, Acknowledge(w)
  PROVE  IInv'
  <1> USE ConstantsAssumption, ModeType DEF IInv
  <1>1. PICK k \in keys[w] : k \in unacked /\ unacked' = unacked \ {k} /\ issued' = issued /\ last' = last
    BY DEF Acknowledge, KeySeq!Acked
  <1>2. /\ pc[w] = "ack"
        /\ pc' = [pc EXCEPT ![w] = "idle"]
        /\ UNCHANGED <<mode, rows, ended, whole, op, keys, left>>
    BY DEF Acknowledge, Goto, dbVars
  <1>3. op[w] = "insert" /\ left[w] = 0 /\ mode.batchSize = 1
    BY <1>2 DEF PointInv
  <1>4. keys[w] = {k} /\ k \in ended
    BY <1>1, <1>2, <1>3 DEF SingleInv
  <1>5. pc'[w] = "idle" /\ \A v \in Workers : v # w => pc'[v] = pc[v]
    BY <1>2 DEF TypeOK
  <1>6. \A v \in Workers : v # w /\ op[v] = "insert" /\ pc[v] # "idle" => k \notin keys[v]
    BY <1>2, <1>3, <1>4 DEF OwnerInv, Inserting
  <1>7. TypeOK'
    BY <1>1, <1>2 DEF TypeOK
  <1>8. PointInv'
    BY <1>2, <1>3, <1>5 DEF PointInv
  <1>9. BudgetInv'
    BY <1>1, <1>2 DEF BudgetInv, Reserved
  <1>10. SequenceInv' /\ AckInv'
    BY <1>1, <1>2, <1>4 DEF SequenceInv, AckInv, IssuedKeys
  <1>11. OwnerInv'
    BY <1>1, <1>2, <1>5 DEF OwnerInv, Inserting, IssuedKeys
  <1>12. SingleInv'
    <2>1. \A v \in Workers : v # w /\ pc[v] \in {"insert", "ack"} => k \notin keys[v]
      BY <1>6 DEF PointInv
    <2> QED BY <1>1, <1>2, <1>5, <2>1 DEF SingleInv
  <1>13. BatchInv'
    BY <1>2, <1>3 DEF BatchInv
  <1>14. ChosenKeysInserted'
    BY <1>1, <1>2 DEF ChosenKeysInserted
  <1>15. NoAckLeak'
    BY <1>1, <1>2, <1>4, <1>5 DEF NoAckLeak
  <1>16. InsertsWhole'
    BY <1>2, <1>7 DEF InsertsWhole
  <1> QED BY <1>7, <1>8, <1>9, <1>10, <1>11, <1>12, <1>13, <1>14, <1>15, <1>16

\* Reads, scans and updates of a worker that inserts nothing: rows can only gain fields.
LEMMA CallIInv ==
  ASSUME IInv, NEW w \in Workers,
         \/ ReadBeforeUpdate(w) \/ ReadCall(w) \/ ScanCall(w) \/ BatchReadCall(w)
         \/ UpdateCall(w) \/ BatchUpdateCall(w)
  PROVE  IInv'
  <1> USE ConstantsAssumption, ModeType DEF IInv
  <1>1. /\ pc[w] \in {"call", "update"}
        /\ pc' = [pc EXCEPT ![w] = "idle"] \/ pc' = [pc EXCEPT ![w] = "update"]
        /\ UNCHANGED <<mode, issued, unacked, last, ended, whole, op, keys, left>>
    BY DEF ReadBeforeUpdate, ReadCall, ScanCall, BatchReadCall, CallChangesNothing,
           UpdateCall, BatchUpdateCall, UpdateReturns, Goto, seqVars, dbVars
  <1>2. /\ rows' \in [AllKeys -> SUBSET Fields]
        /\ \A k \in AllKeys : rows[k] \subseteq rows'[k]
    <2>1. CASE UNCHANGED rows
      BY <2>1 DEF TypeOK
    <2>2. CASE UpdateReturns(w)
      <3>1. PICK K \in SUBSET keys[w] : UpdateRows(K, UpdatedFields)
        BY <2>2 DEF UpdateReturns
      <3>3. PICK fs \in [K -> UpdatedFields] :
              rows' = [k \in AllKeys |-> IF k \in K THEN rows[k] \cup fs[k] ELSE rows[k]]
        BY <3>1 DEF UpdateRows
      <3>2. UpdatedFields \subseteq SUBSET Fields
        BY DEF UpdatedFields
      <3> QED BY <3>2, <3>3 DEF TypeOK
    <2> QED BY <2>1, <2>2 DEF ReadBeforeUpdate, ReadCall, ScanCall, BatchReadCall,
                              CallChangesNothing, UpdateCall, BatchUpdateCall, dbVars
  <1>3. op[w] # "insert"
    BY <1>1 DEF PointInv
  <1>4. pc'[w] \in {"idle", "update"} /\ \A v \in Workers : v # w => pc'[v] = pc[v]
    BY <1>1 DEF TypeOK
  <1>5. TypeOK'
    BY <1>1, <1>2 DEF TypeOK
  <1>6. PointInv'
    BY <1>1, <1>3, <1>4 DEF PointInv
  <1>7. BudgetInv'
    BY <1>1 DEF BudgetInv, Reserved
  <1>8. SequenceInv' /\ AckInv'
    BY <1>1 DEF SequenceInv, AckInv, IssuedKeys
  <1>9. OwnerInv'
    BY <1>1, <1>3, <1>4 DEF OwnerInv, Inserting, IssuedKeys
  <1>10. SingleInv' /\ BatchInv'
    BY <1>1, <1>4 DEF SingleInv, BatchInv
  <1>11. ChosenKeysInserted'
    BY <1>1 DEF ChosenKeysInserted
  <1>12. NoAckLeak'
    BY <1>1, <1>3, <1>4 DEF NoAckLeak
  <1>13. InsertsWhole'
    <2>1. ASSUME NEW k \in whole, rows[k] = Fields PROVE rows'[k] = Fields
      <3>1. k \in AllKeys
        BY DEF TypeOK
      <3>2. Fields \subseteq rows'[k] /\ rows'[k] \in SUBSET Fields
        BY <1>2, <2>1, <3>1
      <3> QED BY <3>2
    <2> QED BY <1>1, <1>5, <2>1 DEF InsertsWhole
  <1> QED BY <1>5, <1>6, <1>7, <1>8, <1>9, <1>10, <1>11, <1>12, <1>13

\* Last moves over acknowledged keys only.
LEMMA AdvanceLastIInv ==
  ASSUME IInv, AdvanceLast
  PROVE  IInv'
  <1> USE ConstantsAssumption, ModeType DEF IInv
  <1>1. PICK n \in last + 1 .. issued - 1 :
          (\A k \in last + 1 .. n : k \notin unacked) /\ last' = n
    BY DEF AdvanceLast, KeySeq!Advance
  <1>2. UNCHANGED <<issued, unacked, mode, rows, ended, whole, pc, op, keys, left>>
    BY DEF AdvanceLast, KeySeq!Advance, dbVars
  <1>3. TypeOK'
    BY <1>1, <1>2 DEF TypeOK
  <1>4. SequenceInv'
    BY <1>1, <1>2 DEF SequenceInv, IssuedKeys, TypeOK
  <1>5. PointInv' /\ BudgetInv' /\ OwnerInv'
    BY <1>2 DEF PointInv, BudgetInv, Reserved, OwnerInv, Inserting, IssuedKeys
  <1>6. SingleInv' /\ BatchInv' /\ AckInv' /\ ChosenKeysInserted' /\ NoAckLeak'
    BY <1>2 DEF SingleInv, BatchInv, AckInv, IssuedKeys, ChosenKeysInserted, NoAckLeak
  <1>7. InsertsWhole'
    BY <1>2, <1>3 DEF InsertsWhole
  <1> QED BY <1>3, <1>4, <1>5, <1>6, <1>7

\* Every step keeps the invariant.
LEMMA StepIInv == IInv /\ [Next]_vars => IInv'
  <1> SUFFICES ASSUME IInv, [Next]_vars PROVE IInv'
    OBVIOUS
  <1>1. ASSUME NEW w \in Workers, Step(w) PROVE IInv'
    BY <1>1, BeginIInv, ChooseInsertIInv, ChooseKeyIInv, TakeInsertKeyIInv,
       BatchAcknowledgeIInv, InsertReturnsIInv, AcknowledgeIInv, CallIInv DEF Step
  <1>2. CASE UNCHANGED vars
    BY <1>2 DEF vars, seqVars, dbVars, IInv, TypeOK, PointInv, BudgetInv, Reserved, SequenceInv,
                OwnerInv, Inserting, IssuedKeys, SingleInv, BatchInv, AckInv,
                ChosenKeysInserted, NoAckLeak, InsertsWhole
  <1> QED BY <1>1, <1>2, AdvanceLastIInv DEF Next

LEMMA InvariantHolds == Spec => []IInv
  BY InitIInv, StepIInv, PTL DEF Spec

\* "latest" and "exponential" read, update and scan only keys that were loaded or whose
\* insert has returned, for any number of workers (core.go:416-428, 507-508).
THEOREM ChosenKeysInsertedHolds == Spec => []ChosenKeysInserted
  BY InvariantHolds, PTL DEF IInv

\* No key stays unacknowledged after its operation (core.go:508).
THEOREM NoAckLeakHolds == Spec => []NoAckLeak
  BY InvariantHolds, PTL DEF IInv

\* A record whose insert returned nil keeps all its fields (core.go:509-513), with the
\* types of the workload's state.
THEOREM InsertsWholeHolds == Spec => []InsertsWhole
  BY InvariantHolds, PTL DEF IInv

\* The run uses the insert-key sequence as AckSequence describes it, which AckCounter is
\* proved to implement: it acknowledges issued keys only, and each of them once.
THEOREM UsesAckSequence == Spec => KeySeq!SeqSpec
  <1>1. Init => KeySeq!SeqInit
    BY DEF Init
  <1>2. [Next]_vars => [KeySeq!SeqNext]_(KeySeq!seqVars)
    <2> SUFFICES ASSUME [Next]_vars PROVE [KeySeq!SeqNext]_(KeySeq!seqVars)
      OBVIOUS
    <2> USE DEF KeySeq!SeqNext, KeySeq!seqVars
    <2>1. ASSUME NEW w \in Workers, Step(w) PROVE [KeySeq!SeqNext]_(KeySeq!seqVars)
      <3>1. CASE TakeInsertKey(w)
        BY <3>1 DEF TakeInsertKey
      <3>2. CASE BatchAcknowledge(w) \/ Acknowledge(w)
        BY <3>2 DEF BatchAcknowledge, Acknowledge, KeySeq!Acked
      <3>3. CASE UNCHANGED seqVars
        BY <3>3 DEF seqVars
      <3> QED
        BY <2>1, <3>1, <3>2, <3>3
        DEF Step, ChooseKeyFirst, ChooseOperation, ChooseInsert, Begin, ChooseKey, InsertCall,
            BatchInsertCall, InsertReturns, ReadBeforeUpdate, ReadCall, ScanCall, BatchReadCall,
            CallChangesNothing, UpdateCall, BatchUpdateCall, UpdateReturns
    <2>2. CASE AdvanceLast
      BY <2>2 DEF AdvanceLast
    <2>3. CASE UNCHANGED vars
      BY <2>3 DEF vars, seqVars
    <2> QED BY <2>1, <2>2, <2>3 DEF Next
  <1> QED BY <1>1, <1>2, PTL DEF Spec, KeySeq!SeqSpec
=============================================================================
