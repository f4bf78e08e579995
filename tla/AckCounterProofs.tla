-------------------------- MODULE AckCounterProofs --------------------------
(***************************************************************************)
(* Proofs about AckCounter, for any set of workers, any window and any     *)
(* number of keys, as long as the issued keys are at most a window ahead.  *)
(***************************************************************************)
EXTENDS AckCounter, TLAPS

\* A slot is an index of the window.
LEMMA SlotType == \A k \in Nat : Slot(k) \in Slots
  BY ConstantsAssumption DEF Slot, Slots

\* The quotient that goes with a slot.
LEMMA SlotQuotient ==
  \A k \in Nat : \E q \in Nat : k = WindowSize * q + Slot(k)
  <1> TAKE k \in Nat
  <1>1. WindowSize \in Nat \ {0}
    BY ConstantsAssumption
  <1>2. k \div WindowSize \in Nat
    BY <1>1
  <1>3. k = WindowSize * (k \div WindowSize) + (k % WindowSize)
    BY <1>1
  <1> QED BY <1>2, <1>3 DEF Slot

\* Two keys less than a window apart share no slot.
LEMMA SlotInjective ==
  ASSUME NEW j \in Nat, NEW k \in Nat, Slot(j) = Slot(k),
         j - k < WindowSize, k - j < WindowSize
  PROVE  j = k
  <1>1. PICK p \in Nat : j = WindowSize * p + Slot(j)
    BY SlotQuotient
  <1>2. PICK q \in Nat : k = WindowSize * q + Slot(k)
    BY SlotQuotient
  <1>3. Slot(j) \in Nat /\ Slot(k) \in Nat
    BY SlotType, ConstantsAssumption DEF Slots
  <1>4. WindowSize \in Nat \ {0}
    BY ConstantsAssumption
  <1>5. CASE p = q
    BY <1>1, <1>2, <1>3, <1>4, <1>5
  <1>6. CASE p > q
    <2>1. WindowSize * p >= WindowSize * (q + 1)
      BY <1>4, <1>6
    <2>2. WindowSize * (q + 1) = WindowSize * q + WindowSize
      BY <1>4
    <2>3. QED BY <1>1, <1>2, <1>3, <1>4, <2>1, <2>2
  <1>7. CASE q > p
    <2>1. WindowSize * q >= WindowSize * (p + 1)
      BY <1>4, <1>7
    <2>2. WindowSize * (p + 1) = WindowSize * p + WindowSize
      BY <1>4
    <2>3. QED BY <1>1, <1>2, <1>3, <1>4, <2>1, <2>2
  <1> QED BY <1>5, <1>6, <1>7

\* The mask never makes a key larger.
LEMMA SlotAtMost == \A k \in Nat : Slot(k) \in Nat /\ Slot(k) <= k
  <1> TAKE k \in Nat
  <1>1. PICK q \in Nat : k = WindowSize * q + Slot(k)
    BY SlotQuotient
  <1>2. WindowSize * q \in Nat /\ Slot(k) \in Nat
    BY SlotType, ConstantsAssumption DEF Slots
  <1> QED BY <1>1, <1>2

\* The window is exact: a set slot of a key past limit means that this very key
\* is acknowledged and not yet taken.
LEMMA SetSlotIsOwn ==
  ASSUME IInv, MaxLead <= WindowSize,
         NEW k \in limit + 1 .. counter - 1, window[Slot(k)]
  PROVE  k \notin UnackedKeys /\ ~Absorbed(k)
  <1>1. k \in Nat /\ Slot(k) \in Slots
    BY SlotType DEF IInv, TypeOK
  <1>2. PICK j \in limit + 1 .. counter - 1 :
               Slot(j) = Slot(k) /\ j \notin UnackedKeys /\ ~Absorbed(j)
    BY <1>1 DEF IInv, WindowInv
  <1>3. j = k
    BY <1>1, <1>2, SlotInjective, ConstantsAssumption
    DEF IInv, TypeOK, LeadInv
  <1> QED BY <1>2, <1>3

\* Initially no key is issued and the window is empty.
LEMMA InitIInv == Init => IInv
  <1> SUFFICES ASSUME Init PROVE IInv
    OBVIOUS
  <1> USE ConstantsAssumption DEF Init, NewAcknowledgedCounter
  <1>1. TypeOK
    BY DEF TypeOK, Points
  <1>2. \A w \in Workers : ~Unacked(w) /\ ~Holding(w) /\ ~Scanning(w)
    BY DEF Unacked, Holding, Scanning
  <1>3. LeadInv
    BY DEF LeadInv
  <1>4. LockInv /\ ScanInv /\ UnackedInv /\ NoPanic
    BY <1>2 DEF LockInv, SingleMover, ScanInv, UnackedInv, NoPanic, Crashed
  <1>5. WindowInv
    BY DEF WindowInv
  <1> QED BY <1>1, <1>3, <1>4, <1>5 DEF IInv

\* Next hands out a fresh key, which is unacknowledged and in no slot.
LEMMA NextKeyIInv ==
  ASSUME IInv, MaxLead <= WindowSize, NEW w \in Workers, NextKey(w)
  PROVE  IInv'
  <1> USE ConstantsAssumption, SlotType DEF IInv, NextKey, Goto
  <1>1. TypeOK'
    BY DEF TypeOK, Points
  <1>2. LeadInv'
    BY DEF TypeOK, LeadInv
  <1>3. LockInv'
    BY DEF TypeOK, LockInv, SingleMover, Holding
  <1>4. ScanInv'
    BY DEF TypeOK, ScanInv, Scanning
  <1>5. UnackedInv'
    BY DEF TypeOK, UnackedInv, Absorbed, Unacked, Scanning, LeadInv, ScanInv
  <1>6. WindowInv'
    BY DEF TypeOK, WindowInv, UnackedKeys, Absorbed, Unacked, Scanning, LeadInv
  <1>7. NoPanic'
    BY DEF TypeOK, NoPanic, Crashed
  <1> QED BY <1>1, <1>2, <1>3, <1>4, <1>5, <1>6, <1>7

\* The call itself touches nothing shared.
LEMMA CallAcknowledgeIInv ==
  ASSUME IInv, MaxLead <= WindowSize, NEW w \in Workers, CallAcknowledge(w)
  PROVE  IInv'
  <1> USE ConstantsAssumption, SlotType DEF IInv, CallAcknowledge, Goto
  <1>1. TypeOK'
    BY DEF TypeOK, Points
  <1>2. LeadInv'
    BY DEF TypeOK, LeadInv
  <1>3. LockInv'
    BY DEF TypeOK, LockInv, SingleMover, Holding
  <1>4. ScanInv'
    BY DEF TypeOK, ScanInv, Scanning
  <1>5. UnackedInv'
    BY DEF TypeOK, UnackedInv, Absorbed, Unacked, Scanning
  <1>6. WindowInv'
    BY DEF TypeOK, WindowInv, UnackedKeys, Absorbed, Unacked, Scanning
  <1>7. NoPanic'
    BY DEF TypeOK, NoPanic, Crashed
  <1> QED BY <1>1, <1>2, <1>3, <1>4, <1>5, <1>6, <1>7

\* The slot of an unacknowledged key is free, so the check never panics.
LEMMA CheckSlotIInv ==
  ASSUME IInv, MaxLead <= WindowSize, NEW w \in Workers, CheckSlot(w)
  PROVE  IInv'
  <1> USE ConstantsAssumption, SlotType DEF IInv, CheckSlot, Goto
  <1>1. TypeOK'
    BY DEF TypeOK, Points
  <1>2. LeadInv'
    BY DEF TypeOK, LeadInv
  <1>3. LockInv'
    BY DEF TypeOK, LockInv, SingleMover, Holding
  <1>4. ScanInv'
    BY DEF TypeOK, ScanInv, Scanning
  <1>5. UnackedInv'
    BY DEF TypeOK, UnackedInv, Absorbed, Unacked, Scanning
  <1>6. WindowInv'
    BY DEF TypeOK, WindowInv, UnackedKeys, Absorbed, Unacked, Scanning
  <1>7. NoPanic'
    <2>1. key[w] \in limit + 1 .. counter - 1 /\ key[w] \in UnackedKeys
      BY DEF TypeOK, UnackedInv, UnackedKeys, Unacked, Absorbed
    <2>2. ~window[Slot(key[w])]
      BY <2>1, SetSlotIsOwn
    <2> QED BY <2>2 DEF TypeOK, NoPanic, Crashed
  <1> QED BY <1>1, <1>2, <1>3, <1>4, <1>5, <1>6, <1>7

\* The worker's own key becomes acknowledged and its slot set.
LEMMA MarkSlotIInv ==
  ASSUME IInv, MaxLead <= WindowSize, NEW w \in Workers, MarkSlot(w)
  PROVE  IInv'
  <1> USE ConstantsAssumption, SlotType DEF IInv, MarkSlot, Goto
  <1>1. TypeOK'
    BY DEF TypeOK, Points
  <1>2. LeadInv'
    BY DEF TypeOK, LeadInv
  <1>3. LockInv'
    BY DEF TypeOK, LockInv, SingleMover, Holding
  <1>4. ScanInv'
    BY DEF TypeOK, ScanInv, Scanning
  <1>5. UnackedInv'
    BY DEF TypeOK, UnackedInv, Absorbed, Unacked, Scanning
  <1>6. WindowInv'
    BY DEF TypeOK, WindowInv, UnackedKeys, Absorbed, Unacked, Scanning,
           UnackedInv
  <1>7. NoPanic'
    BY DEF TypeOK, NoPanic, Crashed
  <1> QED BY <1>1, <1>2, <1>3, <1>4, <1>5, <1>6, <1>7

\* The lock passes from nobody to one worker.
LEMMA TryLockIInv ==
  ASSUME IInv, MaxLead <= WindowSize, NEW w \in Workers, TryLock(w)
  PROVE  IInv'
  <1> USE ConstantsAssumption, SlotType DEF IInv, TryLock, Goto
  <1>1. TypeOK'
    BY DEF TypeOK, Points
  <1>2. LeadInv'
    BY DEF TypeOK, LeadInv
  <1>3. LockInv'
    BY DEF TypeOK, LockInv, SingleMover, Holding
  <1>4. ScanInv'
    BY DEF TypeOK, ScanInv, Scanning
  <1>5. UnackedInv'
    BY DEF TypeOK, UnackedInv, Absorbed, Unacked, Scanning
  <1>6. WindowInv'
    BY DEF TypeOK, WindowInv, UnackedKeys, Absorbed, Unacked, Scanning
  <1>7. NoPanic'
    BY DEF TypeOK, NoPanic, Crashed
  <1> QED BY <1>1, <1>2, <1>3, <1>4, <1>5, <1>6, <1>7

\* The scan starts right after limit, and behind every unacknowledged key.
LEMMA LoadLimitIInv ==
  ASSUME IInv, MaxLead <= WindowSize, NEW w \in Workers, LoadLimit(w)
  PROVE  IInv'
  <1> USE ConstantsAssumption, SlotType DEF IInv, LoadLimit, Goto
  <1>1. TypeOK'
    BY SlotAtMost DEF TypeOK, Points
  <1>2. LeadInv'
    BY DEF TypeOK, LeadInv
  <1>3. LockInv'
    BY DEF TypeOK, LockInv, SingleMover, Holding
  <1>4. ScanInv'
    BY SlotAtMost DEF TypeOK, ScanInv, Scanning, LeadInv
  <1>5. UnackedInv'
    BY DEF TypeOK, UnackedInv, Absorbed, Unacked, Scanning, LockInv, SingleMover, Holding
  <1>6. WindowInv'
    BY DEF TypeOK, WindowInv, UnackedKeys, Absorbed, Unacked, Scanning, LockInv, SingleMover, Holding
  <1>7. NoPanic'
    BY DEF TypeOK, NoPanic, Crashed
  <1> QED BY <1>1, <1>2, <1>3, <1>4, <1>5, <1>6, <1>7

\* What the scan finds set is a key issued and acknowledged.
LEMMA ScanSlotIInv ==
  ASSUME IInv, MaxLead <= WindowSize, NEW w \in Workers, ScanSlot(w)
  PROVE  IInv'
  <1> USE ConstantsAssumption, SlotType DEF IInv, ScanSlot, Goto
  <1>1. TypeOK'
    BY DEF TypeOK, Points
  <1>2. LeadInv'
    BY DEF TypeOK, LeadInv
  <1>3. LockInv'
    BY DEF TypeOK, LockInv, SingleMover, Holding
  <1>4. ScanInv'
    BY DEF TypeOK, ScanInv, Scanning, WindowInv, Absorbed
  <1>5. UnackedInv'
    BY DEF TypeOK, UnackedInv, Absorbed, Unacked, Scanning
  <1>6. WindowInv'
    BY DEF TypeOK, WindowInv, UnackedKeys, Absorbed, Unacked, Scanning
  <1>7. NoPanic'
    BY DEF TypeOK, NoPanic, Crashed
  <1> QED BY <1>1, <1>2, <1>3, <1>4, <1>5, <1>6, <1>7

\* The scan takes exactly the key whose slot it clears.
LEMMA ClearSlotIInv ==
  ASSUME IInv, MaxLead <= WindowSize, NEW w \in Workers, ClearSlot(w)
  PROVE  IInv'
  <1> USE ConstantsAssumption, SlotType DEF IInv, ClearSlot, Goto
  <1>0. index[w] \in limit + 1 .. counter - 1 /\ window[Slot(index[w])]
    BY DEF TypeOK, ScanInv, Scanning
  <1>1. TypeOK'
    BY DEF TypeOK, Points
  <1>2. LeadInv'
    BY DEF TypeOK, LeadInv
  <1>3. LockInv'
    BY DEF TypeOK, LockInv, SingleMover, Holding
  <1>4. ScanInv'
    BY DEF TypeOK, ScanInv, Scanning, LockInv, SingleMover, Holding
  <1>5. UnackedInv'
    <2>1. \A v \in Workers : Unacked(v) => index[w] # key[v]
      BY <1>0, SetSlotIsOwn DEF UnackedKeys
    <2> QED BY <2>1 DEF TypeOK, UnackedInv, Absorbed, Unacked, Scanning,
                        LockInv, SingleMover, Holding
  <1>6. WindowInv'
    <2>1. \A k \in limit + 1 .. counter - 1 :
            Slot(k) = Slot(index[w]) => k = index[w]
      BY <1>0, SlotInjective DEF TypeOK, LeadInv
    <2>2. UnackedKeys' = UnackedKeys
      BY DEF TypeOK, UnackedKeys, Unacked
    <2>3. \A k \in Nat : Absorbed(k)' <=> Absorbed(k) \/ k = index[w]
      BY <1>0 DEF TypeOK, Absorbed, Scanning, ScanInv, LockInv, SingleMover, Holding
    <2>4. \A s \in Slots :
            window'[s] <=> window[s] /\ s # Slot(index[w])
      BY <1>0 DEF TypeOK
    <2> QED BY <1>0, <2>1, <2>2, <2>3, <2>4 DEF TypeOK, WindowInv
  <1>7. NoPanic'
    BY DEF TypeOK, NoPanic, Crashed
  <1> QED BY <1>1, <1>2, <1>3, <1>4, <1>5, <1>6, <1>7

\* limit catches up with what the scan has taken.
LEMMA PublishLimitIInv ==
  ASSUME IInv, MaxLead <= WindowSize, NEW w \in Workers, PublishLimit(w)
  PROVE  IInv'
  <1> USE ConstantsAssumption, SlotType DEF IInv, PublishLimit, Goto
  <1>1. TypeOK'
    BY DEF TypeOK, Points, ScanInv, Scanning
  <1>2. LeadInv'
    BY DEF TypeOK, LeadInv, ScanInv, Scanning
  <1>3. LockInv'
    BY DEF TypeOK, LockInv, SingleMover, Holding
  <1>4. ScanInv'
    BY DEF TypeOK, ScanInv, Scanning, LockInv, SingleMover, Holding
  <1>5. UnackedInv'
    BY DEF TypeOK, UnackedInv, Absorbed, Unacked, Scanning, LockInv, SingleMover, Holding, ScanInv
  <1>6. WindowInv'
    BY DEF TypeOK, WindowInv, UnackedKeys, Absorbed, Unacked, Scanning, LockInv, SingleMover, Holding, ScanInv
  <1>7. NoPanic'
    BY DEF TypeOK, NoPanic, Crashed
  <1> QED BY <1>1, <1>2, <1>3, <1>4, <1>5, <1>6, <1>7

\* The holder leaves and limit covers all its scan has taken.
LEMMA UnlockIInv ==
  ASSUME IInv, MaxLead <= WindowSize, NEW w \in Workers, Unlock(w)
  PROVE  IInv'
  <1> USE ConstantsAssumption, SlotType DEF IInv, Unlock, Goto
  <1>1. TypeOK'
    BY DEF TypeOK, Points
  <1>2. LeadInv'
    BY DEF TypeOK, LeadInv
  <1>3. LockInv'
    BY DEF TypeOK, LockInv, SingleMover, Holding
  <1>4. ScanInv'
    BY DEF TypeOK, ScanInv, Scanning
  <1>5. UnackedInv'
    BY DEF TypeOK, UnackedInv, Absorbed, Unacked, Scanning
  <1>6. WindowInv'
    BY DEF TypeOK, WindowInv, UnackedKeys, Absorbed, Unacked, Scanning
  <1>7. NoPanic'
    BY DEF TypeOK, NoPanic, Crashed
  <1> QED BY <1>1, <1>2, <1>3, <1>4, <1>5, <1>6, <1>7

\* Nothing in IInv depends on anything but the variables.
LEMMA StutterIInv == IInv /\ UNCHANGED vars => IInv'
  BY DEF vars, IInv, TypeOK, LeadInv, LockInv, SingleMover, ScanInv, UnackedInv,
         WindowInv, NoPanic, Crashed, UnackedKeys, Absorbed, Unacked, Holding,
         Scanning

\* IInv is inductive as long as the issued keys fit in the window.
LEMMA NextIInv == MaxLead <= WindowSize /\ IInv /\ [Next]_vars => IInv'
  <1> SUFFICES ASSUME MaxLead <= WindowSize, IInv, [Next]_vars
               PROVE  IInv'
    OBVIOUS
  <1>1. CASE UNCHANGED vars
    BY <1>1, StutterIInv
  <1>2. CASE Next
    <2>1. PICK w \in Workers : Step(w)
      BY <1>2 DEF Next
    <2>2. CASE NextKey(w)         BY <2>2, NextKeyIInv
    <2>3. CASE CallAcknowledge(w) BY <2>3, CallAcknowledgeIInv
    <2>4. CASE CheckSlot(w)       BY <2>4, CheckSlotIInv
    <2>5. CASE MarkSlot(w)        BY <2>5, MarkSlotIInv
    <2>6. CASE TryLock(w)         BY <2>6, TryLockIInv
    <2>7. CASE LoadLimit(w)       BY <2>7, LoadLimitIInv
    <2>8. CASE ScanSlot(w)        BY <2>8, ScanSlotIInv
    <2>9. CASE ClearSlot(w)       BY <2>9, ClearSlotIInv
    <2>10. CASE PublishLimit(w)   BY <2>10, PublishLimitIInv
    <2>11. CASE Unlock(w)         BY <2>11, UnlockIInv
    <2> QED BY <2>1, <2>2, <2>3, <2>4, <2>5, <2>6, <2>7, <2>8, <2>9, <2>10, <2>11
            DEF Step
  <1> QED BY <1>1, <1>2

\* The inductive invariant holds in every reachable state, for any number of
\* workers, any window size and any first key.
THEOREM AckCounterInvariant ==
  ASSUME MaxLead <= WindowSize
  PROVE  Spec => []IInv
  <1>1. MaxLead <= WindowSize
    OBVIOUS
  <1>2. IInv /\ [Next]_vars => IInv'
    BY <1>1, NextIInv
  <1> QED BY InitIInv, <1>2, PTL DEF Spec

\* IInv covers every key: an issued key is unacknowledged, taken, or in its slot.
LEMMA IInvNoAckLost == IInv => NoAckLost
  <1> SUFFICES ASSUME IInv, NEW k \in Start .. counter - 1,
                      k \notin UnackedKeys, ~Absorbed(k)
               PROVE  window[Slot(k)]
    BY DEF NoAckLost
  <1>1. k \in limit + 1 .. counter - 1 /\ k \in Nat
    BY ConstantsAssumption DEF IInv, TypeOK, Absorbed
  <1> QED BY <1>1, SlotType DEF IInv, WindowInv

\* Acknowledge is safe while the keys are at most a window ahead of limit: Last
\* covers acknowledged keys only, nobody panics, no acknowledgement is lost, and
\* one worker at a time scans.
THEOREM AckCounterSafety ==
  ASSUME MaxLead <= WindowSize
  PROVE  Spec => [](TypeOK /\ LastOnlyAcked /\ NoPanic /\ NoAckLost /\ SingleMover)
  <1>1. IInv => LastOnlyAcked
    BY DEF IInv, TypeOK, LastOnlyAcked, UnackedInv, Absorbed
  <1>2. IInv => TypeOK /\ NoPanic /\ SingleMover
    BY DEF IInv, LockInv
  <1> QED BY <1>1, <1>2, IInvNoAckLost, AckCounterInvariant, PTL

\* A step stores limit only at the end of a scan, and never a smaller one.
LEMMA LimitStep == IInv /\ [Next]_vars => limit <= limit'
  <1> SUFFICES ASSUME IInv, [Next]_vars PROVE limit <= limit'
    OBVIOUS
  <1>1. ASSUME NEW w \in Workers, PublishLimit(w) PROVE limit <= limit'
    BY <1>1 DEF PublishLimit, IInv, TypeOK, ScanInv, Scanning
  <1>2. limit' = limit \/ \E w \in Workers : PublishLimit(w)
    BY DEF Next, Step, vars, NextKey, CallAcknowledge, CheckSlot, MarkSlot,
           TryLock, LoadLimit, ScanSlot, ClearSlot, Unlock
  <1> QED BY <1>1, <1>2 DEF IInv, TypeOK

\* Last never goes back.
THEOREM AckCounterMonotone ==
  ASSUME MaxLead <= WindowSize
  PROVE  Spec => LimitMonotone
  <1>1. IInv /\ [Next]_vars => [limit <= limit']_vars
    BY LimitStep
  <1> QED BY <1>1, AckCounterInvariant, PTL DEF Spec, LimitMonotone

\* A step of one worker that keeps it on the same side of "acknowledged" does not
\* change the set of unacknowledged keys.
LEMMA SameUnackedKeys ==
  ASSUME TypeOK, NEW w \in Workers, key' = key,
         \A v \in Workers \ {w} : pc'[v] = pc[v],
         Unacked(w)' <=> Unacked(w)
  PROVE  UnackedKeys' = UnackedKeys
  BY DEF TypeOK, UnackedKeys, Unacked

\* Each step of AckCounter is a step of the abstract sequence, or invisible to it.
LEMMA StepRefines ==
  ASSUME MaxLead <= WindowSize, IInv, IInv', [Next]_vars
  PROVE  [Seq!SeqNext]_(Seq!seqVars)
  <1> USE DEF Seq!seqVars
  <1>1. CASE UNCHANGED vars
    BY <1>1 DEF vars, UnackedKeys, Unacked
  <1>2. ASSUME NEW w \in Workers, NextKey(w) PROVE Seq!Issue
    BY <1>2 DEF NextKey, Goto, IInv, TypeOK, UnackedKeys, Unacked, Seq!Issue
  <1>3. ASSUME NEW w \in Workers, MarkSlot(w) PROVE Seq!Acked(key[w])
    <2>1. key[w] \in UnackedKeys
      BY <1>3 DEF MarkSlot, UnackedKeys, Unacked
    <2>2. UnackedKeys' = UnackedKeys \ {key[w]}
      BY <1>3 DEF MarkSlot, Goto, IInv, TypeOK, UnackedKeys, Unacked, UnackedInv
    <2> QED BY <1>3, <2>1, <2>2 DEF MarkSlot, Seq!Acked
  <1>4. ASSUME NEW w \in Workers, PublishLimit(w)
        PROVE  [Seq!SeqNext]_(Seq!seqVars)
    <2>1. UnackedKeys' = UnackedKeys /\ counter' = counter
      BY <1>4 DEF PublishLimit, Goto, IInv, TypeOK, UnackedKeys, Unacked
    <2>2. limit' \in Nat /\ limit <= limit' /\ limit' <= counter - 1
      BY <1>4 DEF PublishLimit, IInv, TypeOK, ScanInv, Scanning
    <2>3. \A k \in limit + 1 .. limit' : k \notin UnackedKeys
      BY <1>4 DEF PublishLimit, IInv, TypeOK, UnackedInv, UnackedKeys, Absorbed,
                  Scanning
    <2>4. CASE limit' = limit
      BY <2>1, <2>4
    <2>5. CASE limit' # limit
      <3>1. limit' \in limit + 1 .. counter - 1
        BY <2>2, <2>5 DEF IInv, TypeOK
      <3>2. Seq!Advance
        BY <2>1, <2>3, <3>1 DEF Seq!Advance
      <3> QED BY <3>2 DEF Seq!SeqNext
    <2> QED BY <2>4, <2>5
  <1>5. ASSUME NEW w \in Workers, CheckSlot(w) PROVE UNCHANGED Seq!seqVars
    <2>1. pc'[w] = "mark"
      BY <1>5 DEF CheckSlot, Goto, IInv, TypeOK, NoPanic, Crashed
    <2> QED BY <1>5, <2>1, SameUnackedKeys
            DEF CheckSlot, Goto, IInv, TypeOK, Unacked
  <1>6. ASSUME NEW w \in Workers,
               \/ CallAcknowledge(w) \/ TryLock(w) \/ LoadLimit(w)
               \/ ScanSlot(w) \/ ClearSlot(w) \/ Unlock(w)
        PROVE  UNCHANGED Seq!seqVars
    <2>1. /\ key' = key /\ limit' = limit /\ counter' = counter
          /\ \A v \in Workers \ {w} : pc'[v] = pc[v]
          /\ Unacked(w)' <=> Unacked(w)
      BY <1>6 DEF CallAcknowledge, TryLock, LoadLimit, ScanSlot, ClearSlot, Unlock,
                  Goto, IInv, TypeOK, Unacked
    <2> QED BY <2>1, SameUnackedKeys DEF IInv
  <1>7. CASE Next
    BY <1>2, <1>3, <1>4, <1>5, <1>6, <1>7
    DEF Next, Step, Seq!SeqNext, Seq!Acked
  <1> QED BY <1>1, <1>7

\* AckCounter implements the abstract sequence for every number of workers and
\* every window the issued keys fit in.
THEOREM AckCounterRefines ==
  ASSUME MaxLead <= WindowSize
  PROVE  Spec => ImplementsAckSequence
  <1>1. Init => Seq!SeqInit
    BY DEF Init, NewAcknowledgedCounter, Seq!SeqInit, UnackedKeys, Unacked
  <1>2. IInv /\ IInv' /\ [Next]_vars => [Seq!SeqNext]_(Seq!seqVars)
    BY StepRefines
  <1> QED BY <1>1, <1>2, AckCounterInvariant, PTL
          DEF Spec, ImplementsAckSequence, Seq!SeqSpec
=============================================================================
