----------------------------- MODULE AckCounter -----------------------------
(***************************************************************************)
(* The insert-key sequence of the run phase: generator.AcknowledgedCounter *)
(* (pkg/generator/acknowledged_counter.go) with the SpinLock and Counter   *)
(* it is built from, and the workers of pkg/workload/core.go that call     *)
(* Next before an insert and Acknowledge after it.                         *)
(*                                                                         *)
(* Every access to shared memory is a step of its own: the plain reads and *)
(* writes of `window', the atomic ones of `limit' and `counter', the CAS   *)
(* of TryLock.  A worker's program point is pc[w]:                         *)
(*   "idle"    between operations                                          *)
(*   "insert"  Next returned key[w]; the database insert is in progress    *)
(*   "check"   inside Acknowledge, before the test of its slot             *)
(*   "mark"    the slot was free, before the slot is set                   *)
(*   "try"     before TryLock                                              *)
(*   "load"    the lock is held, before limit is read                      *)
(*   "scan"    before window[index] is read                                *)
(*   "clear"   window[index] was set, before it is cleared                 *)
(*   "publish" the run ended, before limit is stored                       *)
(*   "unlock"  before Unlock                                               *)
(*   "panic"   "Too many unacknowledged insertion keys."                   *)
(***************************************************************************)
EXTENDS Integers

CONSTANTS Workers,     \* the worker goroutines
          WindowSize,  \* slots of `window' (1 << 20 in the code)
          Start,       \* first key of the sequence, recordcount (core.go:684)
          MaxLead,     \* how far the issued keys may run ahead of `limit'
          MaxKey       \* bound on the keys issued in a behaviour

ASSUME ConstantsAssumption ==
  /\ WindowSize \in Nat \ {0}
  /\ Start \in Nat \ {0}
  /\ MaxLead \in Nat
  /\ MaxKey \in Nat

VARIABLES counter,  \* the next key Counter.Next returns
          limit,    \* what Last returns
          window,   \* acknowledged keys waiting to be moved over to limit
          lock,     \* the SpinLock: 0 free, 1 held
          pc,       \* each worker's program point
          key,      \* each worker's key: the argument of Acknowledge
          index,    \* the local `index' of each worker's scan
          before    \* the local `beforeFirstSlot' of each worker's scan

vars == <<counter, limit, window, lock, pc, key, index, before>>

Slots == 0 .. WindowSize - 1

\* value & WindowMask: the mask of a power of two, on keys that are >= 0
Slot(value) == value % WindowSize

Points == {"idle", "insert", "check", "mark", "try", "load", "scan", "clear",
           "publish", "unlock", "panic"}

\* An unrecovered panic of one goroutine ends the process.
Crashed == \E w \in Workers : pc[w] = "panic"

Goto(w, point) == pc' = [pc EXCEPT ![w] = point]

\* Mutant: limit starts one key too low.
NewAcknowledgedCounterOffByOne ==
  /\ counter = Start
  /\ lock = 0
  /\ window = [s \in Slots |-> FALSE]
  /\ limit = Start - 2

NewAcknowledgedCounter ==
  /\ counter = Start
  /\ lock = 0
  /\ window = [s \in Slots |-> FALSE]
  /\ limit = Start - 1

Init ==
  /\ NewAcknowledgedCounter
  /\ pc = [w \in Workers |-> "idle"]
  /\ key = [w \in Workers |-> 0]
  /\ index = [w \in Workers |-> 0]
  /\ before = [w \in Workers |-> 0]
-----------------------------------------------------------------------------
(* The operations, one step per access to shared memory. *)

\* Counter.Next through a worker that starts an insert.  The code does not
\* bound the lead: MaxLead is the premise about the workload under which the
\* sequence is correct, and a run with MaxLead > WindowSize shows why.
NextKey(w) ==
  /\ pc[w] = "idle"
  /\ counter <= MaxKey
  /\ counter - limit <= MaxLead
  /\ key' = [key EXCEPT ![w] = counter]
  /\ counter' = counter + 1
  /\ Goto(w, "insert")
  /\ UNCHANGED <<limit, window, lock, index, before>>

\* The insert ends, well or badly: the deferred Acknowledge runs either way.
CallAcknowledge(w) ==
  /\ pc[w] = "insert"
  /\ Goto(w, "check")
  /\ UNCHANGED <<counter, limit, window, lock, key, index, before>>

\* if a.window[currentSlot] { panic }
CheckSlot(w) ==
  /\ pc[w] = "check"
  /\ Goto(w, IF window[Slot(key[w])] THEN "panic" ELSE "mark")
  /\ UNCHANGED <<counter, limit, window, lock, key, index, before>>

\* a.window[currentSlot] = true
MarkSlot(w) ==
  /\ pc[w] = "mark"
  /\ window' = [window EXCEPT ![Slot(key[w])] = TRUE]
  /\ Goto(w, "try")
  /\ UNCHANGED <<counter, limit, lock, key, index, before>>

\* Mutant: the result of TryLock is ignored.
TryLockIgnored(w) ==
  /\ pc[w] = "try"
  /\ lock' = 1
  /\ Goto(w, "load")
  /\ UNCHANGED <<counter, limit, window, key, index, before>>

\* if !a.lock.TryLock() { return }
TryLock(w) ==
  /\ pc[w] = "try"
  /\ IF lock = 0
     THEN lock' = 1 /\ Goto(w, "load")
     ELSE UNCHANGED lock /\ Goto(w, "idle")
  /\ UNCHANGED <<counter, limit, window, key, index, before>>

\* limit is loaded and the locals of the scan are set from it.
LoadLimit(w) ==
  /\ pc[w] = "load"
  /\ before' = [before EXCEPT ![w] = Slot(limit)]
  /\ index' = [index EXCEPT ![w] = limit + 1]
  /\ Goto(w, "scan")
  /\ UNCHANGED <<counter, limit, window, lock, key>>

\* The loop test, and the read of the slot.
ScanSlot(w) ==
  /\ pc[w] = "scan"
  /\ Goto(w, IF index[w] # before[w] /\ window[Slot(index[w])]
             THEN "clear" ELSE "publish")
  /\ UNCHANGED <<counter, limit, window, lock, key, index, before>>

\* Mutant: the slot stays set after its key moved over.
ClearSlotForgotten(w) ==
  /\ pc[w] = "clear"
  /\ index' = [index EXCEPT ![w] = @ + 1]
  /\ Goto(w, "scan")
  /\ UNCHANGED <<counter, limit, window, lock, key, before>>

\* Mutant: index is incremented before the slot is cleared.
ClearSlotAfterIncrement(w) ==
  /\ pc[w] = "clear"
  /\ window' = [window EXCEPT ![Slot(index[w] + 1)] = FALSE]
  /\ index' = [index EXCEPT ![w] = @ + 1]
  /\ Goto(w, "scan")
  /\ UNCHANGED <<counter, limit, lock, key, before>>

\* a.window[slot] = false; index++
ClearSlot(w) ==
  /\ pc[w] = "clear"
  /\ window' = [window EXCEPT ![Slot(index[w])] = FALSE]
  /\ index' = [index EXCEPT ![w] = @ + 1]
  /\ Goto(w, "scan")
  /\ UNCHANGED <<counter, limit, lock, key, before>>

\* Mutant: the index at which the scan stopped is published.
PublishLimitOffByOne(w) ==
  /\ pc[w] = "publish"
  /\ limit' = index[w]
  /\ Goto(w, "unlock")
  /\ UNCHANGED <<counter, window, lock, key, index, before>>

\* atomic.StoreInt64(&a.limit, index-1)
PublishLimit(w) ==
  /\ pc[w] = "publish"
  /\ limit' = index[w] - 1
  /\ Goto(w, "unlock")
  /\ UNCHANGED <<counter, window, lock, key, index, before>>

\* The deferred Unlock.
Unlock(w) ==
  /\ pc[w] = "unlock"
  /\ lock' = 0
  /\ Goto(w, "idle")
  /\ UNCHANGED <<counter, limit, window, key, index, before>>

Step(w) ==
  \/ NextKey(w) \/ CallAcknowledge(w) \/ CheckSlot(w) \/ MarkSlot(w)
  \/ TryLock(w) \/ LoadLimit(w) \/ ScanSlot(w) \/ ClearSlot(w)
  \/ PublishLimit(w) \/ Unlock(w)

Next == ~Crashed /\ \E w \in Workers : Step(w)

Spec == Init /\ [][Next]_vars
-----------------------------------------------------------------------------
(* Properties. *)

\* Worker w has a key that Acknowledge has not recorded yet.
Unacked(w) == pc[w] \in {"insert", "check", "mark"}

\* Worker w holds the lock.
Holding(w) == pc[w] \in {"load", "scan", "clear", "publish", "unlock"}

\* Worker w moves keys from the window over to limit.
Scanning(w) == pc[w] \in {"scan", "clear", "publish"}

UnackedKeys == {key[w] : w \in {v \in Workers : Unacked(v)}}

\* Key k left the window: limit covers it, or the scan in progress took it.
Absorbed(k) == k <= limit \/ \E w \in Workers : Scanning(w) /\ k < index[w]

\* Type correctness of the counter's fields and of the workers' locals.
TypeOK ==
  /\ counter \in Nat
  /\ limit \in Nat
  /\ window \in [Slots -> BOOLEAN]
  /\ lock \in {0, 1}
  /\ pc \in [Workers -> Points]
  /\ key \in [Workers -> Nat]
  /\ index \in [Workers -> Nat]
  /\ before \in [Workers -> Nat]

\* Last never reports a key whose insert has not been acknowledged
\* (acknowledged_counter.go:48-49): every key below limit is acknowledged,
\* not only the key limit itself.
LastOnlyAcked == \A w \in Workers : Unacked(w) => limit < key[w]

\* Acknowledge never panics with "Too many unacknowledged insertion keys."
\* while the issued keys are at most WindowSize ahead of limit.
NoPanic == ~Crashed

\* An acknowledgement is never lost, even when its TryLock fails or when it
\* races the scan: the key is covered by limit, was taken by the scan in
\* progress, or its slot is still set for the next scan.
NoAckLost ==
  \A k \in Start .. counter - 1 :
    k \in UnackedKeys \/ Absorbed(k) \/ window[Slot(k)]

\* The TryLock of Acknowledge admits one worker at a time to the scan.
SingleMover == \A v, w \in Workers : Holding(v) /\ Holding(w) => v = w

\* Last never goes back: no worker stores a limit it computed from a stale one.
LimitMonotone == [][limit <= limit']_vars

Seq == INSTANCE AckSequence
         WITH issued <- counter, unacked <- UnackedKeys, last <- limit

\* The window, the lock and the scan together implement the abstract sequence:
\* every store to limit moves Last over keys that were all acknowledged, and the
\* other steps issue a key, acknowledge a key, or are invisible to callers.
ImplementsAckSequence == Seq!SeqSpec
-----------------------------------------------------------------------------
(* The inductive invariant behind the safety properties. *)

\* The keys past limit fit in the window.
LeadInv == limit < counter /\ counter - 1 - limit <= MaxLead

\* Exactly the holder of the lock is between TryLock and Unlock.
LockInv ==
  /\ \A w \in Workers : Holding(w) => lock = 1
  /\ SingleMover

\* The scan stays between limit and the issued keys, and what it is about to
\* clear is an acknowledged key.
ScanInv ==
  \A w \in Workers : Scanning(w) =>
    /\ limit < index[w]
    /\ index[w] <= counter
    /\ before[w] <= limit
    /\ pc[w] = "clear" => index[w] < counter /\ window[Slot(index[w])]

\* An unacknowledged key was issued, is still ahead of limit and of the scan,
\* and belongs to one worker.
UnackedInv ==
  \A w \in Workers : Unacked(w) =>
    /\ key[w] < counter
    /\ ~Absorbed(key[w])
    /\ \A v \in Workers : Unacked(v) /\ key[v] = key[w] => v = w

\* A slot is set exactly when a key past limit that is acknowledged and not yet
\* taken by the scan falls into it.
WindowInv ==
  \A s \in Slots : window[s] <=>
    \E k \in limit + 1 .. counter - 1 :
      Slot(k) = s /\ k \notin UnackedKeys /\ ~Absorbed(k)

\* The inductive invariant of AckCounter, for MaxLead <= WindowSize: the window is
\* an exact record of the acknowledged keys that the scan has yet to take.
IInv ==
  /\ TypeOK /\ LeadInv /\ LockInv /\ ScanInv /\ UnackedInv /\ WindowInv
  /\ NoPanic
=============================================================================
