----------------------------- MODULE Generators -----------------------------
(***************************************************************************)
(* A process draws its keys from one generator: "latest", or one of the    *)
(* other choosers.                                                         *)
(***************************************************************************)
EXTENDS Zipfian, KeyChoosers

CONSTANTS RecordCounts  \* the numbers of records loaded before a "latest" run

ASSUME RecordCountsAssumption == RecordCounts \subseteq 1 .. MaxItems

vars == <<zipfianVars, chooserVars>>

Latest == conf.dist = "latest"

Init ==
  /\ ChooserInit
  /\ \E n \in RecordCounts : NewZipfian(n)
  /\ ~Latest => recordCount = Min(RecordCounts)

LatestStep(w) == Latest /\ ZipfianStep(w) /\ UNCHANGED chooserVars

Finished == ~Latest /\ (counter = MaxDraws \/ key = Panic) /\ UNCHANGED vars

Next ==
  \/ \E w \in Workers :
       \/ LatestStep(w)
       \/ Latest /\ CallNext(w) /\ UNCHANGED chooserVars
  \/ Latest /\ MoreItems /\ UNCHANGED chooserVars
  \/ ~Latest /\ (ShuffleRegion \/ NextKey \/ ChooseOperationForKey) /\ UNCHANGED zipfianVars
  \/ Finished

Spec == Init /\ [][Next]_vars /\ \A w \in Workers : WF_vars(LatestStep(w))
-----------------------------------------------------------------------------
\* Every draw from "latest" ends although its workers wait for the spin lock: only a
\* worker that has seen a new item count takes it, so that it cannot be taken for ever.
DrawsReturn == \A w \in Workers : zpc[w] # "idle" ~> zpc[w] = "idle"
=============================================================================
