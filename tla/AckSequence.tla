---------------------------- MODULE AckSequence ----------------------------
(***************************************************************************)
(* What AcknowledgedCounter promises its callers (pkg/generator,           *)
(* acknowledged_counter.go): keys are issued once and in order, are        *)
(* acknowledged in any order, and Last moves forward over keys that have   *)
(* all been acknowledged.  When Last moves is left open.                   *)
(***************************************************************************)
EXTENDS Integers

CONSTANT Start        \* the first key

VARIABLES issued,     \* the next key to issue
          unacked,    \* the keys issued and not acknowledged
          last        \* what Last returns

seqVars == <<issued, unacked, last>>

SeqInit ==
  /\ issued = Start
  /\ unacked = {}
  /\ last = Start - 1

Issue ==
  /\ issued' = issued + 1
  /\ unacked' = unacked \cup {issued}
  /\ UNCHANGED last

Acked(k) ==
  /\ k \in unacked
  /\ unacked' = unacked \ {k}
  /\ UNCHANGED <<issued, last>>

Advance ==
  \E n \in last + 1 .. issued - 1 :
    /\ \A k \in last + 1 .. n : k \notin unacked
    /\ last' = n
    /\ UNCHANGED <<issued, unacked>>

SeqNext == Issue \/ (\E k \in unacked : Acked(k)) \/ Advance

SeqSpec == SeqInit /\ [][SeqNext]_seqVars
=============================================================================
