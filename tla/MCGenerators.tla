---------------------------- MODULE MCGenerators ----------------------------
(***************************************************************************)
(* The instance of Generators that TLC checks.                             *)
(***************************************************************************)
EXTENDS Generators

Ranges == [start : {0, 2}, count : {3, 4}]

\* Every distribution with the bounds that make its cases happen.
MCConfigs ==
  {[dist |-> "latest", start |-> 0, count |-> 1]}
  \cup {[dist |-> d, start |-> r.start, count |-> r.count] :
          d \in {"uniform", "sequential"}, r \in Ranges}
  \cup {[dist |-> d, start |-> 0, count |-> 0] : d \in {"uniform", "sequential"}}
  \cup {[dist |-> "hotspot", start |-> 2, count |-> 0, hotset |-> 6, hotops |-> 6]}
  \cup {[dist |-> "hotspot", start |-> r.start, count |-> r.count, hotset |-> h,
         hotops |-> o] : r \in Ranges, h \in {-1, 0, 2, 6, 12, 13}, o \in {0, 6, 12}}
  \cup {[dist |-> "zipfian", start |-> r.start, count |-> r.count, newKeys |-> n] :
          r \in Ranges, n \in {0, 2}}
  \cup {[dist |-> "mixgraph", start |-> 0, count |-> n, weights |-> ws] :
          n \in {2, 3, 7}, ws \in {<<2, 1, 1>>, <<0, 3, 1>>, <<0, 0, 0>>}}
  \cup {[dist |-> "mixgraph", start |-> 2, count |-> n, weights |-> <<4, 3, 2, 1>>] :
          n \in {8, 9}}
  \cup {[dist |-> "operation", start |-> 0, count |-> 3, weights |-> ws] :
          ws \in [1 .. 3 -> 0 .. 2]}
  \cup {[dist |-> "histogram", start |-> 0, count |-> 3, weights |-> ws] :
          ws \in [1 .. 4 -> 0 .. 2]}
=============================================================================
