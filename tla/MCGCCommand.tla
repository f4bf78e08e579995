---------------------------- MODULE MCGCCommand -----------------------------
(***************************************************************************)
(* The instance of GCCommand that TLC checks.                              *)
(***************************************************************************)
EXTENDS GCCommand

File(l, d) == [live |-> l, dead |-> d]

\* No file; one below the higher ratio; one with nothing live before one without garbage;
\* and two to collect.
MCLogFiles ==
  {<<>>, <<File(1, 1)>>, <<File(0, 1), File(1, 0)>>, <<File(1, 1), File(0, 1)>>}

MCCounts == {0, 3}
MCRatios == {0, 50, 75, 100}
=============================================================================
