------------------------- MODULE MCSessionAdapters --------------------------
(* SessionAdapters for TLC; no symmetry, since liveness is checked. *)
EXTENDS SessionAdapters
=============================================================================
