--------------------------- MODULE MCLocationBuffer ---------------------------
(* LocationBuffer for TLC.  Liveness is checked: no symmetry.              *)
EXTENDS LocationBuffer
=============================================================================
