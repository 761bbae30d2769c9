------------------------- MODULE MCBackgroundLocation -------------------------
(* BackgroundLocation for TLC: four calls that may overlap.                *)
EXTENDS BackgroundLocation, TLC

Symmetry == Permutations(Rides) \cup Permutations(Calls)
=============================================================================
