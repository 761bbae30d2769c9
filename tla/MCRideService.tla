--------------------------- MODULE MCRideService ---------------------------
(* RideService for TLC: small sets, interchangeable accounts and requests. *)
EXTENDS RideService, TLC

Symmetry == Permutations(Users) \cup Permutations(Requests)
=============================================================================
