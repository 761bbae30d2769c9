---------------------------- MODULE MCRideClaims ----------------------------
(* RideClaims for TLC: small sets, interchangeable accounts and requests. *)
EXTENDS RideClaims, TLC

Symmetry == Permutations(Users) \cup Permutations(Requests)
=============================================================================
