--------------------------- MODULE MCShareClaims ---------------------------
(* ShareClaims for TLC: small sets, interchangeable members.               *)
EXTENDS ShareClaims, TLC

Symmetry == Permutations(Users) \cup Permutations(Requests) \cup Permutations(Shares)
=============================================================================
