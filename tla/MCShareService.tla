--------------------------- MODULE MCShareService ---------------------------
(* ShareService for TLC: small sets, interchangeable members.              *)
EXTENDS ShareService, TLC

Symmetry == Permutations(Users) \cup Permutations(Requests) \cup Permutations(Shares)
=============================================================================
