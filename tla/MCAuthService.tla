--------------------------- MODULE MCAuthService ---------------------------
(* Instances of AuthService for TLC. *)
EXTENDS AuthService, TLC

Symmetry == Permutations(Tokens) \cup Permutations(Requests)
=============================================================================
