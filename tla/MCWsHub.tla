------------------------------ MODULE MCWsHub ------------------------------
(* Instances of WsHub for TLC. *)
EXTENDS WsHub, TLC

\* Sound for the safety run only.
Symmetry == Permutations(Clients) \cup Permutations(Messages)
=============================================================================
