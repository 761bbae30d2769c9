------------------------ MODULE MCCommunityService ------------------------
(* CommunityService on a small instance.                                   *)
EXTENDS CommunityService, TLC

Symmetry == Permutations(Users) \cup Permutations(Files) \cup Permutations(Requests) \cup Permutations(Comments)
=============================================================================
