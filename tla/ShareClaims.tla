---------------------------- MODULE ShareClaims ----------------------------
(***************************************************************************)
(* A statement of the API's documentation about shares that the statements *)
(* of ShareService do not keep when two of an account's devices interleave.*)
(***************************************************************************)
EXTENDS ShareService

\* "Ends your previous active share" (docs/api.md, POST /location-shares): an
\* account has one share that is on.  Each of two CreateShares looks for shares
\* to end before the other has inserted its own.
OneActiveShare ==
    \A u \in Users : \A s, t \in Own(u) : state[s] = "active" /\ state[t] = "active" => s = t
=============================================================================
