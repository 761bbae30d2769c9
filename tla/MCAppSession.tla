---------------------------- MODULE MCAppSession ----------------------------
(* Instances of AppSession for TLC. *)
EXTENDS AppSession, TLC

Symmetry == Permutations(Tokens) \cup Permutations(Requests)

\* The tokens that a device stores or is about to store: no other is ever stored
\* again, since the server hands out each token once.
Held ==
    UNION {{app[d].refresh, app[d].got, app[d].mine} : d \in Devices}
        \cup {call[r].new : r \in Requests}

\* The histories are told apart as far as the properties of this and of every
\* later state depend on them: of excused whether it is empty and which held
\* tokens it has, and nothing of any once the account is deleted.
View ==
    <<token, deleted, call, app, overtaken,
      IF deleted THEN {} ELSE <<root, stolen, excused = {}, excused \cap Held>>>>
=============================================================================
