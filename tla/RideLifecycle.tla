--------------------------- MODULE RideLifecycle ---------------------------
(***************************************************************************)
(* What the tables of one ride promise to whoever reads them, with no      *)
(* handlers and no requests: a status that the host moves forward, whether *)
(* the ride has begun, a row per participant, and a snapshot time per row. *)
(* RideService implements it: every statement of every handler is one of   *)
(* these moves or changes nothing, however the handlers interleave.        *)
(***************************************************************************)
EXTENDS Naturals

CONSTANTS Users, MaxTime, SetStatuses, NoUser

VARIABLES status, begun, host, member, lastSeen, gone

vars == <<status, begun, host, member, lastSeen, gone>>

Aboard(u) == member[u] \notin {"", "removed", "left"}

Init ==
    /\ status = "none"
    /\ begun = FALSE
    /\ host = NoUser
    /\ member = [u \in Users |-> ""]
    /\ lastSeen = [u \in Users |-> 0]
    /\ gone = {}

\* A ride appears with its host aboard.
Open(u) ==
    /\ status = "none"
    /\ status' = "scheduled"
    /\ host' = u
    /\ member' = [member EXCEPT ![u] = "joined"]
    /\ UNCHANGED <<begun, lastSeen, gone>>

\* The host moves a scheduled ride to live or cancelled, a live one to ended.
Move(to) ==
    /\ <<status, to>> \in {<<"scheduled", "live">>, <<"scheduled", "cancelled">>,
                           <<"live", "ended">>}
    /\ status' = to
    /\ begun' = (begun \/ to = "live")
    /\ UNCHANGED <<host, member, lastSeen, gone>>

\* Only those without a row or who left come aboard, and only of a ride that
\* exists: never someone removed.
Board(u) ==
    /\ status # "none"
    /\ member[u] \in {"", "left"}
    /\ member' = [member EXCEPT ![u] = "joined"]
    /\ UNCHANGED <<status, begun, host, lastSeen, gone>>

\* A participant other than the host leaves.
Leave(u) ==
    /\ status # "none" /\ u # host /\ Aboard(u)
    /\ member' = [member EXCEPT ![u] = "left"]
    /\ UNCHANGED <<status, begun, host, lastSeen, gone>>

\* A participant other than the host is removed.
Remove(u) ==
    /\ status # "none" /\ u # host /\ member[u] # ""
    /\ member' = [member EXCEPT ![u] = "removed"]
    /\ UNCHANGED <<status, begun, host, lastSeen, gone>>

\* Someone aboard sets a status of the list clients may send.
SetStatus(u, s) ==
    /\ Aboard(u)
    /\ member' = [member EXCEPT ![u] = s]
    /\ UNCHANGED <<status, begun, host, lastSeen, gone>>

\* A position arrives, once the ride has begun: the snapshot moves to a time
\* no older than its own, with or without a status.
Report(u, t, s) ==
    /\ begun /\ member[u] # ""
    /\ lastSeen[u] <= t
    /\ lastSeen' = [lastSeen EXCEPT ![u] = t]
    /\ member' = [member EXCEPT ![u] = IF s = "" THEN @ ELSE s]
    /\ UNCHANGED <<status, begun, host, gone>>

\* An account goes: it is no longer aboard, and its ride is cancelled.
Vanish(u) ==
    /\ u \notin gone
    /\ gone' = gone \cup {u}
    /\ member' = [member EXCEPT ![u] = IF Aboard(u) THEN "left" ELSE @]
    /\ status' = IF host = u /\ status \in {"scheduled", "live"} THEN "cancelled" ELSE status
    /\ UNCHANGED <<begun, host, lastSeen>>

Next ==
    \/ \E to \in {"live", "ended", "cancelled"} : Move(to)
    \/ \E u \in Users :
          \/ Open(u) \/ Board(u) \/ Leave(u) \/ Remove(u) \/ Vanish(u)
          \/ \E s \in SetStatuses : SetStatus(u, s)
          \/ \E t \in 1..MaxTime, s \in SetStatuses \cup {""} : Report(u, t, s)

Spec == Init /\ [][Next]_vars
=============================================================================
