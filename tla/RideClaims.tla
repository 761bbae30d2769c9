----------------------------- MODULE RideClaims -----------------------------
(***************************************************************************)
(* A statement of the app about a ride that RideService does not keep: the *)
(* upload checks it before its transaction, and not again when it writes.  *)
(***************************************************************************)
EXTENDS RideService

\* "They will no longer see the group or share location"
\* (live_ride_map_screen.dart, the dialog before RemoveParticipant): a
\* removed participant's row is never turned back into an active one.
RemovedStaysRemoved ==
    [][\A u \in Users : part[u] = "removed" => part'[u] = "removed"]_part
=============================================================================
