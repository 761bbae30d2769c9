---------------------------- MODULE RideService ----------------------------
(***************************************************************************)
(* One group ride of the RideX backend: its row in `rides`, the rows of    *)
(* `ride_participants` and `location_points` that belong to it, the hub    *)
(* room of its live feed, and the HTTP / websocket handlers that work on   *)
(* them (service/rides.go, service/location.go, handler/ws.go and the      *)
(* account deletion of service/users.go).                                  *)
(*                                                                         *)
(* Every SQL statement (or transaction) is one step; a handler that issues *)
(* several is a request that moves from one control location to the next,  *)
(* holding what it read, while other requests run in between.  `at' names  *)
(* the location: "JoinRide.write" is JoinRide about to issue its write.    *)
(* Rows of different rides never meet in a statement, so one ride is       *)
(* enough; its id exists from CreateRide on.                               *)
(***************************************************************************)
EXTENDS Naturals, FiniteSets, FiniteSetsExt

CONSTANTS
    Users,        \* accounts
    Requests,     \* handler goroutines that may run at the same time
    MaxTime,      \* recorded_at values are 1..MaxTime, 0 stands for NULL
    SetStatuses,  \* the statuses clients send
    Operations,   \* the REST calls clients make
    NoUser        \* no account

ValidParticipantStatus == {"joined", "on_the_way", "riding", "paused", "reached"}

Rest == {"CreateRide", "JoinRide", "transition", "LeaveRide", "RemoveParticipant",
         "SetMyStatus", "Ingest", "wsRide", "DeleteMe"}

ASSUME UsersAssumption == NoUser \notin Users
ASSUME TimeAssumption == MaxTime \in Nat
ASSUME StatusAssumption == SetStatuses \subseteq ValidParticipantStatus
ASSUME OperationsAssumption == Operations \subseteq Rest

VARIABLES
    rideStatus,   \* rides.status, "none" before the row exists
    started,      \* rides.started_at is set
    host,         \* rides.host_id
    part,         \* ride_participants.status per user, "" without a row
    seen,         \* ride_participants.last_seen_at per user, 0 is NULL
    points,       \* location_points of the ride: <<user, recorded_at>>
    deleted,      \* users with deleted_at set
    room,         \* users with a socket in the ride's hub room
    announced,    \* how often each ride_status was broadcast
    req           \* the requests in flight

vars == <<rideStatus, started, host, part, seen, points, deleted, room, announced, req>>

Times == 1..MaxTime
RideStatus == {"none", "scheduled", "live", "ended", "cancelled"}
Target == {"live", "ended", "cancelled"}
PartStatus == ValidParticipantStatus \cup {"", "removed", "left"}
Gone == {"", "removed", "left"}

Locations ==
    {"idle", "CreateRide", "JoinRide", "JoinRide.prev", "JoinRide.insert",
     "JoinRide.rejoin", "transition", "transition.update",
     "transition.announce", "LeaveRide", "RemoveParticipant", "SetMyStatus",
     "Ingest", "Ingest.tx", "Ingest.announce", "wsRide", "wsRide.join",
     "DeleteMe"}

(***************************************************************************)
(* A request: where it is, whose it is, and its arguments: the account to  *)
(* remove, the ride status to move to, the status to set and the batch of  *)
(* recorded_at values uploaded.                                            *)
(***************************************************************************)
Request == [at : Locations, me : Users \cup {NoUser}, target : Users \cup {NoUser},
            to : RideStatus, st : PartStatus, batch : SUBSET Times]

\* A call of operation l by u.
Call(l, u, target, to, st, batch) ==
    [at |-> l, me |-> u, target |-> target, to |-> to, st |-> st, batch |-> batch]

Idle == Call("idle", NoUser, NoUser, "none", "", {})

\* The arguments an operation needs are there for as long as it runs.
HasArguments(q) ==
    /\ q.at # "idle" => q.me \in Users
    /\ q.at = "RemoveParticipant" => q.target \in Users
    /\ q.at = "SetMyStatus" => q.st \in SetStatuses
    /\ q.at \in {"Ingest", "Ingest.tx"} => q.batch # {} /\ q.st \in SetStatuses \cup {""}
    /\ q.at \in {"transition", "transition.update", "transition.announce"} =>
           q.to \in Target

TypeOK ==
    /\ rideStatus \in RideStatus
    /\ started \in BOOLEAN
    /\ IF rideStatus = "none" THEN host = NoUser ELSE host \in Users
    /\ part \in [Users -> PartStatus]
    /\ seen \in [Users -> 0..MaxTime]
    /\ points \subseteq Users \X Times
    /\ deleted \subseteq Users
    /\ room \subseteq Users
    /\ announced \in [Target -> Nat]
    /\ req \in [Requests -> Request]
    /\ \A r \in Requests : HasArguments(req[r])

Init ==
    /\ rideStatus = "none"
    /\ started = FALSE
    /\ host = NoUser
    /\ part = [u \in Users |-> ""]
    /\ seen = [u \in Users |-> 0]
    /\ points = {}
    /\ deleted = {}
    /\ room = {}
    /\ announced = [to \in Target |-> 0]
    /\ req = [r \in Requests |-> Idle]

rows == <<rideStatus, started, host, part, seen, points, deleted>>

At(r, location) == req[r].at = location
Goto(r, location) == req' = [req EXCEPT ![r].at = location]
Reply(r) == req' = [req EXCEPT ![r] = Idle]

-----------------------------------------------------------------------------
(* A request starts once the auth middleware has accepted its token.       *)

\* A REST call: AuthenticateAccess rejects deleted accounts, here and not later.
Authenticated(u) == u \notin deleted

\* A message read from an open socket is handled without a new check.
Connected(u) == u \in room

Accept(r, input) ==
    /\ At(r, "idle")
    /\ req' = [req EXCEPT ![r] = input]
    /\ UNCHANGED <<rows, room, announced>>

\* u's call for operation l arrives, with its arguments.
Arrive(r, u) ==
    \/ /\ Authenticated(u)
       /\ \E l \in Operations \ {"transition", "RemoveParticipant", "SetMyStatus", "Ingest"} :
              Accept(r, Call(l, u, NoUser, "none", "", {}))
    \/ /\ Authenticated(u) /\ "transition" \in Operations
       /\ \E to \in Target :
              Accept(r, Call("transition", u, NoUser, to, "", {}))
    \/ /\ Authenticated(u) /\ "RemoveParticipant" \in Operations
       /\ \E v \in Users : Accept(r, Call("RemoveParticipant", u, v, "none", "", {}))
    \/ /\ Authenticated(u) \/ Connected(u)
       /\ "SetMyStatus" \in Operations
       /\ \E s \in SetStatuses : Accept(r, Call("SetMyStatus", u, NoUser, "none", s, {}))
    \/ /\ Authenticated(u) \/ Connected(u)
       /\ "Ingest" \in Operations
       /\ \E s \in SetStatuses \cup {""}, batch \in (SUBSET Times) \ {{}} :
              Accept(r, Call("Ingest", u, NoUser, "none", s, batch))

-----------------------------------------------------------------------------
(* rides.go *)

\* One transaction: the ride row, then the host's participant row.
CreateRide(r) ==
    /\ At(r, "CreateRide")
    /\ rideStatus = "none"
    /\ rideStatus' = "scheduled"
    /\ host' = req[r].me
    /\ part' = [part EXCEPT ![req[r].me] = "joined"]
    /\ Reply(r)
    /\ UNCHANGED <<started, seen, points, deleted, room, announced>>

\* SELECT id, status FROM rides: 404 without a row, 409 once it is over.
JoinRide(r) ==
    /\ At(r, "JoinRide")
    /\ IF rideStatus \in {"none", "ended", "cancelled"}
          THEN Reply(r)
          ELSE Goto(r, "JoinRide.prev")
    /\ UNCHANGED <<rows, room, announced>>

\* participantStatus: 403 if removed, nothing to write if already on board.
JoinRidePrev(r) ==
    /\ At(r, "JoinRide.prev")
    /\ CASE part[req[r].me] = "" -> Goto(r, "JoinRide.insert")
         [] part[req[r].me] = "left" -> Goto(r, "JoinRide.rejoin")
         [] OTHER -> Reply(r)
    /\ UNCHANGED <<rows, room, announced>>

\* INSERT ... ON CONFLICT (ride_id, user_id) DO NOTHING.
JoinRideInsert(r) ==
    /\ At(r, "JoinRide.insert")
    /\ part' = [part EXCEPT ![req[r].me] = IF @ = "" THEN "joined" ELSE @]
    /\ Reply(r)
    /\ UNCHANGED <<rideStatus, started, host, seen, points, deleted, room, announced>>

\* Fault: the UPDATE relies on the status read before.
JoinRideRejoinBlind(r) ==
    /\ At(r, "JoinRide.rejoin")
    /\ part' = [part EXCEPT ![req[r].me] = "joined"]
    /\ Reply(r)
    /\ UNCHANGED <<rideStatus, started, host, seen, points, deleted, room, announced>>

\* UPDATE ... SET status='joined' WHERE ... AND status='left'.
JoinRideRejoin(r) ==
    /\ At(r, "JoinRide.rejoin")
    /\ part' = [part EXCEPT ![req[r].me] = IF @ = "left" THEN "joined" ELSE @]
    /\ Reply(r)
    /\ UNCHANGED <<rideStatus, started, host, seen, points, deleted, room, announced>>

\* The statuses StartRide, EndRide and CancelRide may leave.
From(to) == IF to = "ended" THEN "live" ELSE "scheduled"

\* assertHost reads host and status in one SELECT.
Transition(r) ==
    /\ At(r, "transition")
    /\ IF rideStatus # "none" /\ host = req[r].me /\ rideStatus = From(req[r].to)
          THEN Goto(r, "transition.update")
          ELSE Reply(r)
    /\ UNCHANGED <<rows, room, announced>>

\* Fault: RowsAffected is not looked at, the loser announces too.
TransitionUpdateUnchecked(r) ==
    /\ At(r, "transition.update")
    /\ rideStatus' = IF rideStatus = From(req[r].to) THEN req[r].to ELSE rideStatus
    /\ started' = (started \/ rideStatus' = "live")
    /\ Goto(r, "transition.announce")
    /\ UNCHANGED <<host, part, seen, points, deleted, room, announced>>

\* UPDATE rides SET status, and started_at of a ride that starts, WHERE ...
\* AND status = ANY(from); 409 when no row matched.
TransitionUpdate(r) ==
    /\ At(r, "transition.update")
    /\ IF rideStatus = From(req[r].to)
          THEN /\ rideStatus' = req[r].to
               /\ started' = (started \/ req[r].to = "live")
               /\ Goto(r, "transition.announce")
          ELSE UNCHANGED <<rideStatus, started>> /\ Reply(r)
    /\ UNCHANGED <<host, part, seen, points, deleted, room, announced>>

TransitionAnnounce(r) ==
    /\ At(r, "transition.announce")
    /\ announced' = [announced EXCEPT ![req[r].to] = @ + 1]
    /\ Reply(r)
    /\ UNCHANGED <<rows, room>>

\* Fault: the host may leave too.
LeaveRideHostToo(r) ==
    /\ At(r, "LeaveRide")
    /\ part' = [part EXCEPT ![req[r].me] = IF @ \notin Gone THEN "left" ELSE @]
    /\ Reply(r)
    /\ UNCHANGED <<rideStatus, started, host, seen, points, deleted, room, announced>>

\* host_id never changes, so reading it and the UPDATE are one step.
LeaveRide(r) ==
    /\ At(r, "LeaveRide")
    /\ part' = [part EXCEPT ![req[r].me] =
                    IF rideStatus # "none" /\ host # req[r].me /\ @ \notin Gone
                       THEN "left" ELSE @]
    /\ Reply(r)
    /\ UNCHANGED <<rideStatus, started, host, seen, points, deleted, room, announced>>

\* Fault: assertHost asks only that the ride exists.
RemoveParticipantByAnyone(r) ==
    /\ At(r, "RemoveParticipant")
    /\ part' = [part EXCEPT ![req[r].target] =
                    IF rideStatus # "none" /\ req[r].target # req[r].me /\ @ # ""
                       THEN "removed" ELSE @]
    /\ Reply(r)
    /\ UNCHANGED <<rideStatus, started, host, seen, points, deleted, room, announced>>

\* assertHost (host_id only) and the UPDATE ... AND status <> 'removed'.
RemoveParticipant(r) ==
    /\ At(r, "RemoveParticipant")
    /\ part' = [part EXCEPT ![req[r].target] =
                    IF rideStatus # "none" /\ host = req[r].me
                       /\ req[r].target # req[r].me /\ @ # ""
                       THEN "removed" ELSE @]
    /\ Reply(r)
    /\ UNCHANGED <<rideStatus, started, host, seen, points, deleted, room, announced>>

\* Fault: the UPDATE matches rows of people who are gone.
SetMyStatusOfAnyone(r) ==
    /\ At(r, "SetMyStatus")
    /\ part' = [part EXCEPT ![req[r].me] = IF @ = "" THEN @ ELSE req[r].st]
    /\ Reply(r)
    /\ UNCHANGED <<rideStatus, started, host, seen, points, deleted, room, announced>>

SetMyStatus(r) ==
    /\ At(r, "SetMyStatus")
    /\ part' = [part EXCEPT ![req[r].me] = IF @ \in Gone THEN @ ELSE req[r].st]
    /\ Reply(r)
    /\ UNCHANGED <<rideStatus, started, host, seen, points, deleted, room, announced>>

-----------------------------------------------------------------------------
(* location.go *)

\* Fault: only rides still to be started are refused.
IngestNotScheduled(r) ==
    /\ At(r, "Ingest")
    /\ IF part[req[r].me] \notin Gone /\ rideStatus # "scheduled"
          THEN Goto(r, "Ingest.tx")
          ELSE Reply(r)
    /\ UNCHANGED <<rows, room, announced>>

\* One SELECT over rides and ride_participants: 403 or 409 on what it finds.
IngestRideLocations(r) ==
    /\ At(r, "Ingest")
    /\ IF part[req[r].me] \notin Gone /\ rideStatus = "live"
          THEN Goto(r, "Ingest.tx")
          ELSE Reply(r)
    /\ UNCHANGED <<rows, room, announced>>

\* Fault: sorted the wrong way round.
Oldest(batch) == Min(batch)

\* normalizePoints sorts by recorded_at: the last point is the newest.
Last(batch) == Max(batch)

\* Fault: the snapshot takes whatever comes last.
AlwaysFresh(r) == req[r].batch # {}

\* WHERE last_seen_at IS NULL OR last_seen_at <= the last point's time.
Fresh(r) == seen[req[r].me] <= Last(req[r].batch)

\* The transaction: points without duplicates, then the snapshot with
\* status = COALESCE(status of the last point, status).
IngestTx(r) ==
    /\ At(r, "Ingest.tx")
    /\ points' = points \cup ({req[r].me} \X req[r].batch)
    /\ IF Fresh(r)
          THEN /\ seen' = [seen EXCEPT ![req[r].me] = Last(req[r].batch)]
               /\ part' = [part EXCEPT ![req[r].me] = IF req[r].st = "" THEN @ ELSE req[r].st]
               /\ req' = [req EXCEPT ![r] = Call("Ingest.announce", req[r].me, NoUser, "none", "", {})]
          ELSE Reply(r) /\ UNCHANGED <<seen, part>>
    /\ UNCHANGED <<rideStatus, started, host, deleted, room, announced>>

\* Broadcast of participant_update to whoever is in the room now.
IngestAnnounce(r) ==
    /\ At(r, "Ingest.announce")
    /\ Reply(r)
    /\ UNCHANGED <<rows, room, announced>>

-----------------------------------------------------------------------------
(* handler/ws.go *)

\* CanJoinRideSocket.
WsRide(r) ==
    /\ At(r, "wsRide")
    /\ IF part[req[r].me] \notin Gone THEN Goto(r, "wsRide.join") ELSE Reply(r)
    /\ UNCHANGED <<rows, room, announced>>

\* The upgrade, then Hub.Join; the read loop is Connected above.
WsRideJoin(r) ==
    /\ At(r, "wsRide.join")
    /\ room' = room \cup {req[r].me}
    /\ Reply(r)
    /\ UNCHANGED <<rows, announced>>

\* A read error ends the loop: Hub.Leave and Close.
Disconnect(u) ==
    /\ u \in room
    /\ room' = room \ {u}
    /\ UNCHANGED <<rows, announced, req>>

-----------------------------------------------------------------------------
(* users.go, janitor.go and what can stop a handler *)

\* One transaction behind SELECT ... deleted_at IS NULL FOR UPDATE; it
\* broadcasts nothing and leaves the account's sockets open.
DeleteMe(r) ==
    LET u == req[r].me IN
    /\ At(r, "DeleteMe")
    /\ IF u \in deleted
          THEN UNCHANGED <<deleted, part, rideStatus>>
          ELSE /\ deleted' = deleted \cup {u}
               /\ part' = [part EXCEPT ![u] = IF @ \in Gone THEN @ ELSE "left"]
               /\ rideStatus' = IF host = u /\ rideStatus \in {"scheduled", "live"}
                                   THEN "cancelled" ELSE rideStatus
    /\ Reply(r)
    /\ UNCHANGED <<started, host, seen, points, room, announced>>

\* The janitor deletes points older than the retention period.
Cleanup(cutoff) ==
    /\ points' = {p \in points : p[2] >= cutoff}
    /\ UNCHANGED <<rideStatus, started, host, part, seen, deleted, room, announced, req>>

\* The client hangs up (or the socket message times out): the next statement
\* fails on the cancelled context.  Broadcasts do not look at the context.
Abort(r) ==
    /\ req[r].at \notin {"idle", "transition.announce", "Ingest.announce"}
    /\ Reply(r)
    /\ UNCHANGED <<rows, room, announced>>

\* The process stops between two steps and starts again: rows survive.
Crash ==
    /\ req' = [r \in Requests |-> Idle]
    /\ room' = {}
    /\ UNCHANGED <<rows, announced>>

-----------------------------------------------------------------------------
Handler(r) ==
    \/ CreateRide(r)
    \/ JoinRide(r) \/ JoinRidePrev(r) \/ JoinRideInsert(r) \/ JoinRideRejoin(r)
    \/ Transition(r) \/ TransitionUpdate(r) \/ TransitionAnnounce(r)
    \/ LeaveRide(r) \/ RemoveParticipant(r) \/ SetMyStatus(r)
    \/ IngestRideLocations(r) \/ IngestTx(r) \/ IngestAnnounce(r)
    \/ WsRide(r) \/ WsRideJoin(r)
    \/ DeleteMe(r)

Next ==
    \/ \E r \in Requests : Handler(r) \/ Abort(r) \/ \E u \in Users : Arrive(r, u)
    \/ \E u \in Users : Disconnect(u)
    \/ \E cutoff \in Times : Cleanup(cutoff)
    \/ Crash

Spec == Init /\ [][Next]_vars

-----------------------------------------------------------------------------
(* What keeps a ride correct whatever the interleaving.                    *)

\* The host stays on board: once the ride exists the host has a participant
\* row, nobody can have removed it, and it says `left' only after the host
\* deleted the account (CreateRide's transaction, the host checks of
\* LeaveRide and RemoveParticipant).
HostOnBoard ==
    rideStatus # "none" =>
        /\ part[host] \notin {"", "removed"}
        /\ part[host] = "left" => host \in deleted

\* A location trail implies that the ride was started (started_at is set):
\* no point is stored for a ride that is still scheduled, nor for one that
\* was cancelled, by its host or by the deletion of its host's account,
\* before its start, although an upload checks the status in a statement of
\* its own (the `ride not live' check of IngestRideLocations and the
\* conditional UPDATE of transition together).
TrailImpliesStart == points # {} => started

\* No stored point of a participant is newer than the snapshot the map
\* shows, although batches arrive late, twice and out of order, from several
\* handlers (the last_seen_at guard of the snapshot UPDATE).
SnapshotCoversTrail == \A p \in points : p[2] <= seen[p[1]]

\* The feed announces no ride status that was not committed, and none twice:
\* `live' only of a ride that was started, `cancelled' only of one that was
\* cancelled without a start, and of racing host commands only the one whose
\* UPDATE matched announces.  The order is not promised: a slow start may
\* announce `live' after `ended', and a deletion announces nothing.
AnnouncedWasCommitted ==
    /\ announced["live"] > 0 => started
    /\ announced["ended"] > 0 => rideStatus = "ended"
    /\ announced["cancelled"] > 0 => rideStatus = "cancelled" /\ ~started
    /\ \A to \in Target : announced[to] <= 1

\* Of several racing start, end and cancel requests each status is reached
\* by one, and start and cancel never both succeed (RowsAffected in
\* transition).
OneTransitionWins ==
    \A r, s \in Requests :
        r # s /\ At(r, "transition.announce") /\ At(s, "transition.announce")
            => {req[r].to, req[s].to} = {"live", "ended"}

\* A socket in the ride's room belongs to someone who was a participant when
\* it connected (CanJoinRideSocket in wsRide).
FeedOnlyForRiders == \A u \in room : part[u] # ""

\* What a handler read and will rely on when it writes is still true then,
\* although nothing is locked in between: the ride it found exists, its host
\* is still the host, a ride that was live has been started, a row that was
\* there is there, and a status to announce was reached.  (What does
\* not stay true, such as `the ride is live', is what RideClaims is about.)
StableAt(r) ==
    LET q == req[r] IN
    /\ q.at \in {"JoinRide.prev", "JoinRide.insert", "JoinRide.rejoin"} => rideStatus # "none"
    /\ q.at \in {"JoinRide.rejoin", "Ingest.tx", "wsRide.join"} => part[q.me] # ""
    /\ q.at = "transition.update" => rideStatus # "none" /\ host = q.me
    /\ q.at = "Ingest.tx" => started
    /\ q.at = "transition.announce" =>
           \/ q.to = "live" /\ started
           \/ q.to = "ended" /\ rideStatus = "ended"
           \/ q.to = "cancelled" /\ rideStatus = "cancelled" /\ ~started
StableReads == \A r \in Requests : StableAt(r)

\* A ride's status only moves forward, and ended and cancelled are final.
StatusForward ==
    [][\/ rideStatus = "none" /\ rideStatus' = "scheduled"
       \/ rideStatus = "scheduled" /\ rideStatus' \in {"live", "cancelled"}
       \/ rideStatus = "live" /\ rideStatus' \in {"ended", "cancelled"}]_rideStatus

\* Only the host's own requests change the ride's status or remove someone,
\* whatever a check read before (assertHost).
HostDecides ==
    [][(rideStatus' # rideStatus \/ \E u \in Users : part[u] # "removed" /\ part'[u] = "removed")
          => \E r \in Requests : req[r].me = host' /\ req'[r] # req[r]]_vars

\* The snapshot time of a participant never goes back.
SnapshotForward == [][\A u \in Users : seen'[u] >= seen[u]]_seen

\* A removed participant stays removed against every handler but a location
\* upload that passed its check before the removal: neither a racing
\* JoinRide, LeaveRide, SetMyStatus nor the account's deletion revives it.
OnlyUploadsRevive ==
    [][\A u \in Users :
          part[u] = "removed" /\ part'[u] # "removed"
              => \E r \in Requests : At(r, "Ingest.tx") /\ req[r].me = u]_part

\* The tables this module keeps are those RideLifecycle promises: seen from
\* the rows, every handler is a sequence of its atomic moves.
Lifecycle == INSTANCE RideLifecycle WITH
                 status <- rideStatus, begun <- started, member <- part, lastSeen <- seen, gone <- deleted
ImplementsLifecycle == Lifecycle!Spec
=============================================================================
