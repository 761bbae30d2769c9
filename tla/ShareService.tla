---------------------------- MODULE ShareService ----------------------------
(***************************************************************************)
(* Location shares: the rows of `location_shares' and their grants         *)
(* (service/shares.go), uploads to a share and whom they are told to       *)
(* (service/location.go), with the friendships they are granted by         *)
(* (FriendService) and the deletion of accounts.                           *)
(*                                                                         *)
(* As in RideService a request moves from statement to statement, and what *)
(* is one statement or transaction is one step.  CreateShare's transaction *)
(* is two: the rows its first UPDATE finds, and the commit.                *)
(***************************************************************************)
EXTENDS FriendService

CONSTANTS
    Shares      \* ids of shares

VARIABLES
    owner,      \* location_shares.owner_id
    state,      \* "active", "expired" (expires_at has passed), "ended"
                \* (is_active is false), "none" before the row exists
    grantees    \* users with a grant that is not revoked

shareVars == <<owner, state, grantees>>
vars == <<friendship, gone, req, owner, state, grantees>>

\* CreateShare: whom to share with, and the shares it ends.
CreateRequest ==
    [at : {"CreateShare", "CreateShare.end", "CreateShare.commit"},
     me : Users, friends : SUBSET Users, previous : SUBSET Shares]

\* IngestShareLocations: the friends to tell.  late is history: who could not
\* see the share when the batch was uploaded.
IngestRequest ==
    [at : {"Ingest", "Ingest.tx", "Ingest.grantees", "Ingest.tell"},
     me : Users, share : Shares, todo : SUBSET Users, late : SUBSET Users]

TypeOK ==
    /\ friendship \in [Pairs -> FriendStatus]
    /\ gone \subseteq Users
    /\ req \in [Requests -> {Idle} \cup FriendRequest \cup CreateRequest \cup IngestRequest]
    /\ owner \in [Shares -> {{}} \cup {{u} : u \in Users}]
    /\ state \in [Shares -> {"none", "active", "expired", "ended"}]
    /\ grantees \in [Shares -> SUBSET Users]
    /\ \A s \in Shares : state[s] = "none" <=> owner[s] = {}

Init ==
    /\ friendship = [p \in Pairs |-> ""]
    /\ gone = {}
    /\ req = [r \in Requests |-> Idle]
    /\ owner = [s \in Shares |-> {}]
    /\ state = [s \in Shares |-> "none"]
    /\ grantees = [s \in Shares |-> {}]

-----------------------------------------------------------------------------
(* Who sees what                                                           *)

Own(u) == {s \in Shares : owner[s] = {u}}
IsActive(s) == state[s] \in {"active", "expired"}

\* Who has a live grant of a share that is on.  ListShares hides the shares of
\* deleted accounts on top of that.
Viewers(s) == IF state[s] = "active" THEN grantees[s] ELSE {}

FriendsWithOwner(s, f) == \E o \in owner[s] : Friends(o, f)

-----------------------------------------------------------------------------
(* CreateShare                                                             *)

CreateShare(r, u, candidates) ==
    /\ At(r, "idle") /\ u \notin gone
    /\ req' = [req EXCEPT ![r] = [at |-> "CreateShare", me |-> u,
                                  friends |-> candidates, previous |-> {}]]
    /\ UNCHANGED <<friendVars, shareVars>>

\* friendIDs, outside the transaction; with no friend among them it is a 400.
CreateShareFriends(r) ==
    LET friends == {f \in req[r].friends : Friends(req[r].me, f)} IN
    /\ At(r, "CreateShare")
    /\ IF friends = {} THEN Reply(r)
       ELSE req' = [req EXCEPT ![r].at = "CreateShare.end", ![r].friends = friends]
    /\ UNCHANGED <<friendVars, shareVars>>

\* The rows the UPDATE of the transaction finds active.
CreateShareEnd(r) ==
    /\ At(r, "CreateShare.end")
    /\ req' = [req EXCEPT ![r].at = "CreateShare.commit",
                          ![r].previous = {s \in Own(req[r].me) : IsActive(s)}]
    /\ UNCHANGED <<friendVars, shareVars>>

\* Fault: it may take up one of the user's old shares again.
CreateShareCommitAgain(r) ==
    /\ At(r, "CreateShare.commit")
    /\ \E s \in Own(req[r].me) \cup {t \in Shares : state[t] = "none"} :
           /\ state' = [state EXCEPT ![s] = "active"]
           /\ owner' = [owner EXCEPT ![s] = {req[r].me}]
           /\ grantees' = [grantees EXCEPT ![s] = @ \cup req[r].friends]
    /\ Reply(r)
    /\ UNCHANGED friendVars

\* A share of its own id; the rows the UPDATE found are over.
CreateShareCommit(r) ==
    /\ At(r, "CreateShare.commit")
    /\ \E s \in {t \in Shares : state[t] = "none"} :
           /\ state' = [t \in Shares |-> IF t = s THEN "active"
                                         ELSE IF t \in req[r].previous THEN "ended" ELSE state[t]]
           /\ owner' = [owner EXCEPT ![s] = {req[r].me}]
           /\ grantees' = [grantees EXCEPT ![s] = req[r].friends]
    /\ Reply(r)
    /\ UNCHANGED friendVars

-----------------------------------------------------------------------------
(* IngestShareLocations                                                    *)

\* Over REST, or on a socket opened earlier, whose user is not asked again.
Ingest(r, u, s) ==
    /\ At(r, "idle") /\ state[s] # "none"
    /\ req' = [req EXCEPT ![r] = [at |-> "Ingest", me |-> u, share |-> s,
                                  todo |-> {}, late |-> Users \ Viewers(s)]]
    /\ UNCHANGED <<friendVars, shareVars>>

\* Fault: whether the share is active is not asked.
IngestCheckOwner(r) ==
    LET q == req[r] IN
    /\ At(r, "Ingest")
    /\ IF owner[q.share] = {q.me} THEN req' = [req EXCEPT ![r].at = "Ingest.tx"] ELSE Reply(r)
    /\ UNCHANGED <<friendVars, shareVars>>

IngestCheck(r) ==
    LET q == req[r] IN
    /\ At(r, "Ingest")
    /\ IF owner[q.share] = {q.me} /\ state[q.share] = "active"
          THEN req' = [req EXCEPT ![r].at = "Ingest.tx"]
          ELSE Reply(r)
    /\ UNCHANGED <<friendVars, shareVars>>

\* The points, and the snapshot unless the batch is older than it: then nobody
\* is told.
IngestTx(r) ==
    /\ At(r, "Ingest.tx")
    /\ \/ req' = [req EXCEPT ![r].at = "Ingest.grantees"]
       \/ Reply(r)
    /\ UNCHANGED <<friendVars, shareVars>>

IngestGrantees(r) ==
    /\ At(r, "Ingest.grantees")
    /\ req' = [req EXCEPT ![r].at = "Ingest.tell", ![r].todo = grantees[req[r].share]]
    /\ UNCHANGED <<friendVars, shareVars>>

\* friend_location, to the room of each of todo.
IngestTell(r) ==
    /\ At(r, "Ingest.tell")
    /\ Reply(r)
    /\ UNCHANGED <<friendVars, shareVars>>

-----------------------------------------------------------------------------
(* One statement or one transaction each                                   *)

StopShare(u, s) ==
    /\ u \notin gone /\ s \in Own(u)
    /\ state' = [state EXCEPT ![s] = "ended"]
    /\ UNCHANGED <<friendVars, req, owner, grantees>>

RevokeShareGrant(u, s, f) ==
    /\ u \notin gone /\ s \in Own(u) /\ f \in grantees[s]
    /\ grantees' = [grantees EXCEPT ![s] = @ \ {f}]
    /\ UNCHANGED <<friendVars, req, owner, state>>

\* Fault: only the grants of the one who unfriends.
UnfriendOneWay(a, b) ==
    /\ a \notin gone
    /\ EndFriendship(a, b)
    /\ grantees' = [s \in Shares |-> grantees[s] \ (IF owner[s] = {a} THEN {b} ELSE {})]
    /\ UNCHANGED <<owner, state>>

\* Unfriend: the rows of the pair that say accepted, and the live grants both
\* ways.  No share_ended is sent.
Unfriend(a, b) ==
    /\ a \notin gone
    /\ EndFriendship(a, b)
    /\ grantees' = [s \in Shares |-> grantees[s] \ (CASE owner[s] = {a} -> {b}
                                                      [] owner[s] = {b} -> {a}
                                                      [] OTHER -> {})]
    /\ UNCHANGED <<owner, state>>

\* expires_at passes.
Expire(s) ==
    /\ state[s] = "active"
    /\ state' = [state EXCEPT ![s] = "expired"]
    /\ UNCHANGED <<friendVars, req, owner, grantees>>

\* The janitor's expire_location_shares.
ExpireJob ==
    /\ \E s \in Shares : state[s] = "expired"
    /\ state' = [s \in Shares |-> IF state[s] = "expired" THEN "ended" ELSE state[s]]
    /\ UNCHANGED <<friendVars, req, owner, grantees>>

\* What DeleteMe does here; grants to the account stay.
DeleteMe(u) ==
    /\ u \notin gone
    /\ LeaveFriends(u)
    /\ state' = [s \in Shares |-> IF s \in Own(u) /\ IsActive(s) THEN "ended" ELSE state[s]]
    /\ UNCHANGED <<owner, grantees>>

\* A statement fails or the client hangs up; a transaction is rolled back.
Abort(r) ==
    /\ ~At(r, "idle")
    /\ Reply(r)
    /\ UNCHANGED <<friendVars, shareVars>>

Crash ==
    /\ req' = [r \in Requests |-> Idle]
    /\ UNCHANGED <<friendVars, shareVars>>

-----------------------------------------------------------------------------
Friendship(a, b) ==
    \/ AcceptFriend(a, b)
    \/ DeclineFriend(a, b)
    \/ CancelFriendRequest(a, b)

FriendStep(r) ==
    \/ RequestFriendSelect(r)
    \/ RequestFriendConflict(r)
    \/ RequestFriendAccept(r)
    \/ RequestFriendReopen(r)
    \/ RequestFriendWrite(r)

Step(r) ==
    \/ CreateShareFriends(r)
    \/ CreateShareEnd(r)
    \/ CreateShareCommit(r)
    \/ IngestCheck(r)
    \/ IngestTx(r)
    \/ IngestGrantees(r)
    \/ IngestTell(r)
    \/ Abort(r)

Arrival(r, u) ==
    \/ \E o \in Users : RequestFriend(r, u, o) /\ UNCHANGED shareVars
    \/ \E candidates \in SUBSET (Users \ {u}) : CreateShare(r, u, candidates)
    \/ \E s \in Shares : Ingest(r, u, s)

Next ==
    \/ \E r \in Requests, u \in Users : Arrival(r, u)
    \/ \E r \in Requests : FriendStep(r) /\ UNCHANGED shareVars
    \/ \E r \in Requests : Step(r)
    \/ \E p \in Pairs : Friendship(p[1], p[2]) /\ UNCHANGED shareVars
    \/ \E p \in Pairs : Unfriend(p[1], p[2])
    \/ \E u \in Users, s \in Shares : StopShare(u, s)
    \/ \E u, f \in Users, s \in Shares : RevokeShareGrant(u, s, f)
    \/ \E u \in Users : DeleteMe(u)
    \/ \E s \in Shares : Expire(s)
    \/ ExpireJob
    \/ Crash

Spec == Init /\ [][Next]_vars

-----------------------------------------------------------------------------
(* Properties                                                              *)

\* A friend_location goes only to users who, when the upload arrived, had a
\* live grant of a share that was on: IngestShareLocations checks and reads the
\* grants at other times than it stores and sends.
NobodyHearsLater ==
    \A r \in Requests : At(r, "Ingest.tell") => req[r].todo \cap req[r].late = {}

\* What RequestFriend is about to delete and replace is what its FOR UPDATE
\* found: no row of it has been accepted, declined or deleted since.
LockedRowsStay ==
    \A r \in Requests : At(r, "RequestFriend.write") =>
        \A p \in req[r].rows : friendship[p] = "declined"

\* Users who see a share of somebody they are no friend of.
Strays ==
    {x \in Shares \X Users : x[2] \in Viewers(x[1]) /\ ~FriendsWithOwner(x[1], x[2])}

Ends(r, location) == At(r, location) /\ req'[r] = Idle

\* Who is nobody's friend sees nobody's share, but for three ways the
\* statements interleave: CreateShare read the friends before they parted, a
\* RequestFriend cleared the pair after others had become friends, and the
\* viewer's account was deleted with a socket still open.
OnlyRacesStray ==
    [][\A x \in Strays' \ Strays :
          \/ x[2] \in gone'
          \/ \E r \in Requests : Ends(r, "CreateShare.commit") /\ owner'[x[1]] = {req[r].me}
          \/ \E r \in Requests : /\ Ends(r, "RequestFriend.write")
                                 /\ req[r].rows # {}
                                 /\ owner[x[1]] \cup {x[2]} = {Mine(r)[1], Mine(r)[2]}
      ]_vars

\* Friends part only by Unfriend, which takes the grants between them with it,
\* by the deletion of an account, or by a RequestFriend that had found a
\* declined row of the pair and deletes what has become of the pair since.
OnlyStaleRequestsUnfriend ==
    [][\A p \in Pairs : Friends(p[1], p[2]) /\ ~Friends(p[1], p[2])' =>
          \/ {p[1], p[2]} \cap gone' # {}
          \/ \A s \in Own(p[1]) : p[2] \notin grantees'[s]
          \/ \E r \in Requests : /\ Ends(r, "RequestFriend.write")
                                 /\ p \in {Mine(r), Theirs(r)}
                                 /\ req[r].rows # {}
      ]_vars

\* A share that is over, stopped by its owner, by a newer share or by the
\* janitor, never comes back, and nobody joins a share that is on.
SharesOnlyShrink ==
    [][\A s \in Shares : state[s] # "none" =>
          /\ owner'[s] = owner[s]
          /\ Viewers(s)' \subseteq Viewers(s)
      ]_vars
=============================================================================
