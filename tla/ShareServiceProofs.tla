------------------------- MODULE ShareServiceProofs -------------------------
(***************************************************************************)
(* ShareService for any number of accounts, requests and shares.           *)
(***************************************************************************)
EXTENDS ShareClaims, TLAPS

FriendLocations == {"RequestFriend", "RequestFriend.lock", "RequestFriend.write"}
CreateLocations == {"CreateShare", "CreateShare.end", "CreateShare.commit"}
IngestLocations == {"Ingest", "Ingest.tx", "Ingest.grantees", "Ingest.tell"}

Request == {Idle} \cup FriendRequest \cup CreateRequest \cup IngestRequest

\* Where a request is tells which record it is.
LEMMA RequestCases ==
    ASSUME NEW q \in Request
    PROVE  /\ q.at = "idle" => q = Idle
           /\ q.at \in FriendLocations => q \in FriendRequest
           /\ q.at \in CreateLocations => q \in CreateRequest
           /\ q.at \in IngestLocations => q \in IngestRequest
           /\ q.at \in {"idle"} \cup FriendLocations \cup CreateLocations \cup IngestLocations
  BY DEF Request, Idle, FriendRequest, CreateRequest, IngestRequest,
         FriendLocations, CreateLocations, IngestLocations

\* A request that moves keeps the others' requests as they are.
LEMMA ReplyTyped ==
    ASSUME req \in [Requests -> Request], NEW r \in Requests, Reply(r)
    PROVE  /\ req' \in [Requests -> Request]
           /\ req'[r] = Idle
           /\ \A s \in Requests \ {r} : req'[s] = req[s]
  BY DEF Reply, Request

\* The other direction of a pair is a pair.
LEMMA PairFacts ==
    ASSUME NEW p \in Pairs
    PROVE  /\ p = <<p[1], p[2]>> /\ p[1] \in Users /\ p[2] \in Users /\ p[1] # p[2]
           /\ <<p[2], p[1]>> \in Pairs
  BY DEF Pairs

\* Rows that are gone leave well-formed requests behind.
LEMMA ForgetTyped ==
    ASSUME req \in [Requests -> Request], NEW rows
    PROVE  /\ Forget(rows) \in [Requests -> Request]
           /\ \A s \in Requests : Forget(rows)[s].at = req[s].at
           /\ \A s \in Requests : ~At(s, "RequestFriend.lock") => Forget(rows)[s] = req[s]
<1>1. ASSUME NEW s \in Requests, At(s, "RequestFriend.lock")
      PROVE  /\ [req[s] EXCEPT !.rows = @ \ rows] \in Request
             /\ [req[s] EXCEPT !.rows = @ \ rows].at = req[s].at
  <2>1. req[s] \in FriendRequest
    BY <1>1, RequestCases DEF At, FriendLocations
  <2>. QED  BY <2>1 DEF FriendRequest, Request
<1>. QED  BY <1>1 DEF Forget

-----------------------------------------------------------------------------
(* Types.                                                                  *)

\* A share in CreateShare's hands exists; TypeOK needs it to be inductive.
PreviousExist ==
    \A r \in Requests : At(r, "CreateShare.commit") =>
        \A s \in req[r].previous : state[s] # "none"

TypeInv == TypeOK /\ PreviousExist

RequestsTyped == req \in [Requests -> Request]

FriendsTyped == friendship \in [Pairs -> FriendStatus] /\ gone \subseteq Users

SharesTyped ==
    /\ owner \in [Shares -> {{}} \cup {{u} : u \in Users}]
    /\ state \in [Shares -> {"none", "active", "expired", "ended"}]
    /\ grantees \in [Shares -> SUBSET Users]
    /\ \A s \in Shares : state[s] = "none" <=> owner[s] = {}

LEMMA TypeSplit == TypeOK <=> RequestsTyped /\ FriendsTyped /\ SharesTyped
  BY DEF TypeOK, RequestsTyped, FriendsTyped, SharesTyped, Request

LEMMA TypeSplitNext == TypeOK' <=> (RequestsTyped /\ FriendsTyped /\ SharesTyped)'
  BY DEF TypeOK, RequestsTyped, FriendsTyped, SharesTyped, Request

LEMMA TypeInit == Init => TypeInv
<1> SUFFICES ASSUME Init PROVE TypeInv
  OBVIOUS
<1>1. RequestsTyped /\ FriendsTyped /\ SharesTyped
  BY DEF Init, RequestsTyped, FriendsTyped, SharesTyped, Request, FriendStatus
<1>2. PreviousExist
  BY DEF Init, PreviousExist, At, Idle
<1>. QED  BY <1>1, <1>2, TypeSplit DEF TypeInv

\* RequestFriend, up to its last statement, leaves the shares alone.
LEMMA FriendStepTyped ==
    ASSUME RequestsTyped, FriendsTyped, NEW r \in Requests, FriendStep(r)
    PROVE  RequestsTyped' /\ FriendsTyped'
<1> USE DEF RequestsTyped, FriendsTyped
<1>1. CASE RequestFriendSelect(r)
  <2>1. req[r] \in FriendRequest
    BY <1>1, RequestCases DEF RequestFriendSelect, At, FriendLocations
  <2>2. {p \in {Mine(r), Theirs(r)} : friendship[p] # ""} \subseteq Pairs
    BY <2>1, PairFacts DEF Mine, Theirs, FriendRequest
  <2>3. req'[r] \in FriendRequest
    BY <1>1, <2>1, <2>2 DEF RequestFriendSelect, FriendRequest
  <2>. QED  BY <1>1, <2>3 DEF RequestFriendSelect, Request, friendVars
<1>2. CASE RequestFriendConflict(r)
  BY <1>2, ReplyTyped DEF RequestFriendConflict, friendVars
<1>3. CASE RequestFriendAccept(r)
  BY <1>3, ReplyTyped DEF RequestFriendAccept, FriendStatus
<1>4. CASE RequestFriendReopen(r)
  <2>1. req[r] \in FriendRequest
    BY <1>4, RequestCases DEF RequestFriendReopen, Locked, At, FriendLocations
  <2>2. req'[r] \in FriendRequest
    BY <1>4, <2>1 DEF RequestFriendReopen, FriendRequest
  <2>. QED  BY <1>4, <2>2 DEF RequestFriendReopen, Request, friendVars
<1>5. CASE RequestFriendWrite(r)
  <2> DEFINE cleared == IF req[r].rows = {} THEN {} ELSE {Mine(r), Theirs(r)}
  <2>1. req' = [Forget(cleared) EXCEPT ![r] = Idle]
    BY <1>5 DEF RequestFriendWrite
  <2>2. Forget(cleared) \in [Requests -> Request]
    BY ForgetTyped
  <2>3. FriendsTyped'
    BY <1>5 DEF RequestFriendWrite, FriendStatus
  <2>. QED  BY <2>1, <2>2, <2>3 DEF Request
<1>. QED  BY <1>1, <1>2, <1>3, <1>4, <1>5 DEF FriendStep

\* The operations on friendships that are one statement.
LEMMA FriendshipTyped ==
    ASSUME RequestsTyped, FriendsTyped, NEW p \in Pairs,
           Friendship(p[1], p[2]) \/ EndFriendship(p[1], p[2])
    PROVE  RequestsTyped' /\ FriendsTyped'
<1> USE DEF RequestsTyped, FriendsTyped, FriendStatus
<1>0. p = <<p[1], p[2]>>
  BY PairFacts
<1>1. CASE AcceptFriend(p[1], p[2]) \/ DeclineFriend(p[1], p[2])
  BY <1>0, <1>1 DEF AcceptFriend, DeclineFriend
<1>2. CASE CancelFriendRequest(p[1], p[2])
  BY <1>0, <1>2, ForgetTyped DEF CancelFriendRequest
<1>3. CASE EndFriendship(p[1], p[2])
  BY <1>3, ForgetTyped DEF EndFriendship
<1>. QED  BY <1>1, <1>2, <1>3 DEF Friendship

LEMMA LeaveTyped ==
    ASSUME RequestsTyped, FriendsTyped, NEW u \in Users, LeaveFriends(u)
    PROVE  RequestsTyped' /\ FriendsTyped'
  BY ForgetTyped DEF LeaveFriends, RequestsTyped, FriendsTyped, FriendStatus

\* A request that moves on to another statement of its operation.
LEMMA StepTyped ==
    ASSUME TypeInv, NEW r \in Requests, Step(r)
    PROVE  /\ RequestsTyped' /\ FriendsTyped' /\ SharesTyped'
           /\ \A s \in Shares : state[s] # "none" => state'[s] # "none"
           /\ \A s \in Requests \ {r} : req'[s] = req[s]
<1> USE DEF RequestsTyped, FriendsTyped, SharesTyped
<1>0. RequestsTyped /\ FriendsTyped /\ SharesTyped /\ PreviousExist
  BY TypeSplit DEF TypeInv
<1>1. CASE CreateShareFriends(r)
  <2>1. req[r] \in CreateRequest
    BY <1>0, <1>1, RequestCases DEF CreateShareFriends, At, CreateLocations
  <2>2. ~Reply(r) => req'[r] \in CreateRequest /\ \A s \in Requests \ {r} : req'[s] = req[s]
    BY <1>0, <1>1, <2>1 DEF CreateShareFriends, CreateRequest
  <2>3. req' \in [Requests -> Request]
    BY <1>0, <1>1, <2>2, ReplyTyped DEF CreateShareFriends, Request
  <2>. QED  BY <1>0, <1>1, <2>2, <2>3, ReplyTyped DEF CreateShareFriends, friendVars, shareVars
<1>2. CASE CreateShareEnd(r)
  <2>1. req[r] \in CreateRequest
    BY <1>0, <1>2, RequestCases DEF CreateShareEnd, At, CreateLocations
  <2>2. req'[r] \in CreateRequest
    BY <1>0, <1>2, <2>1 DEF CreateShareEnd, CreateRequest, Own
  <2>. QED  BY <1>0, <1>2, <2>2 DEF CreateShareEnd, Request, friendVars, shareVars
<1>3. CASE CreateShareCommit(r)
  <2>1. req[r] \in CreateRequest
    BY <1>0, <1>3, RequestCases DEF CreateShareCommit, At, CreateLocations
  <2>2. PICK s \in Shares : /\ state[s] = "none"
                            /\ state' = [t \in Shares |-> IF t = s THEN "active"
                                            ELSE IF t \in req[r].previous THEN "ended" ELSE state[t]]
                            /\ owner' = [owner EXCEPT ![s] = {req[r].me}]
                            /\ grantees' = [grantees EXCEPT ![s] = req[r].friends]
    BY <1>3 DEF CreateShareCommit
  <2>3. \A t \in req[r].previous : state[t] # "none"
    BY <1>0, <1>3 DEF PreviousExist, CreateShareCommit
  <2>4. req[r].me \in Users /\ req[r].friends \subseteq Users
    BY <2>1 DEF CreateRequest
  <2>5. SharesTyped'
    BY <1>0, <2>2, <2>3, <2>4
  <2>. QED  BY <1>0, <1>3, <2>2, <2>5, ReplyTyped DEF CreateShareCommit, friendVars
<1>4. CASE IngestCheck(r) \/ IngestTx(r) \/ IngestGrantees(r) \/ IngestTell(r)
  <2>1. req[r] \in IngestRequest
    BY <1>0, <1>4, RequestCases
    DEF IngestCheck, IngestTx, IngestGrantees, IngestTell, At, IngestLocations
  <2>2. Reply(r) \/ (req'[r] \in IngestRequest /\ req' \in [Requests -> Request] /\ \A s \in Requests \ {r} : req'[s] = req[s])
    BY <1>0, <1>4, <2>1
    DEF IngestCheck, IngestTx, IngestGrantees, IngestTell, IngestRequest, Request
  <2>. QED
    BY <1>0, <1>4, <2>2, ReplyTyped
    DEF IngestCheck, IngestTx, IngestGrantees, IngestTell, friendVars, shareVars
<1>5. CASE Abort(r)
  BY <1>0, <1>5, ReplyTyped DEF Abort, friendVars, shareVars
<1>. QED  BY <1>1, <1>2, <1>3, <1>4, <1>5 DEF Step

\* The step leaves every request for a share, and every upload, where it was
\* or answers it.
Untouched ==
    \A s \in Requests : req'[s].at \in CreateLocations \cup IngestLocations => req'[s] = req[s]

LEMMA FriendsLeaveSharesAlone ==
    ASSUME RequestsTyped,
           \/ \E r \in Requests : FriendStep(r)
           \/ \E p \in Pairs : Friendship(p[1], p[2]) \/ EndFriendship(p[1], p[2])
           \/ \E u \in Users : LeaveFriends(u)
           \/ UNCHANGED req
           \/ Crash
    PROVE  Untouched
<1> DEFINE Mine2 == CreateLocations \cup IngestLocations
<1>0. /\ \A l \in {"idle"} \cup FriendLocations : l \notin Mine2
      /\ {"RequestFriend.lock", "RequestFriend.write"} \subseteq FriendLocations
      /\ Idle.at = "idle"
  BY DEF FriendLocations, CreateLocations, IngestLocations, Idle
<1>1. ASSUME NEW rows, req' = Forget(rows) PROVE Untouched
  BY <1>0, <1>1, ForgetTyped DEF RequestsTyped, At, Untouched
<1>2. ASSUME NEW r \in Requests, NEW q, q.at \notin Mine2, req' = [req EXCEPT ![r] = q]
      PROVE  Untouched
  BY <1>2 DEF RequestsTyped, Untouched
<1>3. ASSUME NEW r \in Requests, FriendStep(r) PROVE Untouched
  <2>1. CASE RequestFriendSelect(r)
    <3>1. req[r] \in FriendRequest
      BY <2>1, RequestCases DEF RequestFriendSelect, At, FriendLocations, RequestsTyped
    <3>2. req'[r].at = "RequestFriend.lock" /\ \A s \in Requests \ {r} : req'[s] = req[s]
      BY <2>1, <3>1 DEF RequestFriendSelect, RequestsTyped, FriendRequest
    <3>. QED  BY <1>0, <3>2 DEF Untouched
  <2>2. CASE RequestFriendConflict(r)
    BY <1>0, <1>2, <2>2 DEF RequestFriendConflict, Reply
  <2>3. CASE RequestFriendAccept(r)
    BY <1>0, <1>2, <2>3 DEF RequestFriendAccept, Reply
  <2>4. CASE RequestFriendReopen(r)
    <3>1. req[r] \in FriendRequest
      BY <2>4, RequestCases DEF RequestFriendReopen, Locked, At, FriendLocations, RequestsTyped
    <3>2. req'[r].at = "RequestFriend.write" /\ \A s \in Requests \ {r} : req'[s] = req[s]
      BY <2>4, <3>1 DEF RequestFriendReopen, RequestsTyped, FriendRequest
    <3>. QED  BY <1>0, <3>2 DEF Untouched
  <2>5. CASE RequestFriendWrite(r)
    <3> DEFINE cleared == IF req[r].rows = {} THEN {} ELSE {Mine(r), Theirs(r)}
    <3>1. req' = [Forget(cleared) EXCEPT ![r] = Idle]
      BY <2>5 DEF RequestFriendWrite
    <3> HIDE DEF cleared
    <3>2. /\ Forget(cleared) \in [Requests -> Request]
          /\ \A s \in Requests : Forget(cleared)[s].at = req[s].at
          /\ \A s \in Requests : ~At(s, "RequestFriend.lock") => Forget(cleared)[s] = req[s]
      BY ForgetTyped DEF RequestsTyped
    <3>. QED  BY <1>0, <3>1, <3>2 DEF At, Untouched
  <2>. QED  BY <1>3, <2>1, <2>2, <2>3, <2>4, <2>5 DEF FriendStep
<1>4. ASSUME NEW p \in Pairs, Friendship(p[1], p[2]) \/ EndFriendship(p[1], p[2])
      PROVE  Untouched
  BY <1>1, <1>4
  DEF Friendship, AcceptFriend, DeclineFriend, CancelFriendRequest, EndFriendship, Untouched
<1>5. ASSUME NEW u \in Users, LeaveFriends(u) PROVE Untouched
  BY <1>1, <1>5 DEF LeaveFriends
<1>6. ASSUME Crash PROVE Untouched
  BY <1>0, <1>6 DEF Crash, Untouched
<1>7. ASSUME UNCHANGED req PROVE Untouched
  BY <1>7 DEF Untouched
<1>. QED  BY <1>3, <1>4, <1>5, <1>6, <1>7

\* What a step may do to a share that exists.
Shrinks ==
    \A s \in Shares : state[s] # "none" =>
        /\ state'[s] # "none"
        /\ owner'[s] = owner[s]
        /\ grantees'[s] \subseteq grantees[s]
        /\ Viewers(s)' \subseteq Viewers(s)

LEMMA ShrinkStep == TypeInv /\ [Next]_vars => Shrinks
<1> SUFFICES ASSUME TypeInv, [Next]_vars PROVE Shrinks
  OBVIOUS
<1>0. SharesTyped /\ RequestsTyped /\ PreviousExist
  BY TypeSplit DEF TypeInv
<1> USE DEF SharesTyped, Shrinks, Viewers
<1>1. ASSUME UNCHANGED shareVars PROVE Shrinks
  BY <1>1 DEF shareVars
<1>2. ASSUME NEW r \in Requests, Step(r) PROVE Shrinks
  <2>1. CASE CreateShareCommit(r)
    <3>1. PICK s \in Shares : /\ state[s] = "none"
                              /\ state' = [t \in Shares |-> IF t = s THEN "active"
                                              ELSE IF t \in req[r].previous THEN "ended" ELSE state[t]]
                              /\ owner' = [owner EXCEPT ![s] = {req[r].me}]
                              /\ grantees' = [grantees EXCEPT ![s] = req[r].friends]
      BY <2>1 DEF CreateShareCommit
    <3>. QED  BY <1>0, <3>1
  <2>2. CASE ~CreateShareCommit(r)
    BY <1>1, <1>2, <2>2
    DEF Step, CreateShareFriends, CreateShareEnd, IngestCheck, IngestTx, IngestGrantees, IngestTell, Abort
  <2>. QED  BY <2>1, <2>2
<1>3. ASSUME NEW p \in Pairs, Unfriend(p[1], p[2]) PROVE Shrinks
  <2>1. UNCHANGED <<owner, state>> /\ \A s \in Shares : grantees'[s] \subseteq grantees[s]
    BY <1>3 DEF Unfriend
  <2>. QED  BY <2>1
<1>4. ASSUME NEW u \in Users, NEW s \in Shares, StopShare(u, s) PROVE Shrinks
  BY <1>0, <1>4 DEF StopShare
<1>5. ASSUME NEW u \in Users, NEW f \in Users, NEW s \in Shares, RevokeShareGrant(u, s, f)
      PROVE  Shrinks
  BY <1>0, <1>5 DEF RevokeShareGrant
<1>6. ASSUME NEW u \in Users, DeleteMe(u) PROVE Shrinks
  BY <1>0, <1>6 DEF DeleteMe
<1>7. ASSUME NEW s \in Shares, Expire(s) PROVE Shrinks
  BY <1>0, <1>7 DEF Expire
<1>8. ASSUME ExpireJob PROVE Shrinks
  BY <1>0, <1>8 DEF ExpireJob
<1>9. ASSUME NEW r \in Requests, NEW u \in Users, Arrival(r, u) PROVE Shrinks
  BY <1>1, <1>9 DEF Arrival, RequestFriend, CreateShare, Ingest
<1>10. ASSUME Crash PROVE Shrinks
  BY <1>1, <1>10 DEF Crash
<1>11. ASSUME UNCHANGED vars PROVE Shrinks
  BY <1>1, <1>11 DEF vars, shareVars
<1>. QED
  BY <1>1, <1>2, <1>3, <1>4, <1>5, <1>6, <1>7, <1>8, <1>9, <1>10, <1>11 DEF Next

\* A request that has just come in.
LEMMA ArrivalTyped ==
    ASSUME TypeInv, NEW r \in Requests, NEW u \in Users, Arrival(r, u)
    PROVE  /\ RequestsTyped' /\ FriendsTyped' /\ SharesTyped'
           /\ UNCHANGED state
           /\ \A s \in Requests \ {r} : req'[s] = req[s]
           /\ req'[r].at \in {"RequestFriend", "CreateShare", "Ingest"}
<1>0. RequestsTyped /\ FriendsTyped /\ SharesTyped
  BY TypeSplit DEF TypeInv
<1> USE DEF RequestsTyped, FriendsTyped, SharesTyped, friendVars, shareVars
<1>1. ASSUME NEW o \in Users, RequestFriend(r, u, o), UNCHANGED shareVars
      PROVE  /\ req' \in [Requests -> Request] /\ req'[r].at = "RequestFriend"
             /\ \A s \in Requests \ {r} : req'[s] = req[s]
  <2>1. [at |-> "RequestFriend", pair |-> <<u, o>>, rows |-> {}] \in FriendRequest
    BY <1>1 DEF RequestFriend, FriendRequest, Pairs
  <2>. QED  BY <1>0, <1>1, <2>1 DEF RequestFriend, Request
<1>2. ASSUME NEW c \in SUBSET (Users \ {u}), CreateShare(r, u, c)
      PROVE  /\ req' \in [Requests -> Request] /\ req'[r].at = "CreateShare"
             /\ \A s \in Requests \ {r} : req'[s] = req[s]
  <2>1. [at |-> "CreateShare", me |-> u, friends |-> c, previous |-> {}] \in CreateRequest
    BY DEF CreateRequest
  <2>. QED  BY <1>0, <1>2, <2>1 DEF CreateShare, Request
<1>3. ASSUME NEW s \in Shares, Ingest(r, u, s)
      PROVE  /\ req' \in [Requests -> Request] /\ req'[r].at = "Ingest"
             /\ \A t \in Requests \ {r} : req'[t] = req[t]
  <2>1. [at |-> "Ingest", me |-> u, share |-> s, todo |-> {}, late |-> Users \ Viewers(s)]
            \in IngestRequest
    BY DEF IngestRequest
  <2>. QED  BY <1>0, <1>3, <2>1 DEF Ingest, Request
<1>4. UNCHANGED <<friendship, gone, owner, state, grantees>>
  BY DEF Arrival, RequestFriend, CreateShare, Ingest
<1>. QED  BY <1>0, <1>1, <1>2, <1>3, <1>4 DEF Arrival

\* Only CreateShareEnd takes a request to the commit.
LEMMA NotCommit ==
    ASSUME RequestsTyped, NEW r \in Requests, Step(r), ~CreateShareEnd(r)
    PROVE  req'[r].at # "CreateShare.commit"
<1> USE DEF RequestsTyped
<1>1. CASE CreateShareFriends(r)
  <2>1. req[r] \in CreateRequest
    BY <1>1, RequestCases DEF CreateShareFriends, At, CreateLocations
  <2>. QED  BY <1>1, <2>1 DEF CreateShareFriends, Reply, Idle, CreateRequest
<1>2. CASE IngestCheck(r) \/ IngestTx(r) \/ IngestGrantees(r) \/ IngestTell(r)
  <2>1. req[r] \in IngestRequest
    BY <1>2, RequestCases
    DEF IngestCheck, IngestTx, IngestGrantees, IngestTell, At, IngestLocations
  <2>. QED
    BY <1>2, <2>1
    DEF IngestCheck, IngestTx, IngestGrantees, IngestTell, Reply, Idle, IngestRequest
<1>3. CASE CreateShareCommit(r) \/ Abort(r)
  BY <1>3 DEF CreateShareCommit, Abort, Reply, Idle
<1>. QED  BY <1>1, <1>2, <1>3 DEF Step

LEMMA TypeStep == TypeInv /\ [Next]_vars => TypeInv'
<1> SUFFICES ASSUME TypeInv, [Next]_vars PROVE TypeInv'
  OBVIOUS
<1>0. /\ SharesTyped /\ RequestsTyped /\ FriendsTyped /\ PreviousExist
      /\ Shrinks
  BY TypeSplit, ShrinkStep DEF TypeInv
<1> USE DEF SharesTyped, shareVars, friendVars
<1> DEFINE Typed == RequestsTyped /\ FriendsTyped /\ SharesTyped
<1>1. ASSUME Typed', Untouched PROVE TypeInv'
  <2>1. ASSUME NEW r \in Requests, At(r, "CreateShare.commit")',
               NEW s \in req'[r].previous
        PROVE  state'[s] # "none"
    <3>1. req'[r] = req[r] /\ At(r, "CreateShare.commit")
      BY <1>1, <2>1 DEF Untouched, At, CreateLocations
    <3>2. req[r] \in CreateRequest
      BY <1>0, <3>1, RequestCases DEF At, CreateLocations, RequestsTyped
    <3>3. s \in Shares /\ state[s] # "none"
      BY <1>0, <2>1, <3>1, <3>2 DEF PreviousExist, CreateRequest
    <3>. QED  BY <1>0, <3>3 DEF Shrinks
  <2>2. PreviousExist'
    BY <2>1 DEF PreviousExist
  <2>3. TypeOK'
    BY <1>1 DEF TypeOK, RequestsTyped, FriendsTyped, Request
  <2>. QED  BY <2>2, <2>3 DEF TypeInv
<1>2. ASSUME NEW r \in Requests, NEW u \in Users, Arrival(r, u) PROVE TypeInv'
  <2>1. PreviousExist'
    BY <1>0, <1>2, ArrivalTyped DEF PreviousExist, At
  <2>. QED  BY <1>2, <2>1, ArrivalTyped, TypeSplitNext DEF TypeInv
<1>3. ASSUME NEW r \in Requests, Step(r) PROVE TypeInv'
  <2>1. ASSUME At(r, "CreateShare.commit")', NEW s \in req'[r].previous
        PROVE  state'[s] # "none"
    <3>1. CASE CreateShareEnd(r)
      <4>1. req[r] \in CreateRequest
        BY <1>0, <3>1, RequestCases DEF CreateShareEnd, At, CreateLocations, RequestsTyped
      <4>2. req'[r].previous = {t \in Own(req[r].me) : IsActive(t)}
        BY <1>0, <3>1, <4>1 DEF CreateShareEnd, RequestsTyped, CreateRequest
      <4>. QED  BY <2>1, <3>1, <4>2 DEF CreateShareEnd, IsActive
    <3>2. CASE ~CreateShareEnd(r)
      <4>1. req'[r].at # "CreateShare.commit"
        BY <1>0, <1>3, <2>1, <3>2, NotCommit DEF At
      <4>. QED  BY <2>1, <4>1 DEF At
    <3>. QED  BY <3>1, <3>2
  <2>2. PreviousExist'
    <3>1. ASSUME NEW q \in Requests, At(q, "CreateShare.commit")', NEW s \in req'[q].previous, q # r
          PROVE  state'[s] # "none"
      <4>1. req'[q] = req[q]
        BY <1>3, <3>1, StepTyped
      <4>2. req[q] \in CreateRequest
        BY <1>0, <3>1, <4>1, RequestCases DEF At, CreateLocations, RequestsTyped
      <4>. QED  BY <1>0, <3>1, <4>1, <4>2 DEF PreviousExist, At, CreateRequest, Shrinks
    <3>. QED  BY <2>1, <3>1 DEF PreviousExist
  <2>. QED  BY <1>3, <2>2, StepTyped, TypeSplitNext DEF TypeInv
<1>4. ASSUME NEW r \in Requests, FriendStep(r), UNCHANGED shareVars PROVE TypeInv'
  BY <1>0, <1>1, <1>4, FriendStepTyped, FriendsLeaveSharesAlone
<1>5. ASSUME NEW p \in Pairs, Friendship(p[1], p[2]), UNCHANGED shareVars PROVE TypeInv'
  BY <1>0, <1>1, <1>5, FriendshipTyped, FriendsLeaveSharesAlone
<1>6. ASSUME NEW p \in Pairs, Unfriend(p[1], p[2]) PROVE TypeInv'
  <2>1. EndFriendship(p[1], p[2]) /\ UNCHANGED <<owner, state>>
    BY <1>6 DEF Unfriend
  <2>2. grantees' \in [Shares -> SUBSET Users]
    BY <1>0, <1>6 DEF Unfriend
  <2>. QED  BY <1>0, <1>1, <2>1, <2>2, FriendshipTyped, FriendsLeaveSharesAlone
<1>7. ASSUME NEW u \in Users, DeleteMe(u) PROVE TypeInv'
  <2>1. LeaveFriends(u)
    BY <1>7 DEF DeleteMe
  <2>2. SharesTyped'
    BY <1>0, <1>7 DEF DeleteMe, Own, IsActive
  <2>. QED  BY <1>0, <1>1, <2>1, <2>2, LeaveTyped, FriendsLeaveSharesAlone
<1>8. ASSUME UNCHANGED <<friendship, gone, req>>, SharesTyped' PROVE TypeInv'
  BY <1>0, <1>1, <1>8, FriendsLeaveSharesAlone DEF RequestsTyped, FriendsTyped
<1>9. ASSUME NEW u \in Users, NEW s \in Shares, StopShare(u, s) PROVE TypeInv'
  BY <1>0, <1>8, <1>9 DEF StopShare, Own
<1>10. ASSUME NEW u \in Users, NEW f \in Users, NEW s \in Shares, RevokeShareGrant(u, s, f)
       PROVE  TypeInv'
  BY <1>0, <1>8, <1>10 DEF RevokeShareGrant
<1>11. ASSUME NEW s \in Shares, Expire(s) PROVE TypeInv'
  BY <1>0, <1>8, <1>11 DEF Expire
<1>12. ASSUME ExpireJob PROVE TypeInv'
  BY <1>0, <1>8, <1>12 DEF ExpireJob
<1>13. ASSUME Crash PROVE TypeInv'
  <2>1. Typed'
    BY <1>0, <1>13 DEF Crash, RequestsTyped, FriendsTyped, Request
  <2>. QED  BY <1>0, <1>1, <1>13, <2>1, FriendsLeaveSharesAlone
<1>14. ASSUME UNCHANGED vars PROVE TypeInv'
  BY <1>0, <1>8, <1>14 DEF vars
<1>. QED
  BY <1>2, <1>3, <1>4, <1>5, <1>6, <1>7, <1>9, <1>10, <1>11, <1>12, <1>13, <1>14 DEF Next

\* The model never leaves its types.
THEOREM TypeCorrect == Spec => []TypeOK
<1>1. Init => TypeInv
  BY TypeInit
<1>2. TypeInv /\ [Next]_vars => TypeInv'
  BY TypeStep
<1>3. TypeInv => TypeOK
  BY DEF TypeInv
<1>. QED  BY <1>1, <1>2, <1>3, PTL DEF Spec

-----------------------------------------------------------------------------
(* Who is told.                                                            *)

\* Along an upload, who could not see the share at its start still cannot:
\* until the check by the state or the grants, from then on by the grants.
Upload(r) ==
    /\ req[r].at \in IngestLocations => state[req[r].share] # "none"
    /\ At(r, "Ingest") => req[r].late \cap Viewers(req[r].share) = {}
    /\ req[r].at \in {"Ingest.tx", "Ingest.grantees"} => req[r].late \cap grantees[req[r].share] = {}
    /\ At(r, "Ingest.tell") => req[r].todo \cap req[r].late = {}

UploadsBlind == \A r \in Requests : Upload(r)

\* A request the step leaves alone, whatever becomes of its share.
LEMMA UploadStays ==
    ASSUME TypeInv, Shrinks, NEW r \in Requests, Upload(r),
           req'[r].at \in IngestLocations => req'[r] = req[r]
    PROVE  Upload(r)'
<1>1. CASE req'[r].at \in IngestLocations
  <2>1. req[r] \in IngestRequest
    BY <1>1, RequestCases, TypeSplit DEF TypeInv, RequestsTyped
  <2>2. req[r].share \in Shares
    BY <2>1 DEF IngestRequest
  <2>. QED  BY <1>1, <2>2 DEF Upload, At, Shrinks
<1>2. CASE req'[r].at \notin IngestLocations
  BY <1>2 DEF Upload, At, IngestLocations
<1>. QED  BY <1>1, <1>2

LEMMA UploadAdvances ==
    ASSUME TypeInv, Shrinks, NEW r \in Requests, Upload(r), Step(r)
    PROVE  Upload(r)'
<1>0. RequestsTyped
  BY TypeSplit DEF TypeInv
<1> USE DEF RequestsTyped
<1>1. CASE req'[r] = Idle
  BY <1>1 DEF Upload, At, Idle, IngestLocations
<1>2. CASE CreateShareFriends(r) \/ CreateShareEnd(r)
  <2>1. req[r] \in CreateRequest
    BY <1>0, <1>2, RequestCases DEF CreateShareFriends, CreateShareEnd, At, CreateLocations
  <2>2. req'[r] = Idle \/ req'[r].at \in {"CreateShare.end", "CreateShare.commit"}
    BY <1>0, <1>2, <2>1 DEF CreateShareFriends, CreateShareEnd, CreateRequest, Reply
  <2>. QED  BY <1>1, <2>2 DEF Upload, At, IngestLocations
<1>3. CASE CreateShareCommit(r) \/ IngestTell(r) \/ Abort(r)
  BY <1>0, <1>1, <1>3 DEF CreateShareCommit, IngestTell, Abort, Reply
<1>4. CASE IngestCheck(r) /\ req'[r] # Idle
  <2>1. req[r] \in IngestRequest /\ At(r, "Ingest")
    BY <1>0, <1>4, RequestCases DEF IngestCheck, At, IngestLocations
  <2>2. /\ state[req[r].share] = "active"
        /\ req' = [req EXCEPT ![r].at = "Ingest.tx"]
        /\ UNCHANGED <<state, grantees>>
    BY <1>0, <1>4 DEF IngestCheck, Reply, shareVars
  <2>3. /\ req'[r].at = "Ingest.tx" /\ req'[r].share = req[r].share
        /\ req'[r].late = req[r].late
    BY <1>0, <2>1, <2>2 DEF IngestRequest
  <2>4. req[r].late \cap grantees[req[r].share] = {}
    BY <2>1, <2>2 DEF Upload, Viewers
  <2>. QED  BY <2>2, <2>3, <2>4 DEF Upload, At
<1>5. CASE IngestTx(r) /\ req'[r] # Idle
  <2>1. req[r] \in IngestRequest /\ At(r, "Ingest.tx")
    BY <1>0, <1>5, RequestCases DEF IngestTx, At, IngestLocations
  <2>2. req' = [req EXCEPT ![r].at = "Ingest.grantees"] /\ UNCHANGED <<state, grantees>>
    BY <1>0, <1>5 DEF IngestTx, Reply, shareVars
  <2>3. /\ req'[r].at = "Ingest.grantees" /\ req'[r].share = req[r].share
        /\ req'[r].late = req[r].late
    BY <1>0, <2>1, <2>2 DEF IngestRequest
  <2>. QED  BY <2>1, <2>2, <2>3 DEF Upload, At, IngestLocations
<1>6. CASE IngestGrantees(r)
  <2>1. req[r] \in IngestRequest /\ At(r, "Ingest.grantees")
    BY <1>0, <1>6, RequestCases DEF IngestGrantees, At, IngestLocations
  <2>2. /\ req'[r].at = "Ingest.tell" /\ req'[r].share = req[r].share
        /\ req'[r].late = req[r].late /\ req'[r].todo = grantees[req[r].share]
        /\ UNCHANGED <<state, grantees>>
    BY <1>0, <1>6, <2>1 DEF IngestGrantees, IngestRequest, shareVars
  <2>. QED  BY <2>1, <2>2 DEF Upload, At, IngestLocations
<1>. QED  BY <1>1, <1>2, <1>3, <1>4, <1>5, <1>6 DEF Step, IngestCheck, IngestTx

LEMMA UploadsStep == TypeInv /\ UploadsBlind /\ [Next]_vars => UploadsBlind'
<1> SUFFICES ASSUME TypeInv, UploadsBlind, [Next]_vars, NEW q \in Requests PROVE Upload(q)'
  BY DEF UploadsBlind
<1>0. Shrinks /\ RequestsTyped /\ Upload(q)
  BY ShrinkStep, TypeSplit DEF TypeInv, UploadsBlind
<1>1. ASSUME Untouched PROVE Upload(q)'
  BY <1>0, <1>1, UploadStays DEF Untouched
<1>2. ASSUME NEW r \in Requests, Step(r) PROVE Upload(q)'
  BY <1>0, <1>2, UploadAdvances, UploadStays, StepTyped
<1>3. ASSUME NEW r \in Requests, NEW u \in Users, Arrival(r, u) PROVE Upload(q)'
  <2>1. CASE q # r \/ req'[r].at # "Ingest"
    <3>1. req'[q].at \in IngestLocations => req'[q] = req[q]
      BY <1>3, <2>1, ArrivalTyped DEF IngestLocations
    <3>. QED  BY <1>0, <3>1, UploadStays
  <2>2. CASE q = r /\ req'[r].at = "Ingest"
    <3>1. PICK s \in Shares : Ingest(r, u, s)
      BY <1>0, <1>3, <2>2 DEF Arrival, RequestFriend, CreateShare, RequestsTyped
    <3>2. /\ req'[r].share = s /\ req'[r].late = Users \ Viewers(s) /\ state[s] # "none"
          /\ UNCHANGED <<state, grantees>>
      BY <1>0, <3>1 DEF Ingest, RequestsTyped, shareVars
    <3>. QED  BY <2>2, <3>2 DEF Upload, At, Viewers
  <2>. QED  BY <2>1, <2>2
<1>4. ASSUME NEW r \in Requests, FriendStep(r) PROVE Untouched
  BY <1>0, <1>4, FriendsLeaveSharesAlone
<1>5. ASSUME NEW p \in Pairs, Friendship(p[1], p[2]) \/ Unfriend(p[1], p[2]) PROVE Untouched
  BY <1>0, <1>5, FriendsLeaveSharesAlone DEF Unfriend
<1>6. ASSUME NEW u \in Users, DeleteMe(u) PROVE Untouched
  BY <1>0, <1>6, FriendsLeaveSharesAlone DEF DeleteMe
<1>7. ASSUME UNCHANGED req \/ Crash PROVE Untouched
  BY <1>0, <1>7, FriendsLeaveSharesAlone
<1>8. ASSUME \/ \E u \in Users, s \in Shares : StopShare(u, s)
             \/ \E u, f \in Users, s \in Shares : RevokeShareGrant(u, s, f)
             \/ \E s \in Shares : Expire(s)
             \/ ExpireJob
             \/ UNCHANGED vars
      PROVE  UNCHANGED req
  BY <1>8 DEF StopShare, RevokeShareGrant, Expire, ExpireJob, vars
<1>. QED  BY <1>1, <1>2, <1>3, <1>4, <1>5, <1>6, <1>7, <1>8 DEF Next

\* However the statements of uploads, new and ended shares and revocations
\* interleave, a location goes to nobody who could not see it when it came.
THEOREM HearersCouldSee == Spec => []NobodyHearsLater
<1> DEFINE IInv == TypeInv /\ UploadsBlind
<1>1. Init => IInv
  <2>1. ASSUME Init, NEW r \in Requests PROVE Upload(r)
    <3>1. req[r].at = "idle"
      BY <2>1 DEF Init, Idle
    <3>. QED  BY <3>1 DEF Upload, At, IngestLocations
  <2>. QED  BY <2>1, TypeInit DEF UploadsBlind
<1>2. IInv /\ [Next]_vars => IInv'
  BY TypeStep, UploadsStep
<1>3. IInv => NobodyHearsLater
  BY DEF UploadsBlind, Upload, NobodyHearsLater
<1>. QED  BY <1>1, <1>2, <1>3, PTL DEF Spec

\* A share that is over stays over, and nobody joins one that is on.
THEOREM SharesShrink == Spec => SharesOnlyShrink
<1>1. Spec => []TypeInv
  BY TypeInit, TypeStep, PTL DEF Spec
<1>2. TypeInv /\ [Next]_vars =>
        [\A s \in Shares : state[s] # "none" =>
            /\ owner'[s] = owner[s]
            /\ Viewers(s)' \subseteq Viewers(s)]_vars
  BY ShrinkStep DEF Shrinks
<1>. QED  BY <1>1, <1>2, PTL DEF Spec, SharesOnlyShrink

-----------------------------------------------------------------------------
(* Friendships.                                                            *)

\* LockedRowsStay with what it rests on: the rows a SELECT waits for exist.
RowsFound ==
    /\ LockedRowsStay
    /\ \A r \in Requests : At(r, "RequestFriend.lock") =>
           \A p \in req[r].rows : friendship[p] # ""

\* A step that leaves locked rows alone and takes rows it deletes from those
\* who wait for them.
RowsKept ==
    \A q \in Requests :
        /\ At(q, "RequestFriend.write")' =>
               /\ req'[q] = req[q]
               /\ \A p \in req[q].rows : friendship[p] = "declined" => friendship'[p] = "declined"
        /\ At(q, "RequestFriend.lock")' =>
               /\ At(q, "RequestFriend.lock")
               /\ req'[q].rows \subseteq req[q].rows
               /\ \A p \in req'[q].rows : friendship[p] # "" => friendship'[p] # ""

LEMMA KeptRowsAreFound ==
    ASSUME RowsFound, RowsKept PROVE RowsFound'
  BY DEF RowsFound, RowsKept, LockedRowsStay, At

LEMMA ForgetRows ==
    ASSUME RequestsTyped, NEW rows, NEW q \in Requests
    PROVE  /\ At(q, "RequestFriend.lock") => Forget(rows)[q].rows = req[q].rows \ rows
           /\ At(q, "RequestFriend.write") => req[q].rows \subseteq Pairs
           /\ At(q, "RequestFriend.lock") => req[q].rows \subseteq Pairs
  BY RequestCases DEF RequestsTyped, Forget, At, FriendLocations, FriendRequest

\* Deleting or changing rows that are not declined, and forgetting the deleted.
LEMMA ForgetKeeps ==
    ASSUME RequestsTyped, NEW rows, req' = Forget(rows),
           \A p \in Pairs \ rows : friendship'[p] = friendship[p],
           \A p \in Pairs \cap rows : friendship[p] = "declined" =>
               \A q \in Requests : At(q, "RequestFriend.write") => p \notin req[q].rows
    PROVE  RowsKept
<1>1. ASSUME NEW q \in Requests
      PROVE  /\ req'[q].at = req[q].at
             /\ ~At(q, "RequestFriend.lock") => req'[q] = req[q]
             /\ At(q, "RequestFriend.lock") =>
                    req'[q].rows = req[q].rows \ rows /\ req[q].rows \subseteq Pairs
             /\ At(q, "RequestFriend.write") => req[q].rows \subseteq Pairs
  BY <1>1, ForgetTyped, ForgetRows DEF RequestsTyped
<1>2. ASSUME NEW q \in Requests, At(q, "RequestFriend.write")'
      PROVE  /\ req'[q] = req[q]
             /\ \A p \in req[q].rows : friendship[p] = "declined" => friendship'[p] = "declined"
  <2>1. At(q, "RequestFriend.write") /\ ~At(q, "RequestFriend.lock")
    BY <1>1, <1>2 DEF At
  <2>2. ASSUME NEW p \in req[q].rows, friendship[p] = "declined"
        PROVE  friendship'[p] = "declined"
    BY <1>1, <2>1, <2>2
  <2>. QED  BY <1>1, <2>1, <2>2
<1>3. ASSUME NEW q \in Requests, At(q, "RequestFriend.lock")'
      PROVE  /\ At(q, "RequestFriend.lock")
             /\ req'[q].rows \subseteq req[q].rows
             /\ \A p \in req'[q].rows : friendship[p] # "" => friendship'[p] # ""
  <2>1. At(q, "RequestFriend.lock")
    BY <1>1, <1>3 DEF At
  <2>. QED  BY <1>1, <2>1
<1>. QED  BY <1>2, <1>3 DEF RowsKept

\* One request is answered or comes in, and no row is deleted.
LEMMA OthersKeep ==
    ASSUME RequestsTyped, NEW r \in Requests,
           \A q \in Requests \ {r} : req'[q] = req[q],
           req'[r].at \notin {"RequestFriend.lock", "RequestFriend.write"},
           \A p \in Pairs : friendship'[p] = friendship[p] \/ (friendship[p] # "declined" /\ friendship'[p] # "")
    PROVE  RowsKept
  BY ForgetRows DEF RowsKept, At

LEMMA FriendStepRows ==
    ASSUME TypeInv, RowsFound, NEW r \in Requests, FriendStep(r)
    PROVE  RowsFound'
<1>0. RequestsTyped /\ FriendsTyped
  BY TypeSplit DEF TypeInv
<1> USE DEF FriendsTyped
<1>1. ASSUME Reply(r)
      PROVE  req'[r].at = "idle" /\ \A q \in Requests \ {r} : req'[q] = req[q]
  BY <1>0, <1>1 DEF Reply, Idle, RequestsTyped
<1>2. CASE RequestFriendSelect(r)
  <2>1. req[r] \in FriendRequest
    BY <1>0, <1>2, RequestCases DEF RequestFriendSelect, At, FriendLocations, RequestsTyped
  <2>2. /\ req'[r].at = "RequestFriend.lock"
        /\ req'[r].rows = {p \in {Mine(r), Theirs(r)} : friendship[p] # ""}
        /\ \A s \in Requests \ {r} : req'[s] = req[s]
        /\ UNCHANGED friendship
    BY <1>0, <1>2, <2>1 DEF RequestFriendSelect, FriendRequest, RequestsTyped, friendVars
  <2>. QED  BY <2>2 DEF RowsFound, LockedRowsStay, At
<1>3. CASE RequestFriendConflict(r)
  BY <1>0, <1>1, <1>3, OthersKeep, KeptRowsAreFound DEF RequestFriendConflict, friendVars
<1>4. CASE RequestFriendAccept(r)
  <2>1. friendship[Theirs(r)] = "pending"
    BY <1>4 DEF RequestFriendAccept, Found
  <2>2. \A p \in Pairs : friendship'[p] = friendship[p] \/ (friendship[p] # "declined" /\ friendship'[p] # "")
    BY <1>0, <1>4, <2>1 DEF RequestFriendAccept
  <2>3. Reply(r)
    BY <1>4 DEF RequestFriendAccept
  <2>. QED  BY <1>0, <1>1, <2>2, <2>3, OthersKeep, KeptRowsAreFound
<1>5. CASE RequestFriendReopen(r)
  <2>1. req[r] \in FriendRequest
    BY <1>0, <1>5, RequestCases DEF RequestFriendReopen, Locked, At, FriendLocations, RequestsTyped
  <2>2. /\ req'[r].rows = req[r].rows /\ req'[r].at = "RequestFriend.write"
        /\ \A s \in Requests \ {r} : req'[s] = req[s]
        /\ UNCHANGED friendship
    BY <1>0, <1>5, <2>1 DEF RequestFriendReopen, FriendRequest, friendVars, RequestsTyped
  <2>3. ASSUME NEW p \in req[r].rows PROVE friendship[p] = "declined"
    <3>1. p \in Pairs /\ friendship[p] \in FriendStatus
      BY <1>0, <2>1, <2>3 DEF FriendRequest
    <3>2. friendship[p] # "accepted" /\ friendship[p] # "pending"
      BY <1>5, <2>3 DEF RequestFriendReopen, Found
    <3>3. friendship[p] # ""
      BY <1>5, <2>3 DEF RequestFriendReopen, Locked, RowsFound
    <3>. QED  BY <3>1, <3>2, <3>3 DEF FriendStatus
  <2>. QED  BY <2>2, <2>3 DEF RowsFound, LockedRowsStay, At
<1>6. CASE RequestFriendWrite(r)
  <2> DEFINE cleared == IF req[r].rows = {} THEN {} ELSE {Mine(r), Theirs(r)}
  <2>1. /\ req' = [Forget(cleared) EXCEPT ![r] = Idle]
        /\ \A s \in Requests \ {r} : At(s, "RequestFriend.write") => req[s].rows \cap cleared = {}
        /\ friendship' = [p \in Pairs |->
               IF p = Mine(r) /\ (p \in cleared \/ friendship[p] = "") THEN "pending"
               ELSE IF p \in cleared THEN "" ELSE friendship[p]]
    BY <1>6 DEF RequestFriendWrite, Free
  <2> HIDE DEF cleared
  <2>2. ASSUME NEW q \in Requests, q # r
        PROVE  /\ At(q, "RequestFriend.write")' => At(q, "RequestFriend.write") /\ req'[q] = req[q]
               /\ At(q, "RequestFriend.lock")' =>
                      At(q, "RequestFriend.lock") /\ req'[q].rows = req[q].rows \ cleared
    <3>1. req'[q] = Forget(cleared)[q]
      BY <2>1, <2>2 DEF Forget
    <3>2. /\ Forget(cleared)[q].at = req[q].at
          /\ ~At(q, "RequestFriend.lock") => Forget(cleared)[q] = req[q]
          /\ At(q, "RequestFriend.lock") => Forget(cleared)[q].rows = req[q].rows \ cleared
      BY <1>0, ForgetTyped, ForgetRows DEF RequestsTyped
    <3>. QED  BY <3>1, <3>2 DEF At
  <2>3. req'[r].at = "idle"
    BY <1>0, <2>1, ForgetTyped DEF RequestsTyped, Idle
  <2>4. RowsKept
    <3>1. ASSUME NEW q \in Requests, At(q, "RequestFriend.write")'
          PROVE  /\ req'[q] = req[q]
                 /\ \A p \in req[q].rows : friendship[p] = "declined" => friendship'[p] = "declined"
      BY <1>0, <2>1, <2>2, <2>3, <3>1, ForgetRows DEF At
    <3>2. ASSUME NEW q \in Requests, At(q, "RequestFriend.lock")'
          PROVE  /\ At(q, "RequestFriend.lock")
                 /\ req'[q].rows \subseteq req[q].rows
                 /\ \A p \in req'[q].rows : friendship[p] # "" => friendship'[p] # ""
      BY <1>0, <2>1, <2>2, <2>3, <3>2, ForgetRows DEF At
    <3>. QED  BY <3>1, <3>2 DEF RowsKept
  <2>. QED  BY <2>4, KeptRowsAreFound
<1>. QED  BY <1>2, <1>3, <1>4, <1>5, <1>6 DEF FriendStep

\* No step of CreateShare or of an upload becomes a friend request.
LEMMA StepStaysOut ==
    ASSUME RequestsTyped, NEW r \in Requests, Step(r)
    PROVE  req'[r].at \notin FriendLocations
<1> USE DEF RequestsTyped, FriendLocations
<1>1. CASE CreateShareFriends(r) \/ CreateShareEnd(r)
  <2>1. req[r] \in CreateRequest
    BY <1>1, RequestCases DEF CreateShareFriends, CreateShareEnd, At, CreateLocations
  <2>. QED  BY <1>1, <2>1 DEF CreateShareFriends, CreateShareEnd, Reply, Idle, CreateRequest
<1>2. CASE IngestCheck(r) \/ IngestTx(r) \/ IngestGrantees(r) \/ IngestTell(r)
  <2>1. req[r] \in IngestRequest
    BY <1>2, RequestCases
    DEF IngestCheck, IngestTx, IngestGrantees, IngestTell, At, IngestLocations
  <2>. QED
    BY <1>2, <2>1
    DEF IngestCheck, IngestTx, IngestGrantees, IngestTell, Reply, Idle, IngestRequest
<1>3. CASE CreateShareCommit(r) \/ Abort(r)
  BY <1>3 DEF CreateShareCommit, Abort, Reply, Idle
<1>. QED  BY <1>1, <1>2, <1>3 DEF Step

LEMMA RowsStep == TypeInv /\ RowsFound /\ [Next]_vars => RowsFound'
<1> SUFFICES ASSUME TypeInv, RowsFound, [Next]_vars PROVE RowsFound'
  OBVIOUS
<1>0. RequestsTyped /\ FriendsTyped
  BY TypeSplit DEF TypeInv
<1>1. ASSUME UNCHANGED <<friendship, req>> PROVE RowsFound'
  BY <1>1 DEF RowsFound, LockedRowsStay, At
<1>2. ASSUME NEW r \in Requests, FriendStep(r) PROVE RowsFound'
  BY <1>2, FriendStepRows
<1>3. ASSUME NEW r \in Requests, Step(r) PROVE RowsFound'
  <2>1. req'[r].at \notin FriendLocations
    BY <1>0, <1>3, StepStaysOut
  <2>2. UNCHANGED friendship
    BY <1>3 DEF Step, CreateShareFriends, CreateShareEnd, CreateShareCommit, IngestCheck,
                IngestTx, IngestGrantees, IngestTell, Abort, friendVars
  <2>. QED  BY <1>0, <1>3, <2>1, <2>2, StepTyped, OthersKeep, KeptRowsAreFound DEF FriendLocations
<1>4. ASSUME NEW r \in Requests, NEW u \in Users, Arrival(r, u) PROVE RowsFound'
  <2>1. UNCHANGED friendship
    BY <1>4 DEF Arrival, RequestFriend, CreateShare, Ingest, friendVars
  <2>. QED  BY <1>0, <1>4, <2>1, ArrivalTyped, OthersKeep, KeptRowsAreFound
<1>5. ASSUME NEW p \in Pairs, Friendship(p[1], p[2]) \/ EndFriendship(p[1], p[2])
      PROVE  RowsFound'
  <2>0. p = <<p[1], p[2]>>
    BY PairFacts
  <2>1. CASE AcceptFriend(p[1], p[2]) \/ DeclineFriend(p[1], p[2])
    <3>1. \A q \in Pairs : friendship'[q] = friendship[q] \/ (friendship[q] # "declined" /\ friendship'[q] # "")
      BY <1>0, <2>0, <2>1 DEF AcceptFriend, DeclineFriend, FriendsTyped
    <3>2. UNCHANGED req
      BY <2>1 DEF AcceptFriend, DeclineFriend
    <3>3. \A q \in Pairs : friendship[q] = "declined" => friendship'[q] = "declined"
      BY <1>0, <2>0, <2>1 DEF AcceptFriend, DeclineFriend, FriendsTyped
    <3>. QED  BY <1>0, <3>1, <3>2, <3>3, ForgetRows, KeptRowsAreFound DEF RowsKept, At
  <2>2. CASE CancelFriendRequest(p[1], p[2])
    BY <1>0, <2>0, <2>2, ForgetKeeps, KeptRowsAreFound DEF CancelFriendRequest, FriendsTyped
  <2>3. CASE EndFriendship(p[1], p[2])
    <3> DEFINE ended == {q \in Between(p[1], p[2]) : friendship[q] = "accepted"}
    <3>1. /\ req' = Forget(ended)
          /\ friendship' = [q \in Pairs |-> IF q \in ended THEN "" ELSE friendship[q]]
      BY <2>3 DEF EndFriendship
    <3>2. \A q \in ended : friendship[q] # "declined"
      OBVIOUS
    <3> HIDE DEF ended
    <3>. QED  BY <1>0, <3>1, <3>2, ForgetKeeps, KeptRowsAreFound
  <2>. QED  BY <1>5, <2>1, <2>2, <2>3 DEF Friendship
<1>6. ASSUME NEW u \in Users, LeaveFriends(u) PROVE RowsFound'
  <2> DEFINE ended == {p \in Pairs : u \in {p[1], p[2]}}
  <2>1. /\ \A s \in Requests : At(s, "RequestFriend.write") => req[s].rows \cap ended = {}
        /\ req' = Forget(ended)
        /\ friendship' = [p \in Pairs |-> IF p \in ended THEN "" ELSE friendship[p]]
    BY <1>6 DEF LeaveFriends
  <2> HIDE DEF ended
  <2>. QED  BY <1>0, <2>1, ForgetKeeps, KeptRowsAreFound
<1>7. ASSUME Crash PROVE RowsFound'
  BY <1>7 DEF Crash, Idle, RowsFound, LockedRowsStay, At
<1>8. ASSUME \/ \E u \in Users, s \in Shares : StopShare(u, s)
             \/ \E u, f \in Users, s \in Shares : RevokeShareGrant(u, s, f)
             \/ \E s \in Shares : Expire(s)
             \/ ExpireJob
             \/ UNCHANGED vars
      PROVE  UNCHANGED <<friendship, req>>
  BY <1>8 DEF StopShare, RevokeShareGrant, Expire, ExpireJob, vars, friendVars
<1>9. ASSUME NEW u \in Users, DeleteMe(u) PROVE RowsFound'
  BY <1>6, <1>9 DEF DeleteMe
<1>10. ASSUME NEW p \in Pairs, Unfriend(p[1], p[2]) PROVE RowsFound'
  BY <1>5, <1>10 DEF Unfriend
<1>. QED  BY <1>1, <1>2, <1>3, <1>4, <1>5, <1>7, <1>8, <1>9, <1>10 DEF Next

\* What RequestFriend deletes is what it found: its locks hold.
THEOREM LocksHold == Spec => []LockedRowsStay
<1>1. Init => TypeInv /\ RowsFound
  <2>1. ASSUME Init, NEW r \in Requests PROVE req[r].at = "idle"
    BY <2>1 DEF Init, Idle
  <2>. QED  BY <2>1, TypeInit DEF RowsFound, LockedRowsStay, At
<1>2. TypeInv /\ RowsFound /\ [Next]_vars => (TypeInv /\ RowsFound)'
  BY TypeStep, RowsStep
<1>3. RowsFound => LockedRowsStay
  BY DEF RowsFound
<1>. QED  BY <1>1, <1>2, <1>3, PTL DEF Spec

\* A RequestFriend that deletes what its pair has become since it looked.
StaleWrite(r, p) ==
    Ends(r, "RequestFriend.write") /\ p \in {Mine(r), Theirs(r)} /\ req[r].rows # {}

\* The steps that end a friendship.
LEMMA PartingSteps ==
    ASSUME TypeInv, [Next]_vars, NEW p \in Pairs,
           Friends(p[1], p[2]), ~Friends(p[1], p[2])'
    PROVE  \/ \E u \in {p[1], p[2]} : DeleteMe(u)
           \/ \E q \in Between(p[1], p[2]) : Unfriend(q[1], q[2])
           \/ \E r \in Requests : StaleWrite(r, p)
<1> DEFINE Parting == \/ \E u \in {p[1], p[2]} : DeleteMe(u)
                      \/ \E q \in Between(p[1], p[2]) : Unfriend(q[1], q[2])
                      \/ \E r \in Requests : StaleWrite(r, p)
<1>0. /\ RequestsTyped /\ FriendsTyped
      /\ p = <<p[1], p[2]>> /\ p[1] \in Users /\ p[2] \in Users /\ p[1] # p[2]
  BY TypeSplit, PairFacts DEF TypeInv
<1>1. PICK d \in Between(p[1], p[2]) : friendship[d] = "accepted" /\ friendship'[d] # "accepted"
  BY DEF Friends
<1>2. d \in Pairs
  BY <1>0, <1>1, PairFacts DEF Between
<1> USE DEF FriendsTyped
<1>3. ASSUME NEW r \in Requests, FriendStep(r) PROVE Parting
  <2>1. CASE RequestFriendWrite(r)
    <3>1. /\ d \in {Mine(r), Theirs(r)} /\ req[r].rows # {}
      BY <1>1, <1>2, <2>1 DEF RequestFriendWrite
    <3>2. req'[r] = Idle /\ At(r, "RequestFriend.write")
      <4>1. Forget(IF req[r].rows = {} THEN {} ELSE {Mine(r), Theirs(r)}) \in [Requests -> Request]
        BY <1>0, ForgetTyped DEF RequestsTyped
      <4>. QED  BY <2>1, <4>1 DEF RequestFriendWrite
    <3>3. req[r] \in FriendRequest
      BY <1>0, <3>2, RequestCases DEF At, FriendLocations, RequestsTyped
    <3>4. p \in {Mine(r), Theirs(r)}
      <4>1. Mine(r) \in Pairs
        BY <3>3 DEF FriendRequest, Mine
      <4>. QED  BY <1>0, <1>1, <3>1, <4>1, PairFacts DEF Mine, Theirs, Between
    <3>. QED  BY <3>1, <3>2, <3>4 DEF StaleWrite, Ends
  <2>2. CASE RequestFriendAccept(r)
    BY <1>0, <1>1, <1>2, <2>2 DEF RequestFriendAccept
  <2>3. CASE UNCHANGED friendship
    BY <1>1, <2>3
  <2>. QED
    BY <1>3, <2>1, <2>2, <2>3
    DEF FriendStep, RequestFriendSelect, RequestFriendConflict, RequestFriendReopen, friendVars
<1>4. ASSUME NEW q \in Pairs, Friendship(q[1], q[2]) PROVE FALSE
  <2>1. q = <<q[1], q[2]>>
    BY PairFacts
  <2>. QED
    BY <1>0, <1>1, <1>2, <1>4, <2>1
    DEF Friendship, AcceptFriend, DeclineFriend, CancelFriendRequest
<1>5. ASSUME NEW q \in Pairs, Unfriend(q[1], q[2]) PROVE Parting
  <2>1. d \in Between(q[1], q[2])
    BY <1>1, <1>2, <1>5 DEF Unfriend, EndFriendship
  <2>2. q \in Between(p[1], p[2])
    <3>1. q = <<q[1], q[2]>>
      BY PairFacts
    <3>2. \/ d[1] = q[1] /\ d[2] = q[2]
          \/ d[1] = q[2] /\ d[2] = q[1]
      BY <2>1 DEF Between
    <3>3. \/ d[1] = p[1] /\ d[2] = p[2]
          \/ d[1] = p[2] /\ d[2] = p[1]
      BY <1>1 DEF Between
    <3>. QED  BY <3>1, <3>2, <3>3 DEF Between
  <2>. QED  BY <1>5, <2>2
<1>6. ASSUME NEW u \in Users, DeleteMe(u) PROVE Parting
  <2>1. u \in {d[1], d[2]}
    BY <1>1, <1>2, <1>6 DEF DeleteMe, LeaveFriends
  <2>2. u \in {p[1], p[2]}
    BY <1>0, <1>1, <2>1 DEF Between
  <2>. QED  BY <1>6, <2>2
<1>7. ASSUME UNCHANGED friendship PROVE FALSE
  BY <1>1, <1>7
<1>8. ASSUME NEW r \in Requests, NEW u \in Users, Arrival(r, u) PROVE UNCHANGED friendship
  BY <1>8 DEF Arrival, RequestFriend, CreateShare, Ingest, friendVars
<1>9. ASSUME NEW r \in Requests, Step(r) PROVE UNCHANGED friendship
  BY <1>9 DEF Step, CreateShareFriends, CreateShareEnd, CreateShareCommit, IngestCheck,
              IngestTx, IngestGrantees, IngestTell, Abort, friendVars
<1>10. ASSUME \/ \E u \in Users, s \in Shares : StopShare(u, s)
              \/ \E u, f \in Users, s \in Shares : RevokeShareGrant(u, s, f)
              \/ \E s \in Shares : Expire(s)
              \/ ExpireJob
              \/ Crash
              \/ UNCHANGED vars
       PROVE  UNCHANGED friendship
  BY <1>10 DEF StopShare, RevokeShareGrant, Expire, ExpireJob, Crash, vars, friendVars
<1>. QED  BY <1>3, <1>4, <1>5, <1>6, <1>7, <1>8, <1>9, <1>10 DEF Next

\* Whoever unfriends, and in whichever order the pair is named, the grants
\* both ways are gone.
LEMMA UnfriendRevokes ==
    ASSUME TypeInv, NEW p \in Pairs, NEW q \in Between(p[1], p[2]), Unfriend(q[1], q[2]),
           NEW s \in Shares, owner[s] = {p[1]}
    PROVE  p[2] \notin grantees'[s]
<1>1. /\ p[1] # p[2]
      /\ (q[1] = p[1] /\ q[2] = p[2]) \/ (q[1] = p[2] /\ q[2] = p[1])
  BY PairFacts DEF Between
<1>. QED  BY <1>1 DEF Unfriend

LEMMA PartingStep ==
    ASSUME TypeInv, [Next]_vars, NEW p \in Pairs, Friends(p[1], p[2]), ~Friends(p[1], p[2])'
    PROVE  \/ {p[1], p[2]} \cap gone' # {}
           \/ \A s \in Own(p[1]) : p[2] \notin grantees'[s]
           \/ \E r \in Requests : /\ Ends(r, "RequestFriend.write")
                                  /\ p \in {Mine(r), Theirs(r)}
                                  /\ req[r].rows # {}
<1>1. ASSUME NEW u \in {p[1], p[2]}, DeleteMe(u) PROVE u \in gone'
  BY <1>1 DEF DeleteMe, LeaveFriends
<1>2. ASSUME NEW q \in Between(p[1], p[2]), Unfriend(q[1], q[2])
      PROVE  \A s \in Own(p[1]) : p[2] \notin grantees'[s]
  BY <1>2, UnfriendRevokes DEF Own
<1>. QED  BY <1>1, <1>2, PartingSteps DEF StaleWrite

\* Friends part by an Unfriend that revokes, a deletion, or a stale request.
THEOREM PartingIsSound == Spec => OnlyStaleRequestsUnfriend
<1>1. Spec => []TypeInv
  BY TypeInit, TypeStep, PTL DEF Spec
<1>2. TypeInv /\ [Next]_vars =>
        [\A p \in Pairs : Friends(p[1], p[2]) /\ ~Friends(p[1], p[2])' =>
            \/ {p[1], p[2]} \cap gone' # {}
            \/ \A s \in Own(p[1]) : p[2] \notin grantees'[s]
            \/ \E r \in Requests : /\ Ends(r, "RequestFriend.write")
                                   /\ p \in {Mine(r), Theirs(r)}
                                   /\ req[r].rows # {}]_vars
  BY PartingStep
<1>. QED  BY <1>1, <1>2, PTL DEF Spec, OnlyStaleRequestsUnfriend

-----------------------------------------------------------------------------
(* Strays.                                                                 *)

\* What the commit of CreateShare does to the shares.
LEMMA CommitFacts ==
    ASSUME TypeInv, NEW r \in Requests, CreateShareCommit(r)
    PROVE  /\ Ends(r, "CreateShare.commit")
           /\ \E n \in Shares :
                 /\ state[n] = "none" /\ state'[n] = "active" /\ owner'[n] = {req[r].me}
                 /\ \A t \in Shares \ {n} :
                       /\ owner'[t] = owner[t]
                       /\ state'[t] = IF t \in req[r].previous THEN "ended" ELSE state[t]
<1>1. SharesTyped /\ RequestsTyped
  BY TypeSplit DEF TypeInv
<1>2. At(r, "CreateShare.commit") /\ req' = [req EXCEPT ![r] = Idle]
  BY DEF CreateShareCommit, Reply
<1>3. PICK n \in Shares : /\ state[n] = "none"
                          /\ state' = [u \in Shares |-> IF u = n THEN "active"
                                          ELSE IF u \in req[r].previous THEN "ended" ELSE state[u]]
                          /\ owner' = [owner EXCEPT ![n] = {req[r].me}]
  BY DEF CreateShareCommit
<1>4. Ends(r, "CreateShare.commit")
  BY <1>1, <1>2 DEF Ends, RequestsTyped
<1>. QED  BY <1>1, <1>3, <1>4 DEF SharesTyped

\* A share comes into being at a CreateShareCommit only.
LEMMA NoOtherBirths ==
    ASSUME TypeInv, [Next]_vars, \A r \in Requests : ~CreateShareCommit(r),
           NEW s \in Shares, state[s] = "none"
    PROVE  state'[s] = "none"
<1>0. SharesTyped
  BY TypeSplit DEF TypeInv
<1> USE DEF SharesTyped
<1>1. ASSUME NEW r \in Requests, Step(r) PROVE UNCHANGED state
  BY <1>1 DEF Step, CreateShareFriends, CreateShareEnd, IngestCheck, IngestTx, IngestGrantees,
              IngestTell, Abort, shareVars
<1>2. ASSUME \/ \E r \in Requests, u \in Users : Arrival(r, u)
             \/ \E p \in Pairs : Unfriend(p[1], p[2])
             \/ \E u, f \in Users, t \in Shares : RevokeShareGrant(u, t, f)
             \/ Crash
             \/ UNCHANGED shareVars
             \/ UNCHANGED vars
      PROVE  UNCHANGED state
  BY <1>2 DEF Arrival, RequestFriend, CreateShare, Ingest, Unfriend, RevokeShareGrant, Crash,
              shareVars, vars
<1>3. ASSUME NEW u \in Users, DeleteMe(u) PROVE state'[s] = "none"
  BY <1>0, <1>3 DEF DeleteMe, Own, IsActive
<1>4. ASSUME NEW t \in Shares, Expire(t) \/ ExpireJob PROVE state'[s] = "none"
  BY <1>0, <1>4 DEF Expire, ExpireJob
<1>5. ASSUME NEW u \in Users, NEW t \in Shares, StopShare(u, t) PROVE state'[s] = "none"
  BY <1>0, <1>5 DEF StopShare, Own
<1>. QED  BY <1>1, <1>2, <1>3, <1>4, <1>5 DEF Next

LEMMA BirthStep ==
    ASSUME TypeInv, [Next]_vars, NEW s \in Shares, state[s] = "none", state'[s] # "none"
    PROVE  \E r \in Requests : Ends(r, "CreateShare.commit") /\ owner'[s] = {req[r].me}
<1>1. PICK r \in Requests : CreateShareCommit(r)
  BY NoOtherBirths
<1>2. PreviousExist /\ Ends(r, "CreateShare.commit")
  BY <1>1, CommitFacts DEF TypeInv
<1>. QED  BY <1>1, <1>2, CommitFacts DEF PreviousExist, Ends

LEMMA StrayStep ==
    ASSUME TypeInv, [Next]_vars, NEW x \in Strays' \ Strays
    PROVE  \/ x[2] \in gone'
           \/ \E r \in Requests : Ends(r, "CreateShare.commit") /\ owner'[x[1]] = {req[r].me}
           \/ \E r \in Requests : /\ Ends(r, "RequestFriend.write")
                                  /\ req[r].rows # {}
                                  /\ owner[x[1]] \cup {x[2]} = {Mine(r)[1], Mine(r)[2]}
<1> DEFINE s == x[1]
           f == x[2]
<1>0. SharesTyped /\ RequestsTyped /\ FriendsTyped /\ Shrinks
  BY TypeSplit, ShrinkStep DEF TypeInv
<1>1. /\ s \in Shares /\ f \in Users
      /\ f \in Viewers(s)' /\ ~FriendsWithOwner(s, f)'
      /\ ~(f \in Viewers(s) /\ ~FriendsWithOwner(s, f))
  <2>1. x \in Shares \X Users /\ x[2] \in Viewers(x[1])' /\ ~FriendsWithOwner(x[1], x[2])'
    BY DEF Strays
  <2>2. ~(x[2] \in Viewers(x[1]) /\ ~FriendsWithOwner(x[1], x[2]))
    BY <2>1 DEF Strays
  <2>. QED  BY <2>1, <2>2
<1> HIDE DEF s, f
<1>2. state'[s] = "active" /\ f \in grantees'[s]
  BY <1>1 DEF Viewers
<1>3. CASE state[s] = "none"
  BY <1>1, <1>2, <1>3, BirthStep DEF s
<1>4. CASE state[s] # "none"
  <2>1. f \in Viewers(s) /\ owner'[s] = owner[s]
    BY <1>0, <1>1, <1>4 DEF Shrinks
  <2>2. PICK o \in owner[s] : Friends(o, f)
    BY <1>1, <2>1 DEF FriendsWithOwner
  <2>3. ~Friends(o, f)'
    BY <1>1, <2>1, <2>2 DEF FriendsWithOwner
  <2>4. <<o, f>> \in Pairs /\ owner[s] = {o}
    BY <1>0, <1>1, <2>2 DEF SharesTyped, Friends, Between, Pairs
  <2>5. ASSUME DeleteMe(o) PROVE FALSE
    BY <1>0, <1>1, <1>2, <2>4, <2>5 DEF DeleteMe, Own, IsActive, SharesTyped
  <2>6. ASSUME DeleteMe(f) PROVE f \in gone'
    BY <2>6 DEF DeleteMe, LeaveFriends
  <2>7. ASSUME NEW q \in Between(o, f), Unfriend(q[1], q[2]) PROVE FALSE
    BY <1>1, <1>2, <2>4, <2>7, UnfriendRevokes
  <2>8. ASSUME NEW r \in Requests, StaleWrite(r, <<o, f>>)
        PROVE  {o, f} = {Mine(r)[1], Mine(r)[2]}
    BY <2>8 DEF StaleWrite, Mine, Theirs
  <2>9. \/ DeleteMe(o)
        \/ DeleteMe(f)
        \/ \E q \in Between(o, f) : Unfriend(q[1], q[2])
        \/ \E r \in Requests : StaleWrite(r, <<o, f>>)
    BY <2>2, <2>3, <2>4, PartingSteps
  <2>. QED  BY <2>4, <2>5, <2>6, <2>7, <2>8, <2>9 DEF StaleWrite, s, f
<1>. QED  BY <1>3, <1>4

\* Nobody watches a stranger's share, but for the three interleavings named.
THEOREM StraysHaveCauses == Spec => OnlyRacesStray
<1>1. Spec => []TypeInv
  BY TypeInit, TypeStep, PTL DEF Spec
<1>2. TypeInv /\ [Next]_vars =>
        [\A x \in Strays' \ Strays :
            \/ x[2] \in gone'
            \/ \E r \in Requests : Ends(r, "CreateShare.commit") /\ owner'[x[1]] = {req[r].me}
            \/ \E r \in Requests : /\ Ends(r, "RequestFriend.write")
                                   /\ req[r].rows # {}
                                   /\ owner[x[1]] \cup {x[2]} = {Mine(r)[1], Mine(r)[2]}]_vars
  BY StrayStep
<1>. QED  BY <1>1, <1>2, PTL DEF Spec, OnlyRacesStray

-----------------------------------------------------------------------------
(* One share at a time.                                                    *)

\* No account has two requests between the UPDATE and the COMMIT of CreateShare.
CreatesAlone ==
    \A r, q \in Requests :
        At(r, "CreateShare.commit") /\ At(q, "CreateShare.commit") /\ req[r].me = req[q].me => r = q

\* What is on is what the UPDATE has found.
SnapshotsFull ==
    \A r \in Requests : At(r, "CreateShare.commit") =>
        \A s \in Own(req[r].me) : IsActive(s) => s \in req[r].previous

OneOn == \A s, t \in Shares : owner[s] = owner[t] /\ IsActive(s) /\ IsActive(t) => s = t

\* A share that is over stays so.
LEMMA OverStays ==
    ASSUME TypeInv, [Next]_vars, NEW s \in Shares, state[s] # "none"
    PROVE  owner'[s] = owner[s] /\ (IsActive(s)' => IsActive(s))
<1>0. SharesTyped /\ owner'[s] = owner[s]
  BY TypeSplit, ShrinkStep DEF TypeInv, Shrinks
<1> USE DEF SharesTyped, IsActive
<1>1. ASSUME NEW r \in Requests, CreateShareCommit(r) PROVE IsActive(s)' => IsActive(s)
  BY <1>1, CommitFacts
<1>2. ASSUME NEW r \in Requests, Step(r), ~CreateShareCommit(r) PROVE UNCHANGED state
  BY <1>2 DEF Step, CreateShareFriends, CreateShareEnd, IngestCheck, IngestTx, IngestGrantees,
              IngestTell, Abort, shareVars
<1>3. ASSUME \/ \E r \in Requests, u \in Users : Arrival(r, u)
             \/ \E p \in Pairs : Unfriend(p[1], p[2])
             \/ \E u, f \in Users, t \in Shares : RevokeShareGrant(u, t, f)
             \/ Crash
             \/ UNCHANGED shareVars
             \/ UNCHANGED vars
      PROVE  UNCHANGED state
  BY <1>3 DEF Arrival, RequestFriend, CreateShare, Ingest, Unfriend, RevokeShareGrant, Crash,
              shareVars, vars
<1>4. ASSUME NEW u \in Users, DeleteMe(u) PROVE IsActive(s)' => IsActive(s)
  BY <1>0, <1>4 DEF DeleteMe
<1>5. ASSUME NEW t \in Shares, Expire(t) \/ ExpireJob PROVE IsActive(s)' => IsActive(s)
  BY <1>0, <1>5 DEF Expire, ExpireJob
<1>6. ASSUME NEW u \in Users, NEW t \in Shares, StopShare(u, t) PROVE IsActive(s)' => IsActive(s)
  BY <1>0, <1>6 DEF StopShare
<1>. QED  BY <1>0, <1>1, <1>2, <1>3, <1>4, <1>5, <1>6 DEF Next

\* A request at its COMMIT was there before, or has just run the UPDATE.
LEMMA CommitsCome ==
    ASSUME TypeInv, [Next]_vars, NEW q \in Requests, At(q, "CreateShare.commit")'
    PROVE  req'[q] = req[q] \/ CreateShareEnd(q)
<1>0. RequestsTyped /\ "CreateShare.commit" \in CreateLocations
  BY TypeSplit DEF TypeInv, CreateLocations
<1>1. ASSUME NEW r \in Requests, Step(r) PROVE req'[q] = req[q] \/ CreateShareEnd(q)
  BY <1>0, <1>1, NotCommit, StepTyped DEF At
<1>2. ASSUME NEW r \in Requests, NEW u \in Users, Arrival(r, u) PROVE req'[q] = req[q]
  BY <1>2, ArrivalTyped DEF At
<1>3. CASE Untouched
  BY <1>0, <1>3 DEF Untouched, At
<1>4. \/ \E r \in Requests : Step(r)
      \/ \E r \in Requests, u \in Users : Arrival(r, u)
      \/ Untouched
  BY <1>0, FriendsLeaveSharesAlone
  DEF Next, Unfriend, DeleteMe, StopShare, RevokeShareGrant, Expire, ExpireJob, vars
<1>. QED  BY <1>1, <1>2, <1>3, <1>4

LEMMA OneOnStep ==
    TypeInv /\ CreatesAlone /\ SnapshotsFull /\ OneOn /\ [Next]_vars => SnapshotsFull' /\ OneOn'
<1> SUFFICES ASSUME TypeInv, CreatesAlone, SnapshotsFull, OneOn, [Next]_vars
             PROVE  SnapshotsFull' /\ OneOn'
  OBVIOUS
<1>0. SharesTyped /\ RequestsTyped
  BY TypeSplit DEF TypeInv
\* A new share belongs to the one who commits, whose others have ended.
<1>1. ASSUME NEW s \in Shares, state[s] = "none", IsActive(s)'
      PROVE  \E r \in Requests :
                /\ Ends(r, "CreateShare.commit") /\ owner'[s] = {req[r].me}
                /\ \A t \in Shares \ {s} : owner'[t] = owner'[s] => ~IsActive(t)'
  <2>1. PICK r \in Requests : CreateShareCommit(r)
    BY <1>1, NoOtherBirths DEF IsActive
  <2>2. Ends(r, "CreateShare.commit") /\ PreviousExist
    BY <2>1, CommitFacts DEF TypeInv
  <2>3. PICK n \in Shares :
          /\ state[n] = "none" /\ state'[n] = "active" /\ owner'[n] = {req[r].me}
          /\ \A t \in Shares \ {n} :
                /\ owner'[t] = owner[t]
                /\ state'[t] = IF t \in req[r].previous THEN "ended" ELSE state[t]
    BY <2>1, CommitFacts
  <2>4. s = n
    BY <1>1, <2>3 DEF IsActive
  <2>5. ASSUME NEW t \in Shares \ {s}, owner'[t] = owner'[s] PROVE ~IsActive(t)'
    <3>1. owner[t] = {req[r].me} /\ state'[t] = IF t \in req[r].previous THEN "ended" ELSE state[t]
      BY <2>3, <2>4, <2>5
    <3>2. IsActive(t) => t \in req[r].previous
      BY <2>2, <3>1 DEF SnapshotsFull, Own, Ends
    <3>. QED  BY <3>1, <3>2 DEF IsActive
  <2>. QED  BY <2>2, <2>3, <2>4, <2>5
<1>2. ASSUME NEW q \in Requests, At(q, "CreateShare.commit")', NEW s \in Shares,
             owner'[s] = {req'[q].me}, IsActive(s)'
      PROVE  s \in req'[q].previous
  <2>1. CASE CreateShareEnd(q)
    <3>1. req[q] \in CreateRequest
      BY <1>0, <2>1, RequestCases DEF CreateShareEnd, At, CreateLocations, RequestsTyped
    <3>2. req'[q].me = req[q].me /\ req'[q].previous = {t \in Own(req[q].me) : IsActive(t)}
          /\ UNCHANGED <<owner, state>>
      BY <1>0, <2>1, <3>1 DEF CreateShareEnd, RequestsTyped, CreateRequest, shareVars
    <3>. QED  BY <1>2, <3>2 DEF Own, IsActive
  <2>2. CASE req'[q] = req[q] /\ state[s] # "none"
    BY <1>2, <2>2, OverStays DEF SnapshotsFull, Own, At
  <2>3. CASE req'[q] = req[q] /\ state[s] = "none"
    <3>1. PICK r \in Requests : Ends(r, "CreateShare.commit") /\ owner'[s] = {req[r].me}
      BY <1>1, <1>2, <2>3
    <3>2. At(q, "CreateShare.commit") /\ req[q].me = req[r].me
      BY <1>2, <2>3, <3>1 DEF At
    <3>3. r = q
      BY <3>1, <3>2 DEF CreatesAlone, Ends
    <3>. QED  BY <1>2, <3>1, <3>3 DEF Ends, At, Idle
  <2>. QED  BY <1>2, <2>1, <2>2, <2>3, CommitsCome
<1>3. SnapshotsFull'
  BY <1>2 DEF SnapshotsFull, Own
<1>4. ASSUME NEW s \in Shares, NEW t \in Shares, owner'[s] = owner'[t], IsActive(s)', IsActive(t)'
      PROVE  s = t
  <2>1. CASE state[s] = "none" \/ state[t] = "none"
    BY <1>1, <1>4, <2>1
  <2>2. CASE state[s] # "none" /\ state[t] # "none"
    BY <1>4, <2>2, OverStays DEF OneOn
  <2>. QED  BY <2>1, <2>2
<1>. QED  BY <1>3, <1>4 DEF OneOn

\* What the API's documentation says of CreateShare, that it ends the previous
\* share, holds as long as one account's CreateShares do not overlap.
THEOREM SerialCreatesKeepOne == Spec /\ []CreatesAlone => []OneActiveShare
<1>1. Init => SnapshotsFull /\ OneOn
  <2>1. ASSUME Init, NEW r \in Requests PROVE ~At(r, "CreateShare.commit")
    BY <2>1 DEF Init, At, Idle
  <2>2. ASSUME Init, NEW s \in Shares PROVE ~IsActive(s)
    BY <2>2 DEF Init, IsActive
  <2>. QED  BY <2>1, <2>2 DEF SnapshotsFull, OneOn
<1>2. Spec => []TypeInv
  BY TypeInit, TypeStep, PTL DEF Spec
<1>3. OneOn => OneActiveShare
  BY DEF OneOn, OneActiveShare, Own, IsActive
<1>. QED  BY <1>1, <1>2, <1>3, OneOnStep, PTL DEF Spec
=============================================================================
