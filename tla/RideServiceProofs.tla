------------------------- MODULE RideServiceProofs -------------------------
(***************************************************************************)
(* RideService for any number of accounts, requests and recorded times:    *)
(* its types, its safety invariants through one inductive invariant, what  *)
(* a step may never do, and that it implements RideLifecycle.              *)
(***************************************************************************)
EXTENDS RideService, WellFoundedInduction, TLAPS

\* Every non-empty set of naturals has a least element.
LEMMA LeastNatural ==
    ASSUME NEW T \in SUBSET Nat, T # {}
    PROVE  \E x \in T : \A y \in T : x <= y
<1> DEFINE R == OpToRel(<, Nat)
<1>1. \A x, y \in Nat : x < y => <<x, y>> \in R
  BY DEF OpToRel
<1>2. IsWellFoundedOn(R, Nat)
  BY NatLessThanWellFounded
<1> HIDE DEF R
<1>3. PICK t \in T : \A y \in T : <<y, t>> \notin R
  BY <1>2, WFMin
<1>4. \A y \in T : ~(y < t)
  BY <1>1, <1>3
<1>. QED  BY <1>4

\* normalizePoints: the last point of a non-empty batch belongs to it and is
\* no older than any other of its points.
LEMMA LastIsNewest ==
    ASSUME NEW S \in SUBSET Times, S # {}
    PROVE  Last(S) \in S /\ \A y \in S : y <= Last(S)
<1> DEFINE T == {MaxTime - x : x \in S}
<1>1. \A x \in S : x \in Nat /\ MaxTime - x \in Nat
  BY TimeAssumption DEF Times
<1>2. T \in SUBSET Nat /\ T # {}
  BY <1>1
<1>3. PICK t \in T : \A y \in T : t <= y
  BY <1>2, LeastNatural
<1>4. PICK x \in S : t = MaxTime - x
  BY <1>3
<1>5. ASSUME NEW y \in S PROVE x >= y
  <2>1. MaxTime - x <= MaxTime - y
    BY <1>3, <1>4
  <2>. QED  BY <2>1, <1>1, TimeAssumption
<1>6. Max(S) \in S /\ \A y \in S : Max(S) >= y
  BY <1>5 DEF Max
<1>. QED  BY <1>6, <1>1 DEF Last

\* A request that moves on keeps its owner and arguments; the others stay.
LEMMA GotoFacts ==
    ASSUME TypeOK, NEW r \in Requests, NEW l \in Locations, Goto(r, l)
    PROVE  /\ req' \in [Requests -> Request]
           /\ \A s \in Requests \ {r} : req'[s] = req[s]
           /\ req'[r].at = l
           /\ req'[r].me = req[r].me /\ req'[r].target = req[r].target
           /\ req'[r].to = req[r].to /\ req'[r].st = req[r].st
           /\ req'[r].batch = req[r].batch
  BY DEF TypeOK, Goto, Request

\* A request that is answered is idle; the others stay.
LEMMA ReplyFacts ==
    ASSUME TypeOK, NEW r \in Requests, Reply(r)
    PROVE  /\ req' \in [Requests -> Request]
           /\ \A s \in Requests \ {r} : req'[s] = req[s]
           /\ req'[r].at = "idle"
<1>1. Idle \in Request /\ Idle.at = "idle"
  BY DEF Idle, Call, Request, Locations, RideStatus, PartStatus
<1>. QED  BY <1>1 DEF TypeOK, Reply

-----------------------------------------------------------------------------
(* Types.                                                                  *)

\* Before the ride exists every table is empty and well formed.
LEMMA TypeInit == Init => TypeOK
<1>1. Idle \in Request /\ HasArguments(Idle)
  BY DEF Idle, Call, Request, Locations, RideStatus, PartStatus, HasArguments
<1> SUFFICES ASSUME Init PROVE TypeOK
  OBVIOUS
<1>2. req \in [Requests -> Request] /\ \A r \in Requests : HasArguments(req[r])
  BY <1>1 DEF Init
<1>3. part \in [Users -> PartStatus]
  BY DEF Init, PartStatus
<1>6. seen \in [Users -> 0..MaxTime]
  <2>1. 0 \in 0..MaxTime
    BY TimeAssumption
  <2>2. seen = [u \in Users |-> 0]
    BY DEF Init
  <2>. QED  BY <2>1, <2>2
<1>4. rideStatus = "none" /\ rideStatus \in RideStatus /\ started \in BOOLEAN
  BY DEF Init, RideStatus
<1>7. announced \in [Target -> Nat]
  BY DEF Init
<1>5. points = {} /\ deleted = {} /\ room = {} /\ host = NoUser
  BY DEF Init
<1>. QED  BY <1>2, <1>3, <1>4, <1>5, <1>6, <1>7 DEF TypeOK

\* The type of the requests in flight, the last two conjuncts of TypeOK.
RequestsTyped ==
    /\ req \in [Requests -> Request]
    /\ \A r \in Requests : HasArguments(req[r])

\* A request that ends leaves well-formed requests behind.
LEMMA ReplyTyped ==
    ASSUME TypeOK, NEW r \in Requests, Reply(r)
    PROVE  RequestsTyped'
<1>1. \A s \in Requests \ {r} : HasArguments(req'[s])
  BY ReplyFacts DEF TypeOK
<1>2. HasArguments(req'[r])
  BY ReplyFacts DEF HasArguments
<1>. QED  BY <1>1, <1>2, ReplyFacts DEF RequestsTyped

\* Moving on within an operation keeps its arguments.
LEMMA GotoTyped ==
    ASSUME TypeOK, NEW r \in Requests,
           NEW l \in {"JoinRide.prev", "JoinRide.insert", "JoinRide.rejoin", "transition.update",
                      "transition.announce", "Ingest.tx", "wsRide.join"},
           Goto(r, l), req[r].at # "idle",
           l \in {"transition.update", "transition.announce"} =>
               req[r].at \in {"transition", "transition.update"},
           l = "Ingest.tx" => req[r].at = "Ingest"
    PROVE  RequestsTyped'
<1>0. l \in Locations
  BY DEF Locations
<1>1. \A s \in Requests \ {r} : HasArguments(req'[s])
  BY <1>0, GotoFacts DEF TypeOK
<1>2. HasArguments(req[r])
  BY DEF TypeOK
<1>3. HasArguments(req'[r])
  BY <1>0, <1>2, GotoFacts DEF HasArguments
<1>. QED  BY <1>0, <1>1, <1>3, GotoFacts DEF RequestsTyped

\* Accepting a well-formed call.
LEMMA AcceptTyped ==
    ASSUME TypeOK, NEW r \in Requests, NEW q \in Request, HasArguments(q),
           req' = [req EXCEPT ![r] = q]
    PROVE  RequestsTyped'
  BY DEF TypeOK, RequestsTyped

\* The part of TypeOK that is about the tables, the room and the feed.
RowsTyped ==
    /\ rideStatus \in RideStatus
    /\ started \in BOOLEAN
    /\ IF rideStatus = "none" THEN host = NoUser ELSE host \in Users
    /\ part \in [Users -> PartStatus]
    /\ seen \in [Users -> 0..MaxTime]
    /\ points \subseteq Users \X Times
    /\ deleted \subseteq Users
    /\ room \subseteq Users
    /\ announced \in [Target -> Nat]

\* Type correctness is that of the tables and that of the requests.
LEMMA TypeOKSplit == TypeOK <=> RowsTyped /\ RequestsTyped
  BY DEF TypeOK, RowsTyped, RequestsTyped

\* Whatever arrives is a well-formed call.
LEMMA ArrivalIsCall ==
    ASSUME NEW r \in Requests, NEW u \in Users, Arrive(r, u)
    PROVE  \E q \in Request : HasArguments(q) /\ q.me = u /\ q.at \in Rest /\ Accept(r, q)
<1>0. SetStatuses \subseteq PartStatus
  BY StatusAssumption DEF PartStatus
<1>1. CASE \E l \in Operations \ {"transition", "RemoveParticipant", "SetMyStatus", "Ingest"} :
              Accept(r, Call(l, u, NoUser, "none", "", {}))
  <2>1. PICK l \in Operations \ {"transition", "RemoveParticipant", "SetMyStatus", "Ingest"} :
              Accept(r, Call(l, u, NoUser, "none", "", {}))
    BY <1>1
  <2> DEFINE q == Call(l, u, NoUser, "none", "", {})
  <2>2. q \in Request
    BY <1>0, OperationsAssumption DEF Call, Request, Locations, RideStatus, PartStatus, Rest
  <2>3. HasArguments(q)
    BY OperationsAssumption DEF HasArguments, Call, Rest
  <2>4. q.me = u /\ q.at \in Rest
    BY OperationsAssumption DEF Call, Rest
  <2>5. Accept(r, q)
    BY <2>1
  <2> HIDE DEF q
  <2>. QED  BY <2>2, <2>3, <2>4, <2>5
<1>2. CASE \E to \in Target :
              Accept(r, Call("transition", u, NoUser, to, "", {}))
  <2>1. PICK to \in Target :
              Accept(r, Call("transition", u, NoUser, to, "", {}))
    BY <1>2
  <2> DEFINE q == Call("transition", u, NoUser, to, "", {})
  <2>2. q \in Request
    BY <1>0, OperationsAssumption
    DEF Call, Request, Locations, RideStatus, Target, PartStatus, Rest
  <2>3. HasArguments(q)
    BY OperationsAssumption DEF HasArguments, Call, Rest
  <2>4. q.me = u /\ q.at \in Rest
    BY OperationsAssumption DEF Call, Rest
  <2>5. Accept(r, q)
    BY <2>1
  <2> HIDE DEF q
  <2>. QED  BY <2>2, <2>3, <2>4, <2>5
<1>3. CASE \E v \in Users :
              Accept(r, Call("RemoveParticipant", u, v, "none", "", {}))
  <2>1. PICK v \in Users :
              Accept(r, Call("RemoveParticipant", u, v, "none", "", {}))
    BY <1>3
  <2> DEFINE q == Call("RemoveParticipant", u, v, "none", "", {})
  <2>2. q \in Request
    BY <1>0, OperationsAssumption DEF Call, Request, Locations, RideStatus, PartStatus, Rest
  <2>3. HasArguments(q)
    BY OperationsAssumption DEF HasArguments, Call, Rest
  <2>4. q.me = u /\ q.at \in Rest
    BY OperationsAssumption DEF Call, Rest
  <2>5. Accept(r, q)
    BY <2>1
  <2> HIDE DEF q
  <2>. QED  BY <2>2, <2>3, <2>4, <2>5
<1>4. CASE \E s \in SetStatuses :
              Accept(r, Call("SetMyStatus", u, NoUser, "none", s, {}))
  <2>1. PICK s \in SetStatuses :
              Accept(r, Call("SetMyStatus", u, NoUser, "none", s, {}))
    BY <1>4
  <2> DEFINE q == Call("SetMyStatus", u, NoUser, "none", s, {})
  <2>2. q \in Request
    BY <1>0, OperationsAssumption DEF Call, Request, Locations, RideStatus, PartStatus, Rest
  <2>3. HasArguments(q)
    BY OperationsAssumption DEF HasArguments, Call, Rest
  <2>4. q.me = u /\ q.at \in Rest
    BY OperationsAssumption DEF Call, Rest
  <2>5. Accept(r, q)
    BY <2>1
  <2> HIDE DEF q
  <2>. QED  BY <2>2, <2>3, <2>4, <2>5
<1>5. CASE \E s \in SetStatuses \cup {""}, batch \in (SUBSET Times) \ {{}} :
              Accept(r, Call("Ingest", u, NoUser, "none", s, batch))
  <2>1. PICK s \in SetStatuses \cup {""}, batch \in (SUBSET Times) \ {{}} :
              Accept(r, Call("Ingest", u, NoUser, "none", s, batch))
    BY <1>5
  <2> DEFINE q == Call("Ingest", u, NoUser, "none", s, batch)
  <2>2. q \in Request
    BY <1>0, OperationsAssumption DEF Call, Request, Locations, RideStatus, PartStatus, Rest
  <2>3. HasArguments(q)
    BY OperationsAssumption DEF HasArguments, Call, Rest
  <2>4. q.me = u /\ q.at \in Rest
    BY OperationsAssumption DEF Call, Rest
  <2>5. Accept(r, q)
    BY <2>1
  <2> HIDE DEF q
  <2>. QED  BY <2>2, <2>3, <2>4, <2>5
<1>. QED  BY <1>1, <1>2, <1>3, <1>4, <1>5 DEF Arrive

\* The upload transaction keeps the types: the snapshot is one of the batch.
LEMMA IngestTyped ==
    ASSUME TypeOK, RowsTyped, NEW r \in Requests, req[r].me \in Users, IngestTx(r)
    PROVE  RowsTyped' /\ RequestsTyped'
<1>1. req[r].batch \in SUBSET Times /\ req[r].batch # {} /\ req[r].st \in PartStatus
  BY StatusAssumption DEF IngestTx, At, TypeOK, HasArguments, Request, PartStatus
<1>2. Last(req[r].batch) \in Times
  BY <1>1, LastIsNewest
<1>3. Last(req[r].batch) \in 0..MaxTime
  BY <1>2, TimeAssumption DEF Times
<1>4. points' \subseteq Users \X Times
  BY <1>1 DEF IngestTx, RowsTyped
<1>5. CASE Fresh(r)
  <2> DEFINE q == Call("Ingest.announce", req[r].me, NoUser, "none", "", {})
  <2>1. q \in Request
    BY DEF Call, Request, Locations, RideStatus, PartStatus
  <2>2. HasArguments(q)
    BY DEF HasArguments, Call
  <2>3. req' = [req EXCEPT ![r] = q]
    BY <1>5 DEF IngestTx
  <2> HIDE DEF q
  <2>4. RequestsTyped'
    BY <2>1, <2>2, <2>3, AcceptTyped
  <2>. QED  BY <1>1, <1>3, <1>4, <1>5, <2>4 DEF IngestTx, RowsTyped
<1>6. CASE ~Fresh(r)
  BY <1>4, <1>6, ReplyTyped DEF IngestTx, RowsTyped
<1>. QED  BY <1>5, <1>6

\* No handler, arrival, failure or housekeeping step breaks the types.
LEMMA TypeStep == TypeOK /\ [Next]_vars => TypeOK'
<1> SUFFICES ASSUME TypeOK, [Next]_vars PROVE RowsTyped' /\ RequestsTyped'
  BY TypeOKSplit DEF TypeOK, RowsTyped, RequestsTyped
<1>0. RowsTyped
  BY TypeOKSplit
<1>1. ASSUME NEW r \in Requests, NEW u \in Users, Arrive(r, u)
      PROVE  RowsTyped' /\ RequestsTyped'
  <2>1. PICK q \in Request : HasArguments(q) /\ Accept(r, q)
    BY <1>1, ArrivalIsCall
  <2>. QED  BY <2>1, <1>0, AcceptTyped DEF Accept, RowsTyped, rows
<1>2. ASSUME NEW r \in Requests, Handler(r) PROVE RowsTyped' /\ RequestsTyped'
  <2>0. At(r, "idle") \/ req[r].me \in Users
    BY DEF TypeOK, HasArguments, At
  <2>1. CASE CreateRide(r)
    BY <2>0, <2>1, <1>0, ReplyTyped DEF CreateRide, RowsTyped, At, RideStatus, PartStatus,
       ValidParticipantStatus
  <2>2. CASE JoinRide(r)
    BY <2>2, <1>0, ReplyTyped, GotoTyped DEF JoinRide, RowsTyped, rows, At
  <2>3. CASE JoinRidePrev(r)
    BY <2>3, <1>0, ReplyTyped, GotoTyped DEF JoinRidePrev, RowsTyped, rows, At
  <2>4. CASE JoinRideInsert(r)
    BY <2>4, <1>0, ReplyTyped DEF JoinRideInsert, RowsTyped, PartStatus, ValidParticipantStatus
  <2>5. CASE JoinRideRejoin(r)
    BY <2>5, <1>0, ReplyTyped DEF JoinRideRejoin, RowsTyped, PartStatus, ValidParticipantStatus
  <2>6. CASE Transition(r)
    BY <2>6, <1>0, ReplyTyped, GotoTyped DEF Transition, RowsTyped, rows, At
  <2>7. CASE TransitionUpdate(r)
    <3>1. req[r].to \in Target
      BY <2>7 DEF TransitionUpdate, At, TypeOK, HasArguments
    <3>. QED
      BY <3>1, <2>7, <1>0, ReplyTyped, GotoTyped
      DEF TransitionUpdate, From, RowsTyped, RideStatus, Target, At
  <2>8. CASE TransitionAnnounce(r)
    <3>1. req[r].to \in Target
      BY <2>8 DEF TransitionAnnounce, At, TypeOK, HasArguments
    <3>. QED  BY <3>1, <2>8, <1>0, ReplyTyped DEF TransitionAnnounce, RowsTyped, rows
  <2>9. CASE LeaveRide(r)
    BY <2>9, <1>0, ReplyTyped DEF LeaveRide, RowsTyped, PartStatus
  <2>10. CASE RemoveParticipant(r)
    BY <2>10, <1>0, ReplyTyped DEF RemoveParticipant, RowsTyped, PartStatus
  <2>11. CASE SetMyStatus(r)
    <3>1. req[r].st \in PartStatus
      BY <2>11, StatusAssumption DEF SetMyStatus, At, TypeOK, HasArguments, PartStatus
    <3>. QED
      BY <3>1, <2>11, <1>0, ReplyTyped DEF SetMyStatus, RowsTyped
  <2>12. CASE IngestRideLocations(r)
    BY <2>12, <1>0, ReplyTyped, GotoTyped DEF IngestRideLocations, RowsTyped, rows, At
  <2>13. CASE IngestTx(r)
    <3>1. req[r].me \in Users
      BY <2>0, <2>13 DEF IngestTx, At
    <3>. QED  BY <3>1, <2>13, <1>0, IngestTyped
  <2>14. CASE IngestAnnounce(r)
    BY <2>14, <1>0, ReplyTyped DEF IngestAnnounce, RowsTyped, rows
  <2>15. CASE WsRide(r)
    BY <2>15, <1>0, ReplyTyped, GotoTyped DEF WsRide, RowsTyped, rows, At
  <2>16. CASE WsRideJoin(r)
    BY <2>0, <2>16, <1>0, ReplyTyped DEF WsRideJoin, RowsTyped, rows, At
  <2>17. CASE DeleteMe(r)
    BY <2>0, <2>17, <1>0, ReplyTyped DEF DeleteMe, RowsTyped, RideStatus, PartStatus, At
  <2>. QED
    BY <1>2, <2>1, <2>2, <2>3, <2>4, <2>5, <2>6, <2>7, <2>8, <2>9, <2>10, <2>11, <2>12,
       <2>13, <2>14, <2>15, <2>16, <2>17 DEF Handler
<1>3. ASSUME NEW r \in Requests, Abort(r) PROVE RowsTyped' /\ RequestsTyped'
  BY <1>0, <1>3, ReplyTyped DEF Abort, RowsTyped, rows
<1>4. ASSUME NEW u \in Users, Disconnect(u) PROVE RowsTyped' /\ RequestsTyped'
  BY <1>0, <1>4 DEF Disconnect, RowsTyped, rows, TypeOK, RequestsTyped
<1>5. ASSUME NEW cutoff \in Times, Cleanup(cutoff) PROVE RowsTyped' /\ RequestsTyped'
  BY <1>0, <1>5 DEF Cleanup, RowsTyped, TypeOK, RequestsTyped
<1>6. CASE Crash
  <2>1. Idle \in Request /\ HasArguments(Idle)
    BY DEF Idle, Call, Request, Locations, RideStatus, PartStatus, HasArguments
  <2>. QED  BY <1>0, <1>6, <2>1 DEF Crash, RowsTyped, rows, RequestsTyped
<1>7. CASE UNCHANGED vars
  BY <1>0, <1>7 DEF vars, RowsTyped, TypeOK, RequestsTyped
<1>. QED  BY <1>1, <1>2, <1>3, <1>4, <1>5, <1>6, <1>7 DEF Next

\* Type correctness, for any number of accounts, requests and times.
THEOREM TypeCorrect == Spec => []TypeOK
  BY TypeInit, TypeStep, PTL DEF Spec

-----------------------------------------------------------------------------
(* Safety.                                                                 *)

\* Nobody has a row before the ride exists.
NoRowsYet == rideStatus = "none" => \A u \in Users : part[u] = ""

\* What the row says of its start: started_at is set once a ride is live and
\* stays, whatever becomes of the ride.
StartOnRecord ==
    /\ rideStatus \in {"live", "ended"} => started
    /\ rideStatus \in {"none", "scheduled"} => ~started

\* A status a request is about to announce has not been announced yet.
NotYetTold ==
    \A r \in Requests : At(r, "transition.announce") => announced[req[r].to] = 0

\* The inductive invariant: the safety invariants need what the requests in
\* flight rely on (StableReads), and each other only through it.
IInv ==
    /\ TypeOK
    /\ NoRowsYet
    /\ StartOnRecord
    /\ NotYetTold
    /\ StableReads
    /\ HostOnBoard
    /\ TrailImpliesStart
    /\ SnapshotCoversTrail
    /\ AnnouncedWasCommitted
    /\ OneTransitionWins
    /\ FeedOnlyForRiders

\* What no step takes back: rows stay, the ride stays with its host, a ride
\* that started stays started, ended and cancelled are final.
Forward ==
    /\ \A u \in Users : part[u] # "" => part'[u] # ""
    /\ rideStatus # "none" => rideStatus' # "none" /\ host' = host
    /\ started => started'
    /\ rideStatus \in {"ended", "cancelled"} => rideStatus' = rideStatus /\ started' = started
    /\ deleted \subseteq deleted'

\* No step takes a ride back, loses its host or a participant's row.
LEMMA ForwardStep == TypeOK /\ [Next]_vars => Forward
<1> SUFFICES ASSUME TypeOK, [Next]_vars PROVE Forward
  OBVIOUS
<1>1. ASSUME NEW r \in Requests, Handler(r) PROVE Forward
  <2>0. /\ req[r].at \in {"transition.update"} => req[r].to \in {"live", "ended", "cancelled"}
        /\ req[r].at \in {"SetMyStatus", "Ingest.tx"} => req[r].st \in SetStatuses \cup {""}
        /\ req[r].at = "SetMyStatus" => req[r].st # ""
    BY StatusAssumption DEF TypeOK, HasArguments, ValidParticipantStatus, Target
  <2>1. CASE CreateRide(r)
    BY <2>1 DEF CreateRide, Forward, TypeOK
  <2>2. CASE JoinRideInsert(r) \/ JoinRideRejoin(r)
    BY <2>2 DEF JoinRideInsert, JoinRideRejoin, Forward, TypeOK
  <2>3. CASE TransitionUpdate(r)
    BY <2>0, <2>3 DEF TransitionUpdate, From, At, Forward, TypeOK
  <2>4. CASE LeaveRide(r) \/ RemoveParticipant(r)
    BY <2>4 DEF LeaveRide, RemoveParticipant, Forward, TypeOK
  <2>5. CASE SetMyStatus(r)
    BY <2>0, <2>5 DEF SetMyStatus, At, Gone, Forward, TypeOK
  <2>6. CASE IngestTx(r)
    BY <2>0, <2>6 DEF IngestTx, At, Forward, TypeOK
  <2>7. CASE DeleteMe(r)
    BY <2>7 DEF DeleteMe, Gone, Forward, TypeOK
  <2>8. CASE UNCHANGED rows
    BY <2>8 DEF rows, Forward
  <2>. QED
    BY <1>1, <2>1, <2>2, <2>3, <2>4, <2>5, <2>6, <2>7, <2>8
    DEF Handler, JoinRide, JoinRidePrev, Transition, TransitionAnnounce, IngestRideLocations,
        IngestAnnounce, WsRide, WsRideJoin, rows
<1>2. ASSUME NEW r \in Requests, NEW u \in Users, Arrive(r, u) PROVE Forward
  BY <1>2, ArrivalIsCall DEF Accept, rows, Forward
<1>3. CASE UNCHANGED <<rideStatus, started, host, part, deleted>>
  BY <1>3 DEF Forward
<1>. QED
  BY <1>1, <1>2, <1>3 DEF Next, Abort, Disconnect, Cleanup, Crash, rows, vars

\* started_at is written by the statement that makes the ride live, and by
\* no other.
LEMMA StartStep == TypeOK /\ StartOnRecord /\ [Next]_vars => StartOnRecord'
<1> SUFFICES ASSUME TypeOK, StartOnRecord, [Next]_vars PROVE StartOnRecord'
  OBVIOUS
<1>1. CASE UNCHANGED <<rideStatus, started>>
  BY <1>1 DEF StartOnRecord
<1>2. CASE ~UNCHANGED <<rideStatus, started>>
  <2>1. PICK r \in Requests : CreateRide(r) \/ TransitionUpdate(r) \/ DeleteMe(r)
    BY <1>2 DEF Next, Arrive, Accept, Handler, JoinRide, JoinRidePrev, JoinRideInsert,
       JoinRideRejoin, Transition, TransitionAnnounce, LeaveRide, RemoveParticipant, SetMyStatus,
       IngestRideLocations, IngestTx, IngestAnnounce, WsRide, WsRideJoin, Abort, Disconnect,
       Cleanup, Crash, rows, vars
  <2>2. CASE CreateRide(r)
    BY <2>2 DEF CreateRide, StartOnRecord
  <2>3. CASE TransitionUpdate(r)
    <3>1. req[r].to \in {"live", "ended", "cancelled"}
      BY <2>3 DEF TransitionUpdate, At, TypeOK, HasArguments, Target
    <3>. QED  BY <2>3, <3>1, <1>2 DEF TransitionUpdate, From, StartOnRecord
  <2>4. CASE DeleteMe(r)
    BY <2>4 DEF DeleteMe, StartOnRecord
  <2>. QED  BY <2>1, <2>2, <2>3, <2>4
<1>. QED  BY <1>1, <1>2

\* A request that did not move still stands on what it read.
LEMMA StableOther ==
    ASSUME TypeOK, Forward, NEW s \in Requests, StableAt(s), req'[s] = req[s]
    PROVE  StableAt(s)'
<1>1. req[s].at # "idle" => req[s].me \in Users
  BY DEF TypeOK, HasArguments
<1>2. /\ started => started'
      /\ rideStatus = "ended" => rideStatus' = "ended"
      /\ rideStatus = "cancelled" /\ ~started => rideStatus' = "cancelled" /\ ~started'
  BY DEF Forward
<1>3. /\ \A u \in Users : part[u] # "" => part'[u] # ""
      /\ rideStatus # "none" => rideStatus' # "none" /\ host' = host
  BY DEF Forward
<1>4. (req[s].at \in {"JoinRide.prev", "JoinRide.insert", "JoinRide.rejoin"} => rideStatus' # "none")
      /\ (req[s].at \in {"JoinRide.rejoin", "Ingest.tx", "wsRide.join"} => part'[req[s].me] # "")
      /\ (req[s].at = "transition.update" => rideStatus' # "none" /\ host' = req[s].me)
  BY <1>1, <1>3 DEF StableAt
<1>5. req[s].at = "Ingest.tx" => started'
  BY <1>2 DEF StableAt
<1>6. req[s].at = "transition.announce" =>
          \/ req[s].to = "live" /\ started'
          \/ req[s].to = "ended" /\ rideStatus' = "ended"
          \/ req[s].to = "cancelled" /\ rideStatus' = "cancelled" /\ ~started'
  BY <1>2 DEF StableAt
<1>. QED  BY <1>4, <1>5, <1>6 DEF StableAt

\* A request at one of these locations relies on nothing it read.
LEMMA StableFresh ==
    ASSUME NEW s \in Requests,
           req'[s].at \in {"idle", "Ingest.announce"} \cup Rest
    PROVE  StableAt(s)'
  BY DEF StableAt, Rest

\* What a handler read and relies on survives the steps of all the others.
LEMMA StableStep == TypeOK /\ StartOnRecord /\ StableReads /\ [Next]_vars => StableReads'
<1> SUFFICES ASSUME TypeOK, StartOnRecord, StableReads, [Next]_vars, NEW s \in Requests
             PROVE  StableAt(s)'
  BY DEF StableReads
<1>0. StableAt(s) /\ Forward
  BY ForwardStep DEF StableReads
<1>1. ASSUME NEW r \in Requests, NEW u \in Users, Arrive(r, u) PROVE StableAt(s)'
  <2>1. PICK q \in Request : q.at \in Rest /\ req' = [req EXCEPT ![r] = q]
    BY <1>1, ArrivalIsCall DEF Accept
  <2>2. CASE s = r
    BY <2>1, <2>2, StableFresh DEF TypeOK
  <2>3. CASE s # r
    BY <2>1, <2>3, <1>0, StableOther DEF TypeOK
  <2>. QED  BY <2>2, <2>3
<1>2. ASSUME NEW r \in Requests, Reply(r) PROVE StableAt(s)'
  BY <1>0, <1>2, ReplyFacts, StableOther, StableFresh
<1>3. ASSUME NEW r \in Requests, Handler(r), ~Reply(r) PROVE StableAt(s)'
  <2>1. CASE s # r
    <3>1. \E q : req' = [req EXCEPT ![r] = q]
      BY <1>3 DEF Handler, CreateRide, JoinRide, JoinRidePrev, JoinRideInsert, JoinRideRejoin,
         Transition, TransitionUpdate, TransitionAnnounce, LeaveRide, RemoveParticipant,
         SetMyStatus, IngestRideLocations, IngestTx, IngestAnnounce, WsRide, WsRideJoin,
         DeleteMe, Goto
    <3>2. req'[s] = req[s]
      BY <2>1, <3>1 DEF TypeOK
    <3>. QED  BY <3>2, <1>0, StableOther
  <2>2. CASE s = r
    <3>1. CASE JoinRide(r)
      <4>1. Goto(r, "JoinRide.prev") /\ rideStatus # "none" /\ UNCHANGED rows
        BY <1>3, <3>1 DEF JoinRide
      <4>. QED  BY <2>2, <4>1, GotoFacts DEF StableAt, rows, Locations
    <3>2. CASE JoinRidePrev(r)
      <4>1. /\ \/ Goto(r, "JoinRide.insert")
               \/ Goto(r, "JoinRide.rejoin") /\ part[req[r].me] # ""
            /\ rideStatus # "none" /\ UNCHANGED rows
        BY <1>0, <1>3, <2>2, <3>2 DEF JoinRidePrev, StableAt, At
      <4>. QED  BY <2>2, <4>1, GotoFacts DEF StableAt, rows, Locations
    <3>3. CASE Transition(r)
      <4>1. /\ Goto(r, "transition.update") /\ UNCHANGED rows
            /\ rideStatus # "none" /\ host = req[r].me
        BY <1>3, <3>3 DEF Transition
      <4>. QED  BY <2>2, <4>1, GotoFacts DEF StableAt, rows, Locations
    <3>4. CASE TransitionUpdate(r)
      <4>1. /\ Goto(r, "transition.announce") /\ rideStatus' = req[r].to
            /\ rideStatus = From(req[r].to) /\ started' = (started \/ req[r].to = "live")
        BY <1>3, <3>4 DEF TransitionUpdate
      <4>2. req[r].to \in {"live", "ended", "cancelled"}
        BY <3>4 DEF TransitionUpdate, At, TypeOK, HasArguments, Target
      <4>3. \/ req[r].to = "live" /\ started'
            \/ req[r].to = "ended" /\ rideStatus' = "ended"
            \/ req[r].to = "cancelled" /\ rideStatus' = "cancelled" /\ ~started'
        BY <4>1, <4>2 DEF From, StartOnRecord
      <4>4. req'[r].at = "transition.announce" /\ req'[r].to = req[r].to
        BY <4>1, GotoFacts DEF Locations
      <4>. QED  BY <2>2, <4>3, <4>4 DEF StableAt
    <3>5. CASE IngestRideLocations(r)
      <4>1. /\ Goto(r, "Ingest.tx") /\ UNCHANGED rows
            /\ rideStatus = "live" /\ part[req[r].me] # ""
        BY <1>3, <3>5 DEF IngestRideLocations, Gone
      <4>2. /\ started' /\ part'[req'[r].me] # ""
            /\ req'[r].at = "Ingest.tx"
        BY <4>1, GotoFacts DEF rows, Locations, StartOnRecord
      <4>. QED  BY <2>2, <4>2 DEF StableAt
    <3>6. CASE IngestTx(r)
      <4>1. req' = [req EXCEPT ![r] = Call("Ingest.announce", req[r].me, NoUser, "none", "", {})]
        BY <1>3, <3>6 DEF IngestTx
      <4>2. req'[r].at = "Ingest.announce"
        BY <4>1 DEF TypeOK, Call
      <4>. QED  BY <2>2, <4>2, StableFresh
    <3>7. CASE WsRide(r)
      <4>1. Goto(r, "wsRide.join") /\ UNCHANGED rows /\ part[req[r].me] # ""
        BY <1>3, <3>7 DEF WsRide, Gone
      <4>2. part'[req'[r].me] # "" /\ req'[r].at = "wsRide.join"
        BY <4>1, GotoFacts DEF rows, Locations
      <4>. QED  BY <2>2, <4>2 DEF StableAt
    <3>. QED
      BY <1>3, <3>1, <3>2, <3>3, <3>4, <3>5, <3>6, <3>7
      DEF Handler, CreateRide, JoinRideInsert, JoinRideRejoin, TransitionAnnounce, LeaveRide,
          RemoveParticipant, SetMyStatus, IngestAnnounce, WsRideJoin, DeleteMe
  <2>. QED  BY <2>1, <2>2
<1>4. CASE UNCHANGED req
  BY <1>0, <1>4, StableOther
<1>5. CASE Crash
  BY <1>5, StableFresh DEF Crash, Idle, Call
<1>. QED
  BY <1>1, <1>2, <1>3, <1>4, <1>5 DEF Next, Abort, Disconnect, Cleanup, vars

\* The host's row survives every statement but the host's own DeleteMe.
LEMMA HostStep == TypeOK /\ StableReads /\ HostOnBoard /\ [Next]_vars => HostOnBoard'
<1> SUFFICES ASSUME TypeOK, StableReads, HostOnBoard, [Next]_vars, rideStatus' # "none"
             PROVE  /\ part'[host'] \notin {"", "removed"}
                    /\ part'[host'] = "left" => host' \in deleted'
  BY DEF HostOnBoard
<1>0. Forward /\ TypeOK' /\ (rideStatus # "none" => host \in Users)
  BY ForwardStep, TypeStep DEF TypeOK
<1>1. CASE rideStatus = "none"
  <2>1. PICK r \in Requests : CreateRide(r)
    BY <1>1 DEF Next, Arrive, Accept, Handler, JoinRide, JoinRidePrev, JoinRideInsert,
       JoinRideRejoin, Transition, TransitionUpdate, TransitionAnnounce, LeaveRide,
       RemoveParticipant, SetMyStatus, IngestRideLocations, IngestTx, IngestAnnounce, WsRide,
       WsRideJoin, DeleteMe, Abort, Disconnect, Cleanup, Crash, rows, vars, From
  <2>2. host' = req[r].me /\ part' = [part EXCEPT ![req[r].me] = "joined"] /\ host' \in Users
    BY <2>1, <1>0 DEF CreateRide, TypeOK
  <2>. QED  BY <2>2 DEF TypeOK
<1>2. CASE rideStatus # "none" /\ part'[host] = part[host]
  BY <1>0, <1>2 DEF HostOnBoard, Forward
<1>3. CASE rideStatus # "none" /\ part'[host] # part[host]
  <2>1. PICK r \in Requests : Handler(r)
    BY <1>3 DEF Next, Arrive, Accept, Abort, Disconnect, Cleanup, Crash, rows, vars
  <2>2. /\ host \in Users /\ host' = host /\ part[host] \notin {"", "removed"}
        /\ req[r].at = "SetMyStatus" => req[r].st \in ValidParticipantStatus
        /\ req[r].at = "Ingest.tx" => req[r].st \in ValidParticipantStatus \cup {""}
    BY <1>0, <1>3, StatusAssumption DEF HostOnBoard, Forward, TypeOK, HasArguments
  <2>3. CASE JoinRideInsert(r) \/ JoinRideRejoin(r)
    BY <1>3, <2>2, <2>3 DEF JoinRideInsert, JoinRideRejoin, TypeOK
  <2>4. CASE LeaveRide(r) \/ RemoveParticipant(r)
    BY <1>3, <2>2, <2>4 DEF LeaveRide, RemoveParticipant, TypeOK
  <2>5. CASE SetMyStatus(r)
    BY <1>3, <2>2, <2>5 DEF SetMyStatus, At, ValidParticipantStatus, TypeOK
  <2>6. CASE IngestTx(r)
    BY <1>3, <2>2, <2>6 DEF IngestTx, At, ValidParticipantStatus, TypeOK
  <2>7. CASE DeleteMe(r)
    BY <1>3, <2>2, <2>7 DEF DeleteMe, TypeOK
  <2>. QED
    BY <1>3, <2>1, <2>3, <2>4, <2>5, <2>6, <2>7
    DEF Handler, CreateRide, JoinRide, JoinRidePrev, Transition, TransitionUpdate,
        TransitionAnnounce, IngestRideLocations, IngestAnnounce, WsRide, WsRideJoin, rows
<1>. QED  BY <1>1, <1>2, <1>3

\* Points are only added by an upload that found the ride live, and the
\* snapshot moves with them.
LEMMA TrailStep ==
    TypeOK /\ StableReads /\ TrailImpliesStart /\ SnapshotCoversTrail /\ [Next]_vars
        => TrailImpliesStart' /\ SnapshotCoversTrail'
<1> SUFFICES ASSUME TypeOK, StableReads, TrailImpliesStart, SnapshotCoversTrail, [Next]_vars
             PROVE  TrailImpliesStart' /\ SnapshotCoversTrail'
  OBVIOUS
<1>0. Forward
  BY ForwardStep
<1>1. CASE points' \subseteq points /\ seen' = seen
  BY <1>0, <1>1 DEF TrailImpliesStart, SnapshotCoversTrail, Forward
<1>2. CASE ~(points' \subseteq points /\ seen' = seen)
  <2>1. PICK r \in Requests : IngestTx(r)
    BY <1>2 DEF Next, Arrive, Accept, Handler, CreateRide, JoinRide, JoinRidePrev, JoinRideInsert,
       JoinRideRejoin, Transition, TransitionUpdate, TransitionAnnounce, LeaveRide,
       RemoveParticipant, SetMyStatus, IngestRideLocations, IngestAnnounce, WsRide,
       WsRideJoin, DeleteMe, Abort, Disconnect, Cleanup, Crash, rows, vars
  <2> DEFINE u == req[r].me
             batch == req[r].batch
  <2>2. u \in Users /\ batch \in SUBSET Times /\ batch # {}
    BY <2>1 DEF IngestTx, At, TypeOK, HasArguments, Request
  <2>3. started
    BY <2>1 DEF IngestTx, At, StableReads, StableAt
  <2>4. TrailImpliesStart'
    BY <1>0, <2>3 DEF TrailImpliesStart, Forward
  <2>5. Last(batch) \in Nat /\ \A t \in batch : t \in Nat /\ t <= Last(batch)
    BY <2>2, LastIsNewest, TimeAssumption DEF Times
  <2>6. seen \in [Users -> Nat] /\ points \subseteq Users \X Nat
    BY TimeAssumption DEF TypeOK, Times
  <2>7. points' = points \cup ({u} \X batch)
    BY <2>1 DEF IngestTx
  <2>8. /\ \A v \in Users : seen'[v] \in Nat /\ seen[v] <= seen'[v]
        /\ Last(batch) <= seen'[u]
    <3>1. CASE Fresh(r)
      <4>1. seen' = [seen EXCEPT ![u] = Last(batch)] /\ seen[u] <= Last(batch)
        BY <2>1, <3>1 DEF IngestTx, Fresh
      <4> HIDE DEF u, batch
      <4>. QED  BY <2>2, <2>5, <2>6, <4>1
    <3>2. CASE ~Fresh(r)
      <4>1. seen' = seen /\ ~(seen[u] <= Last(batch))
        BY <2>1, <3>2 DEF IngestTx, Fresh
      <4> HIDE DEF u, batch
      <4>. QED  BY <2>2, <2>5, <2>6, <4>1
    <3>. QED  BY <3>1, <3>2
  <2>9. ASSUME NEW p \in points' PROVE p[2] <= seen'[p[1]]
    <3>1. CASE p \in points
      <4>1. p[1] \in Users /\ p[2] \in Nat /\ p[2] <= seen[p[1]]
        BY <2>6, <3>1 DEF SnapshotCoversTrail
      <4>. QED  BY <2>6, <2>8, <4>1
    <3>2. CASE p \in {u} \X batch
      <4>1. p[1] = u /\ p[2] \in batch
        BY <3>2
      <4>2. p[2] \in Nat /\ p[2] <= Last(batch)
        BY <2>5, <4>1
      <4>3. seen'[u] \in Nat
        BY <2>2, <2>8
      <4>. QED  BY <2>5, <2>8, <4>1, <4>2, <4>3
    <3>. QED  BY <2>7, <2>9, <3>1, <3>2
  <2>. QED  BY <2>4, <2>9 DEF SnapshotCoversTrail
<1>. QED  BY <1>1, <1>2

\* A request comes to announce a status only by winning the update.
LEMMA AnnouncerIsUpdater ==
    ASSUME TypeOK, [Next]_vars, NEW x \in Requests,
           At(x, "transition.announce")', req'[x] # req[x]
    PROVE  \E z \in Requests : TransitionUpdate(z) /\ Goto(z, "transition.announce")
<1>1. ASSUME NEW r \in Requests, Reply(r) PROVE FALSE
  BY <1>1, ReplyFacts DEF At
<1>2. ASSUME NEW r \in Requests, NEW u \in Users, Arrive(r, u) PROVE FALSE
  <2>1. PICK q \in Request : q.at \in Rest /\ req' = [req EXCEPT ![r] = q]
    BY <1>2, ArrivalIsCall DEF Accept
  <2>. QED  BY <2>1 DEF TypeOK, At, Rest
<1>3. ASSUME NEW r \in Requests, NEW l \in Locations, Goto(r, l), l # "transition.announce"
      PROVE  FALSE
  BY <1>3, GotoFacts DEF At
<1>4. ASSUME NEW r \in Requests, IngestTx(r) PROVE FALSE
  <2>1. CASE Reply(r)
    BY <1>1, <2>1
  <2>2. CASE req' = [req EXCEPT ![r] = Call("Ingest.announce", req[r].me, NoUser, "none", "", {})]
    BY <2>2 DEF TypeOK, At, Call
  <2>. QED  BY <1>4, <2>1, <2>2 DEF IngestTx
<1>5. PICK r \in Requests : Handler(r)
  <2>1. CASE UNCHANGED req
    BY <2>1
  <2>2. CASE Crash
    BY <2>2 DEF Crash, Idle, Call, At
  <2>. QED
    BY <1>1, <1>2, <2>1, <2>2 DEF Next, Abort, Disconnect, Cleanup, vars
<1>6. {"JoinRide.prev", "JoinRide.insert", "JoinRide.rejoin", "transition.update", "Ingest.tx",
       "wsRide.join"} \subseteq Locations
  BY DEF Locations
<1>. QED
  BY <1>1, <1>3, <1>4, <1>5, <1>6
  DEF Handler, CreateRide, JoinRide, JoinRidePrev, JoinRideInsert, JoinRideRejoin,
      Transition, TransitionUpdate, TransitionAnnounce, LeaveRide, RemoveParticipant,
      SetMyStatus, IngestRideLocations, IngestAnnounce, WsRide, WsRideJoin, DeleteMe

\* The winner of a race moved the row before it announced, so a loser finds
\* the row in a status it may not leave.
LEMMA AnnounceStep ==
    ASSUME TypeOK, StartOnRecord, StableReads, AnnouncedWasCommitted, NotYetTold,
           OneTransitionWins, [Next]_vars
    PROVE  AnnouncedWasCommitted' /\ NotYetTold' /\ OneTransitionWins'
<1>0. /\ Forward /\ TypeOK'
      /\ \A r \in Requests : At(r, "transition.announce") => req[r].to \in Target
  BY ForwardStep, TypeStep DEF TypeOK, HasArguments, At
<1>1. \/ announced' = announced
      \/ \E r \in Requests : TransitionAnnounce(r)
  BY DEF Next, Arrive, Accept, Handler, CreateRide, JoinRide, JoinRidePrev,
     JoinRideInsert, JoinRideRejoin, Transition, TransitionUpdate, LeaveRide,
     RemoveParticipant, SetMyStatus, IngestRideLocations, IngestTx, IngestAnnounce, WsRide,
     WsRideJoin, DeleteMe, Abort, Disconnect, Cleanup, Crash, vars
<1>2. ASSUME NEW r \in Requests, TransitionAnnounce(r)
      PROVE  /\ req[r].to \in Target /\ announced[req[r].to] = 0
             /\ announced' = [announced EXCEPT ![req[r].to] = 1]
             /\ UNCHANGED rows
             /\ StableAt(r) /\ req[r].at = "transition.announce"
  <2>1. req[r].to \in Target /\ announced[req[r].to] = 0 /\ At(r, "transition.announce")
    BY <1>0, <1>2 DEF TransitionAnnounce, NotYetTold
  <2>2. announced' = [announced EXCEPT ![req[r].to] = announced[req[r].to] + 1]
    BY <1>2 DEF TransitionAnnounce
  <2>3. announced[req[r].to] + 1 = 1
    BY <2>1
  <2>4. announced' = [announced EXCEPT ![req[r].to] = 1]
    BY <2>2, <2>3
  <2>. QED  BY <1>2, <2>1, <2>4 DEF TransitionAnnounce, StableReads, At
<1>3. AnnouncedWasCommitted'
  <2>1. CASE announced' = announced
    <3>1. announced["live"] \in Nat /\ announced["ended"] \in Nat /\ announced["cancelled"] \in Nat
      BY DEF TypeOK, Target
    <3>. QED  BY <1>0, <2>1, <3>1 DEF AnnouncedWasCommitted, Forward
  <2>2. CASE \E r \in Requests : TransitionAnnounce(r)
    <3>1. PICK r \in Requests : TransitionAnnounce(r)
      BY <2>2
    <3>2. announced \in [Target -> Nat] /\ "live" \in Target /\ "ended" \in Target
          /\ "cancelled" \in Target
      BY DEF TypeOK, Target
    <3>3. PICK to \in Target : to = req[r].to
      BY <1>2, <3>1
    <3>4. /\ announced' = [announced EXCEPT ![to] = 1]
          /\ UNCHANGED <<rideStatus, started>>
      BY <1>2, <3>1, <3>3 DEF rows
    <3>5. \/ to = "live" /\ started
          \/ to = "ended" /\ rideStatus = "ended"
          \/ to = "cancelled" /\ rideStatus = "cancelled" /\ ~started
      BY <1>2, <3>1, <3>3 DEF StableAt
    <3>6. \A x \in Target : announced'[x] = IF x = to THEN 1 ELSE announced[x]
      BY <3>2, <3>4
    <3>7. \A x \in Target : announced'[x] <= 1
      BY <3>6 DEF AnnouncedWasCommitted
    <3>8. announced'["live"] > 0 => started'
      BY <3>2, <3>4, <3>5, <3>6 DEF AnnouncedWasCommitted
    <3>9. announced'["ended"] > 0 => rideStatus' = "ended"
      BY <3>2, <3>4, <3>5, <3>6 DEF AnnouncedWasCommitted
    <3>10. announced'["cancelled"] > 0 => rideStatus' = "cancelled" /\ ~started'
      BY <3>2, <3>4, <3>5, <3>6 DEF AnnouncedWasCommitted
    <3>. QED  BY <3>7, <3>8, <3>9, <3>10 DEF AnnouncedWasCommitted
  <2>. QED  BY <1>1, <2>1, <2>2
\* A status about to be announced by a request that has just won the update.
<1>4. ASSUME NEW x \in Requests, At(x, "transition.announce")', req'[x] # req[x]
      PROVE  /\ req'[x].to = req[x].to /\ req[x].to \in {"live", "ended", "cancelled"}
             /\ rideStatus = From(req[x].to) /\ announced' = announced
             /\ \A y \in Requests \ {x} : req'[y] = req[y]
  <2>1. PICK z \in Requests : TransitionUpdate(z) /\ Goto(z, "transition.announce")
    BY <1>4, AnnouncerIsUpdater
  <2>2. x = z /\ req'[x].to = req[x].to /\ \A y \in Requests \ {x} : req'[y] = req[y]
    BY <1>4, <2>1, GotoFacts DEF Locations
  <2>3. req[x].to \in {"live", "ended", "cancelled"}
    BY <2>1, <2>2 DEF TransitionUpdate, At, TypeOK, HasArguments, Target
  <2>4. rideStatus = From(req[x].to)
    <3>1. ~Reply(x)
      BY <1>4, ReplyFacts DEF At
    <3>. QED  BY <2>1, <2>2, <3>1 DEF TransitionUpdate
  <2>5. announced' = announced
    BY <2>1 DEF TransitionUpdate
  <2>. QED  BY <2>2, <2>3, <2>4, <2>5
<1>5. NotYetTold'
  <2> SUFFICES ASSUME NEW x \in Requests, At(x, "transition.announce")'
               PROVE  announced'[req'[x].to] = 0
    BY DEF NotYetTold
  <2>1. CASE req'[x] # req[x]
    <3>1. /\ req'[x].to \in {"live", "ended", "cancelled"}
          /\ rideStatus = From(req'[x].to) /\ announced' = announced
      BY <1>4, <2>1
    <3>2. announced["live"] \in Nat /\ announced["ended"] \in Nat /\ announced["cancelled"] \in Nat
      BY DEF TypeOK, Target
    <3>3. CASE req'[x].to = "live"
      BY <3>1, <3>2, <3>3 DEF From, StartOnRecord, AnnouncedWasCommitted
    <3>4. CASE req'[x].to = "ended"
      BY <3>1, <3>2, <3>4 DEF From, AnnouncedWasCommitted
    <3>5. CASE req'[x].to = "cancelled"
      BY <3>1, <3>2, <3>5 DEF From, AnnouncedWasCommitted
    <3>. QED  BY <3>1, <3>3, <3>4, <3>5
  <2>2. CASE req'[x] = req[x]
    <3>1. At(x, "transition.announce") /\ announced[req[x].to] = 0
      BY <2>2 DEF At, NotYetTold
    <3>2. CASE announced' = announced
      BY <2>2, <3>1, <3>2
    <3>3. ASSUME NEW r \in Requests, TransitionAnnounce(r) PROVE announced'[req'[x].to] = 0
      <4>1. x # r
        BY <2>2, <3>1, <3>3, ReplyFacts DEF TransitionAnnounce, At
      <4>2. {req[x].to, req[r].to} = {"live", "ended"} /\ "live" # "ended"
        BY <3>1, <3>3, <4>1 DEF TransitionAnnounce, OneTransitionWins
      <4>3. req[x].to # req[r].to
        BY <4>2
      <4>4. req[x].to \in Target /\ announced \in [Target -> Nat]
        BY <1>0, <3>1 DEF TypeOK
      <4>. QED  BY <1>2, <2>2, <3>1, <3>3, <4>3, <4>4
    <3>. QED  BY <1>1, <3>2, <3>3
  <2>. QED  BY <2>1, <2>2
<1>6. ASSUME NEW r \in Requests, NEW s \in Requests, r # s,
             At(r, "transition.announce")', At(s, "transition.announce")'
      PROVE  {req'[r].to, req'[s].to} = {"live", "ended"}
  <2>1. CASE req'[r] = req[r] /\ req'[s] = req[s]
    BY <1>6, <2>1 DEF OneTransitionWins, At
  <2>2. ASSUME NEW x \in Requests, NEW y \in Requests, x # y,
               At(x, "transition.announce")', At(y, "transition.announce")', req'[x] # req[x]
        PROVE  {req'[x].to, req'[y].to} = {"live", "ended"}
    <3>1. /\ req'[x].to = req[x].to /\ req[x].to \in {"live", "ended", "cancelled"}
          /\ rideStatus = From(req[x].to) /\ req'[y] = req[y]
      BY <1>4, <2>2
    <3>2. StableAt(y) /\ req[y].at = "transition.announce"
      BY <2>2, <3>1 DEF StableReads, At
    <3>3. req[x].to = "ended" /\ req[y].to = "live"
      BY <3>1, <3>2 DEF StableAt, From, StartOnRecord
    <3>. QED  BY <3>1, <3>3
  <2>. QED  BY <1>6, <2>1, <2>2
<1>. QED  BY <1>3, <1>5, <1>6 DEF OneTransitionWins

\* Only members connect, and rows are never deleted.
LEMMA FeedStep == TypeOK /\ StableReads /\ FeedOnlyForRiders /\ [Next]_vars => FeedOnlyForRiders'
<1> SUFFICES ASSUME TypeOK, StableReads, FeedOnlyForRiders, [Next]_vars PROVE FeedOnlyForRiders'
  OBVIOUS
<1>0. Forward /\ room \subseteq Users
  BY ForwardStep DEF TypeOK
<1>1. CASE room' \subseteq room
  BY <1>0, <1>1 DEF FeedOnlyForRiders, Forward
<1>2. CASE ~(room' \subseteq room)
  <2>1. PICK r \in Requests : WsRideJoin(r)
    BY <1>2 DEF Next, Arrive, Accept, Handler, CreateRide, JoinRide, JoinRidePrev,
       JoinRideInsert, JoinRideRejoin, Transition, TransitionUpdate, TransitionAnnounce,
       LeaveRide, RemoveParticipant, SetMyStatus, IngestRideLocations, IngestTx,
       IngestAnnounce, WsRide, DeleteMe, Abort, Disconnect, Cleanup, Crash, vars
  <2>2. part[req[r].me] # "" /\ part' = part /\ room' = room \cup {req[r].me}
    BY <2>1 DEF WsRideJoin, At, StableReads, StableAt, rows
  <2>. QED  BY <2>2 DEF FeedOnlyForRiders
<1>. QED  BY <1>1, <1>2

\* Every write that adds a row found the ride first.
LEMMA NoRowsStep ==
    TypeOK /\ StartOnRecord /\ StableReads /\ NoRowsYet /\ [Next]_vars => NoRowsYet'
<1> SUFFICES ASSUME TypeOK, StartOnRecord, StableReads, NoRowsYet, [Next]_vars,
                    rideStatus' = "none", NEW u \in Users
             PROVE  part'[u] = ""
  BY DEF NoRowsYet
<1>1. rideStatus = "none" /\ part[u] = ""
  BY ForwardStep DEF Forward, NoRowsYet
<1>2. CASE part' = part
  BY <1>1, <1>2
<1>3. CASE part' # part
  <2>1. PICK r \in Requests : Handler(r)
    BY <1>3 DEF Next, Arrive, Accept, Abort, Disconnect, Cleanup, Crash, rows, vars
  <2>2. StableAt(r)
    BY DEF StableReads
  <2>3. CASE LeaveRide(r) \/ RemoveParticipant(r) \/ SetMyStatus(r) \/ DeleteMe(r)
    BY <1>1, <2>3 DEF LeaveRide, RemoveParticipant, SetMyStatus, DeleteMe, Gone, TypeOK
  <2>4. ~(IngestTx(r) \/ JoinRideInsert(r) \/ JoinRideRejoin(r))
    BY <1>1, <2>2 DEF IngestTx, JoinRideInsert, JoinRideRejoin, At, StableAt, StartOnRecord
  <2>. QED
    BY <1>1, <1>3, <2>1, <2>3, <2>4
    DEF Handler, CreateRide, JoinRide, JoinRidePrev, Transition, TransitionUpdate,
        TransitionAnnounce, IngestRideLocations, IngestAnnounce, WsRide, WsRideJoin, rows
<1>. QED  BY <1>2, <1>3

\* The strengthened invariant is inductive: every handler keeps it.
LEMMA Inductive == IInv /\ [Next]_vars => IInv'
  BY TypeStep, NoRowsStep, StartStep, StableStep, HostStep, TrailStep, AnnounceStep, FeedStep
  DEF IInv

\* The strengthened invariant holds before the ride exists.
LEMMA IInvInit == Init => IInv
<1> SUFFICES ASSUME Init PROVE IInv
  OBVIOUS
<1>1. \A r \in Requests : req[r].at = "idle"
  BY DEF Init, Idle, Call
<1>2. TypeOK /\ StableReads /\ OneTransitionWins /\ NotYetTold
  BY <1>1, TypeInit DEF StableReads, StableAt, OneTransitionWins, NotYetTold, At
<1>3. \A to \in Target : announced[to] = 0
  BY DEF Init
<1>4. AnnouncedWasCommitted
  BY <1>3 DEF AnnouncedWasCommitted, Target
<1>. QED
  BY <1>2, <1>4 DEF Init, IInv, NoRowsYet, StartOnRecord, HostOnBoard, TrailImpliesStart,
     SnapshotCoversTrail, FeedOnlyForRiders

\* The inductive invariant holds throughout.
THEOREM Invariance == Spec => []IInv
  BY IInvInit, Inductive, PTL DEF Spec

\* The host of a ride can neither leave nor be removed: see HostOnBoard.
THEOREM HostStaysOnBoard == Spec => []HostOnBoard
<1>1. IInv => HostOnBoard
  BY DEF IInv
<1>. QED  BY <1>1, Invariance, PTL

\* What handlers read and rely on later stays true without locks.
THEOREM ReadsStayTrue == Spec => []StableReads
<1>1. IInv => StableReads
  BY DEF IInv
<1>. QED  BY <1>1, Invariance, PTL

\* Only a ride that was started has a trail, also once it is cancelled:
\* uploads and socket points are taken from members of a live ride, and
\* started_at, set when it became live, is never cleared.
THEOREM TrailNeedsAStart == Spec => []TrailImpliesStart
<1>1. IInv => TrailImpliesStart
  BY DEF IInv
<1>. QED  BY <1>1, Invariance, PTL

\* No stored point is newer than its owner's last known position, whatever
\* order uploads and socket points are written in.
THEOREM SnapshotKeepsUp == Spec => []SnapshotCoversTrail
<1>1. IInv => SnapshotCoversTrail
  BY DEF IInv
<1>. QED  BY <1>1, Invariance, PTL

\* The room hears of no status that was not committed, and of none twice,
\* with any number of host commands at once.
THEOREM NothingIsAnnouncedEarly == Spec => []AnnouncedWasCommitted
<1>1. IInv => AnnouncedWasCommitted
  BY DEF IInv
<1>. QED  BY <1>1, Invariance, PTL

\* Of transitions that race for the ride, one wins.
THEOREM RacesHaveOneWinner == Spec => []OneTransitionWins
<1>1. IInv => OneTransitionWins
  BY DEF IInv
<1>. QED  BY <1>1, Invariance, PTL

\* Whoever has a socket in the ride's room has a participant row: removed or
\* not, he once was let in.
THEOREM FeedIsForRiders == Spec => []FeedOnlyForRiders
<1>1. IInv => FeedOnlyForRiders
  BY DEF IInv
<1>. QED  BY <1>1, Invariance, PTL

-----------------------------------------------------------------------------
(* Refinement: every step is a move of RideLifecycle or leaves its         *)
(* variables alone.                                                        *)

\* The empty tables are an initial state of the abstract ride.
LEMMA LifecycleInit == Init => Lifecycle!Init
  BY DEF Init, Lifecycle!Init

\* Every step of a handler is a move of the abstract ride, or none.
LEMMA LifecycleStep == IInv /\ [Next]_vars => [Lifecycle!Next]_(Lifecycle!vars)
<1> SUFFICES ASSUME IInv, [Next]_vars PROVE Lifecycle!Next \/ UNCHANGED Lifecycle!vars
  OBVIOUS
<1>0. TypeOK /\ StableReads
  BY DEF IInv
<1>1. ASSUME NEW r \in Requests, Handler(r) PROVE Lifecycle!Next \/ UNCHANGED Lifecycle!vars
  <2> DEFINE u == req[r].me
  <2>0. At(r, "idle") \/ u \in Users
    BY <1>0 DEF TypeOK, HasArguments, At
  <2>1. CASE CreateRide(r)
    <3>1. Lifecycle!Open(u) /\ u \in Users
      BY <2>0, <2>1 DEF CreateRide, Lifecycle!Open, At
    <3>. QED  BY <3>1 DEF Lifecycle!Next
  <2>2. CASE JoinRideInsert(r) \/ JoinRideRejoin(r)
    <3>1. rideStatus # "none" /\ u \in Users
      BY <1>0, <2>0, <2>2 DEF JoinRideInsert, JoinRideRejoin, At, StableReads, StableAt
    <3>2. CASE part[u] \in {"", "left"} /\ part' # part
      <4>1. Lifecycle!Board(u)
        BY <1>0, <2>2, <3>1, <3>2 DEF JoinRideInsert, JoinRideRejoin, Lifecycle!Board, TypeOK
      <4>. QED  BY <3>1, <4>1 DEF Lifecycle!Next
    <3>3. CASE part' = part
      BY <2>2, <3>3 DEF JoinRideInsert, JoinRideRejoin, Lifecycle!vars
    <3>4. CASE part[u] \notin {"", "left"}
      <4>1. part' = [part EXCEPT ![u] = part[u]]
        BY <2>2, <3>4 DEF JoinRideInsert, JoinRideRejoin
      <4>2. part' = part
        BY <1>0, <4>1 DEF TypeOK
      <4>. QED  BY <2>2, <4>2 DEF JoinRideInsert, JoinRideRejoin, Lifecycle!vars
    <3>. QED  BY <3>2, <3>3, <3>4
  <2>3. CASE TransitionUpdate(r)
    <3>1. req[r].to \in {"live", "ended", "cancelled"}
      BY <1>0, <2>3 DEF TransitionUpdate, At, TypeOK, HasArguments, Target
    <3>2. CASE rideStatus = From(req[r].to)
      <4>1. Lifecycle!Move(req[r].to)
        BY <2>3, <3>1, <3>2 DEF TransitionUpdate, From, Lifecycle!Move
      <4>. QED  BY <3>1, <4>1 DEF Lifecycle!Next
    <3>3. CASE rideStatus # From(req[r].to)
      BY <2>3, <3>3 DEF TransitionUpdate, Lifecycle!vars
    <3>. QED  BY <3>2, <3>3
  <2>4. CASE LeaveRide(r)
    <3>0. u \in Users
      BY <2>0, <2>4 DEF LeaveRide, At
    <3>1. CASE rideStatus # "none" /\ host # u /\ part[u] \notin Gone
      <4>1. Lifecycle!Leave(u)
        BY <1>0, <2>4, <3>0, <3>1 DEF LeaveRide, Gone, Lifecycle!Leave, Lifecycle!Aboard, TypeOK
      <4>. QED  BY <3>0, <4>1 DEF Lifecycle!Next
    <3>2. CASE ~(rideStatus # "none" /\ host # u /\ part[u] \notin Gone)
      <4>1. part' = part
        BY <1>0, <2>4, <3>0, <3>2 DEF LeaveRide, TypeOK
      <4>. QED  BY <2>4, <4>1 DEF LeaveRide, Lifecycle!vars
    <3>. QED  BY <3>1, <3>2
  <2>5. CASE RemoveParticipant(r)
    <3> DEFINE v == req[r].target
    <3>0. v \in Users
      BY <1>0, <2>5 DEF RemoveParticipant, At, TypeOK, HasArguments
    <3>1. CASE rideStatus # "none" /\ host = u /\ v # u /\ part[v] # ""
      <4>1. Lifecycle!Remove(v)
        BY <1>0, <2>5, <3>0, <3>1 DEF RemoveParticipant, Lifecycle!Remove, TypeOK
      <4>. QED  BY <3>0, <4>1 DEF Lifecycle!Next
    <3>2. CASE ~(rideStatus # "none" /\ host = u /\ v # u /\ part[v] # "")
      <4>1. part' = part
        BY <1>0, <2>5, <3>0, <3>2 DEF RemoveParticipant, TypeOK
      <4>. QED  BY <2>5, <4>1 DEF RemoveParticipant, Lifecycle!vars
    <3>. QED  BY <3>1, <3>2
  <2>6. CASE SetMyStatus(r)
    <3>0. u \in Users /\ req[r].st \in SetStatuses
      BY <1>0, <2>0, <2>6 DEF SetMyStatus, At, TypeOK, HasArguments
    <3>1. CASE part[u] \notin Gone
      <4>1. Lifecycle!SetStatus(u, req[r].st)
        BY <1>0, <2>6, <3>0, <3>1
        DEF SetMyStatus, Gone, Lifecycle!SetStatus, Lifecycle!Aboard, TypeOK
      <4>. QED  BY <3>0, <4>1 DEF Lifecycle!Next
    <3>2. CASE part[u] \in Gone
      <4>1. part' = part
        BY <1>0, <2>6, <3>0, <3>2 DEF SetMyStatus, TypeOK
      <4>. QED  BY <2>6, <4>1 DEF SetMyStatus, Lifecycle!vars
    <3>. QED  BY <3>1, <3>2
  <2>7. CASE IngestTx(r)
    <3> DEFINE t == Last(req[r].batch)
    <3>0. /\ u \in Users /\ req[r].st \in SetStatuses \cup {""}
          /\ req[r].batch \in SUBSET Times /\ req[r].batch # {}
      BY <1>0, <2>0, <2>7 DEF IngestTx, At, TypeOK, HasArguments, Request
    <3>1. t \in 1..MaxTime
      BY <3>0, LastIsNewest DEF Times
    <3>2. started /\ part[u] # ""
      BY <1>0, <2>7 DEF IngestTx, At, StableReads, StableAt
    <3>3. CASE Fresh(r)
      <4>1. /\ seen' = [seen EXCEPT ![u] = t] /\ seen[u] <= t
            /\ part' = [part EXCEPT ![u] = IF req[r].st = "" THEN @ ELSE req[r].st]
            /\ UNCHANGED <<rideStatus, started, host, deleted>>
        BY <2>7, <3>3 DEF IngestTx, Fresh
      <4>2. Lifecycle!Report(u, t, req[r].st)
        BY <3>2, <4>1 DEF Lifecycle!Report
      <4>. QED  BY <3>0, <3>1, <4>2 DEF Lifecycle!Next
    <3>4. CASE ~Fresh(r)
      BY <2>7, <3>4 DEF IngestTx, Lifecycle!vars
    <3>. QED  BY <3>3, <3>4
  <2>8. CASE DeleteMe(r)
    <3>0. u \in Users
      BY <2>0, <2>8 DEF DeleteMe, At
    <3>1. CASE u \notin deleted
      <4>1. Lifecycle!Vanish(u)
        BY <2>8, <3>1 DEF DeleteMe, Gone, Lifecycle!Vanish, Lifecycle!Aboard
      <4>. QED  BY <3>0, <4>1 DEF Lifecycle!Next
    <3>2. CASE u \in deleted
      BY <2>8, <3>2 DEF DeleteMe, Lifecycle!vars
    <3>. QED  BY <3>1, <3>2
  <2>9. CASE UNCHANGED rows
    BY <2>9 DEF rows, Lifecycle!vars
  <2>. QED
    BY <1>1, <2>1, <2>2, <2>3, <2>4, <2>5, <2>6, <2>7, <2>8, <2>9
    DEF Handler, JoinRide, JoinRidePrev, Transition, TransitionAnnounce, IngestRideLocations,
        IngestAnnounce, WsRide, WsRideJoin
<1>2. ASSUME NEW r \in Requests, NEW u \in Users, Arrive(r, u) PROVE UNCHANGED Lifecycle!vars
  BY <1>2, ArrivalIsCall DEF Accept, rows, Lifecycle!vars
<1>3. CASE \E cutoff \in Times : Cleanup(cutoff)
  BY <1>3 DEF Cleanup, Lifecycle!vars
<1>4. CASE UNCHANGED rows
  BY <1>4 DEF rows, Lifecycle!vars
<1>. QED
  BY <1>1, <1>2, <1>3, <1>4 DEF Next, Abort, Disconnect, Crash, vars, rows

\* However its handlers interleave, fail or crash, the service implements
\* RideLifecycle.
THEOREM Refinement == Spec => ImplementsLifecycle
  BY LifecycleInit, LifecycleStep, Invariance, PTL DEF Spec, ImplementsLifecycle, Lifecycle!Spec

-----------------------------------------------------------------------------
(* What a step may never do.                                               *)

\* A ride's status moves along StatusForward's edges only: the abstract
\* moves are those edges.
THEOREM StatusMovesForward == Spec => StatusForward
<1>1. IInv /\ [Next]_vars =>
        [\/ rideStatus = "none" /\ rideStatus' = "scheduled"
         \/ rideStatus = "scheduled" /\ rideStatus' \in {"live", "cancelled"}
         \/ rideStatus = "live" /\ rideStatus' \in {"ended", "cancelled"}]_rideStatus
  BY LifecycleStep
  DEF Lifecycle!Next, Lifecycle!vars, Lifecycle!Open, Lifecycle!Move, Lifecycle!Board,
      Lifecycle!Leave, Lifecycle!Remove, Lifecycle!SetStatus, Lifecycle!Report, Lifecycle!Vanish
<1>. QED  BY <1>1, Invariance, PTL DEF Spec, StatusForward

\* The snapshot time of a participant never goes back.
THEOREM SnapshotMovesForward == Spec => SnapshotForward
<1>1. IInv /\ [Next]_vars => [\A u \in Users : seen'[u] >= seen[u]]_seen
  <2> SUFFICES ASSUME IInv, [Next]_vars, seen' # seen PROVE \A u \in Users : seen'[u] >= seen[u]
    OBVIOUS
  <2>1. seen \in [Users -> Nat]
    BY TimeAssumption DEF IInv, TypeOK
  <2>2. PICK u \in Users, t \in Nat : seen' = [seen EXCEPT ![u] = t] /\ seen[u] <= t
    <3>1. 1..MaxTime \subseteq Nat
      BY TimeAssumption
    <3>2. \E u \in Users, t \in 1..MaxTime : seen' = [seen EXCEPT ![u] = t] /\ seen[u] <= t
      BY LifecycleStep
      DEF Lifecycle!Next, Lifecycle!vars, Lifecycle!Open, Lifecycle!Move, Lifecycle!Board,
          Lifecycle!Leave, Lifecycle!Remove, Lifecycle!SetStatus, Lifecycle!Report,
          Lifecycle!Vanish
    <3>. QED  BY <3>1, <3>2
  <2>. QED  BY <2>1, <2>2
<1>. QED  BY <1>1, Invariance, PTL DEF Spec, SnapshotForward

\* Nothing but a location upload already past its check revives a removed
\* participant.
THEOREM RemovalOnlyRacesUploads == Spec => OnlyUploadsRevive
<1>1. IInv /\ [Next]_vars =>
        [\A u \in Users : part[u] = "removed" /\ part'[u] # "removed"
              => \E r \in Requests : At(r, "Ingest.tx") /\ req[r].me = u]_part
  <2> SUFFICES ASSUME IInv, [Next]_vars, NEW u \in Users,
                      part[u] = "removed", part'[u] # "removed"
               PROVE  \E r \in Requests : At(r, "Ingest.tx") /\ req[r].me = u
    OBVIOUS
  <2>0. TypeOK /\ rideStatus # "none"
    BY DEF IInv, NoRowsYet
  <2>1. PICK r \in Requests : Handler(r)
    BY DEF Next, Arrive, Accept, Abort, Disconnect, Cleanup, Crash, rows, vars
  <2>2. CASE IngestTx(r)
    BY <2>0, <2>2 DEF IngestTx, TypeOK, At
  <2>3. CASE CreateRide(r)
    BY <2>0, <2>3 DEF CreateRide
  <2>. QED
    BY <2>0, <2>1, <2>2, <2>3
    DEF Handler, JoinRide, JoinRidePrev, JoinRideInsert, JoinRideRejoin, Transition,
        TransitionUpdate, TransitionAnnounce, LeaveRide, RemoveParticipant, SetMyStatus,
        IngestRideLocations, IngestAnnounce, WsRide, WsRideJoin, DeleteMe, Gone, TypeOK, rows
<1>. QED  BY <1>1, Invariance, PTL DEF Spec, OnlyUploadsRevive

\* Every change of the ride's status and every removal is the work of a
\* request of the host's own, with any number of accounts and requests
\* (assertHost, and that a ride never changes hands).
THEOREM OnlyTheHostDecides == Spec => HostDecides
<1>1. ASSUME IInv, [Next]_vars,
             rideStatus' # rideStatus \/ \E u \in Users : part[u] # "removed" /\ part'[u] = "removed"
      PROVE  \E r \in Requests : req[r].me = host' /\ req'[r] # req[r]
  <2>10. "removed" \notin ValidParticipantStatus
    BY DEF ValidParticipantStatus
  <2>11. TypeOK /\ StableReads
    BY <1>1 DEF IInv
  <2>0. TypeOK /\ StableReads /\ "removed" \notin SetStatuses
    BY <2>10, <2>11, StatusAssumption
  <2>1. PICK r \in Requests : Handler(r)
    BY <1>1 DEF Next, Arrive, Accept, Abort, Disconnect, Cleanup, Crash, rows, vars
  <2>2. req[r] \in Request /\ part \in [Users -> PartStatus] /\ HasArguments(req[r]) /\ StableAt(r)
    BY <2>0 DEF TypeOK, StableReads
  <2>3. ASSUME Reply(r), req[r].at # "idle" PROVE req'[r] # req[r]
    BY <2>0, <2>3, ReplyFacts
  <2>4. CASE CreateRide(r)
    <3>1. req'[r] # req[r]
      BY <2>3, <2>4 DEF CreateRide, At
    <3>. QED  BY <2>4, <3>1 DEF CreateRide
  <2>5. CASE TransitionUpdate(r)
    <3>1. req'[r] # req[r]
      <4>1. CASE Goto(r, "transition.announce")
        BY <2>0, <2>5, <4>1, GotoFacts DEF TransitionUpdate, At, Locations
      <4>. QED  BY <2>3, <2>5, <4>1 DEF TransitionUpdate, At
    <3>2. req[r].me = host' \/ rideStatus' = rideStatus
      BY <2>2, <2>5 DEF TransitionUpdate, StableAt, At
    <3>. QED  BY <1>1, <2>5, <3>1, <3>2 DEF TransitionUpdate
  <2>6. CASE RemoveParticipant(r)
    <3>1. req'[r] # req[r]
      BY <2>3, <2>6 DEF RemoveParticipant, At
    <3>2. req[r].me = host \/ part' = part
      BY <2>2, <2>6 DEF RemoveParticipant
    <3>. QED  BY <1>1, <2>6, <3>1, <3>2 DEF RemoveParticipant
  <2>7. CASE DeleteMe(r)
    <3>1. req'[r] # req[r]
      BY <2>3, <2>7 DEF DeleteMe, At
    <3>2. \A u \in Users : part'[u] = "removed" => part[u] = "removed"
      BY <2>2, <2>7 DEF DeleteMe
    <3>3. rideStatus' # rideStatus => req[r].me = host /\ host' = host
      BY <2>7 DEF DeleteMe
    <3>. QED  BY <1>1, <3>1, <3>2, <3>3
  <2>8. CASE SetMyStatus(r) \/ IngestTx(r) \/ LeaveRide(r) \/ JoinRideInsert(r) \/ JoinRideRejoin(r)
    <3>1. rideStatus' = rideStatus
      BY <2>8 DEF SetMyStatus, IngestTx, LeaveRide, JoinRideInsert, JoinRideRejoin
    <3>2. \A u \in Users : part'[u] = "removed" => part[u] = "removed"
      BY <2>0, <2>2, <2>8
      DEF SetMyStatus, IngestTx, LeaveRide, JoinRideInsert, JoinRideRejoin, HasArguments, At
    <3>. QED  BY <1>1, <3>1, <3>2
  <2>9. CASE UNCHANGED <<rideStatus, part>>
    BY <1>1, <2>9
  <2>. QED
    BY <2>1, <2>4, <2>5, <2>6, <2>7, <2>8, <2>9
    DEF Handler, JoinRide, JoinRidePrev, Transition, TransitionAnnounce, IngestRideLocations,
        IngestAnnounce, WsRide, WsRideJoin, rows
<1>2. IInv /\ [Next]_vars =>
        [(rideStatus' # rideStatus \/ \E u \in Users : part[u] # "removed" /\ part'[u] = "removed")
              => \E r \in Requests : req[r].me = host' /\ req'[r] # req[r]]_vars
  BY <1>1
<1>. QED  BY <1>2, Invariance, PTL DEF Spec, HostDecides
==============================================================================
