--------------------------- MODULE FriendService ---------------------------
(***************************************************************************)
(* Friendships (service/friends.go).  A row of `friendships' is directed,  *)
(* from who asked to who was asked, and there may be one each way.         *)
(* RequestFriend reads the rows of its pair FOR UPDATE and writes some     *)
(* statements later; the other operations are one statement each.          *)
(*                                                                         *)
(* ShareService puts these actions to use; req holds its requests too.     *)
(***************************************************************************)
CONSTANTS
    Users,      \* accounts
    Requests    \* handler goroutines that may run at the same time

VARIABLES
    friendship, \* friendships.status per pair, "" without a row
    gone,       \* users with deleted_at set
    req         \* the requests in flight

friendVars == <<friendship, gone>>

Pairs == {p \in Users \X Users : p[1] # p[2]}
Between(a, b) == {<<a, b>>, <<b, a>>} \cap Pairs
Friends(a, b) == \E p \in Between(a, b) : friendship[p] = "accepted"

FriendStatus == {"", "pending", "accepted", "declined"}

Idle == [at |-> "idle"]
At(r, location) == req[r].at = location
Reply(r) == req' = [req EXCEPT ![r] = Idle]

\* RequestFriend, of the first of the pair for the second; rows are those its
\* SELECT found and that still are: "lock" waits for their locks, "write" has
\* them.
FriendRequest ==
    [at : {"RequestFriend", "RequestFriend.lock", "RequestFriend.write"},
     pair : Pairs, rows : SUBSET Pairs]

Mine(r) == req[r].pair
Theirs(r) == <<req[r].pair[2], req[r].pair[1]>>

\* Rows are deleted: a SELECT that waits for them will not return them.
Forget(rows) ==
    [s \in Requests |-> IF At(s, "RequestFriend.lock")
                           THEN [req[s] EXCEPT !.rows = @ \ rows] ELSE req[s]]

\* Fault: the SELECT is not FOR UPDATE.
FreeUnlocked(r, rows) == TRUE

\* Nobody else has locked one of these rows.
Free(r, rows) ==
    \A s \in Requests \ {r} : At(s, "RequestFriend.write") => req[s].rows \cap rows = {}

-----------------------------------------------------------------------------
(* RequestFriend                                                           *)

\* The middleware accepted a, and b's name belongs to an account.
RequestFriend(r, a, b) ==
    /\ At(r, "idle")
    /\ a # b /\ {a, b} \cap gone = {}
    /\ req' = [req EXCEPT ![r] = [at |-> "RequestFriend", pair |-> <<a, b>>, rows |-> {}]]
    /\ UNCHANGED friendVars

RequestFriendSelect(r) ==
    /\ At(r, "RequestFriend")
    /\ req' = [req EXCEPT ![r].at = "RequestFriend.lock",
                          ![r].rows = {p \in {Mine(r), Theirs(r)} : friendship[p] # ""}]
    /\ UNCHANGED friendVars

\* The rows it has got the locks of, by the status they have by then.
Found(r, status) == {p \in req[r].rows : friendship[p] = status}

Locked(r) == At(r, "RequestFriend.lock") /\ Free(r, req[r].rows)

\* 409: friends already, or asked already.
RequestFriendConflict(r) ==
    /\ Locked(r)
    /\ \/ Found(r, "accepted") # {}
       \/ Theirs(r) \notin Found(r, "pending") /\ Mine(r) \in Found(r, "pending")
    /\ Reply(r)
    /\ UNCHANGED friendVars

\* They have asked me.  The row is locked: nothing comes before the UPDATE.
RequestFriendAccept(r) ==
    /\ Locked(r)
    /\ Found(r, "accepted") = {}
    /\ Theirs(r) \in Found(r, "pending")
    /\ friendship' = [friendship EXCEPT ![Theirs(r)] = "accepted"]
    /\ Reply(r)
    /\ UNCHANGED gone

\* Only declined rows, or none.
RequestFriendReopen(r) ==
    /\ Locked(r)
    /\ Found(r, "accepted") \cup Found(r, "pending") = {}
    /\ req' = [req EXCEPT ![r].at = "RequestFriend.write"]
    /\ UNCHANGED friendVars

\* Fault: the DELETE runs whether or not the SELECT had found a row.
RequestFriendWriteClears(r) ==
    LET cleared == {Mine(r), Theirs(r)} IN
    /\ At(r, "RequestFriend.write")
    /\ Free(r, cleared)
    /\ friendship' = [p \in Pairs |->
           IF p = Mine(r) THEN "pending" ELSE IF p \in cleared THEN "" ELSE friendship[p]]
    /\ req' = [Forget(cleared) EXCEPT ![r] = Idle]
    /\ UNCHANGED gone

\* DELETE of every row of the pair, if it had found one, and INSERT; a row of
\* its own that has come meanwhile makes the INSERT fail.
RequestFriendWrite(r) ==
    LET cleared == IF req[r].rows = {} THEN {} ELSE {Mine(r), Theirs(r)} IN
    /\ At(r, "RequestFriend.write")
    /\ Free(r, cleared)
    /\ friendship' = [p \in Pairs |->
           IF p = Mine(r) /\ (p \in cleared \/ friendship[p] = "") THEN "pending"
           ELSE IF p \in cleared THEN "" ELSE friendship[p]]
    /\ req' = [Forget(cleared) EXCEPT ![r] = Idle]
    /\ UNCHANGED gone

-----------------------------------------------------------------------------
(* One statement each                                                      *)

\* b accepts what a asked.
AcceptFriend(a, b) ==
    /\ b \notin gone /\ friendship[<<a, b>>] = "pending"
    /\ friendship' = [friendship EXCEPT ![<<a, b>>] = "accepted"]
    /\ UNCHANGED <<gone, req>>

DeclineFriend(a, b) ==
    /\ b \notin gone /\ friendship[<<a, b>>] = "pending"
    /\ friendship' = [friendship EXCEPT ![<<a, b>>] = "declined"]
    /\ UNCHANGED <<gone, req>>

\* a withdraws what a asked.
CancelFriendRequest(a, b) ==
    /\ a \notin gone /\ friendship[<<a, b>>] = "pending"
    /\ friendship' = [friendship EXCEPT ![<<a, b>>] = ""]
    /\ req' = Forget({<<a, b>>})
    /\ UNCHANGED gone

\* The first statement of Unfriend.
EndFriendship(a, b) ==
    LET ended == {p \in Between(a, b) : friendship[p] = "accepted"} IN
    /\ friendship' = [p \in Pairs |-> IF p \in ended THEN "" ELSE friendship[p]]
    /\ req' = Forget(ended)
    /\ UNCHANGED gone

\* What DeleteMe does here; its DELETE waits for rows that are locked.
LeaveFriends(u) ==
    LET ended == {p \in Pairs : u \in {p[1], p[2]}} IN
    /\ \A s \in Requests : At(s, "RequestFriend.write") => req[s].rows \cap ended = {}
    /\ gone' = gone \cup {u}
    /\ friendship' = [p \in Pairs |-> IF p \in ended THEN "" ELSE friendship[p]]
    /\ req' = Forget(ended)
=============================================================================
