----------------------- MODULE CommunityServiceProofs -----------------------
(***************************************************************************)
(* The counters and the files of CommunityService, for any number of       *)
(* accounts, posts, comments, files and requests.                          *)
(***************************************************************************)
EXTENDS CommunityService, FiniteSetTheorems, TLAPS

Request == {Idle} \cup Call \cup Upload \cup Removal \cup Deletion

UploadLocations == {"CreatePost", "SetAvatar", "SetAvatar.update"}
RemovalLocations == {"cleanup", "removeFiles"}
DeletionLocations ==
    {"DeleteMe", "DeleteMe.likes", "DeleteMe.comments", "DeleteMe.count", "DeleteMe.commit"}

\* Where a request is tells which record it is.
LEMMA RequestCases ==
    ASSUME NEW q \in Request
    PROVE  /\ q.at = "idle" <=> q = Idle
           /\ q.at = "call" <=> q \in Call
           /\ q.at \in UploadLocations <=> q \in Upload
           /\ q.at \in RemovalLocations <=> q \in Removal
           /\ q.at \in DeletionLocations <=> q \in Deletion
           /\ q.at \in {"idle", "call"} \cup UploadLocations \cup RemovalLocations \cup DeletionLocations
           /\ q.at # "idle" => q.me \in Users /\ q.files \subseteq Files
  BY DEF Request, Idle, Call, Upload, Removal, Deletion,
         UploadLocations, RemovalLocations, DeletionLocations

-----------------------------------------------------------------------------
(* The inductive invariant                                                 *)

PostsTyped == author \in [Posts -> {{}} \cup {{u} : u \in Users}] /\ images \in [Posts -> SUBSET Files]
LikesTyped == likers \in [Posts -> SUBSET Users] /\ likeCount \in [Posts -> Nat]
CommentsTyped ==
    comments \in [Posts -> SUBSET (Users \X Comments)] /\ commentCount \in [Posts -> Nat]
UsersTyped == avatar \in [Users -> {{}} \cup {{f} : f \in Files}] /\ gone \subseteq Users
DiskTyped == disk \subseteq Files
RequestsTyped == req \in [Requests -> Request]

LEMMA TypeSplit ==
    TypeOK <=> PostsTyped /\ LikesTyped /\ CommentsTyped /\ UsersTyped /\ DiskTyped /\ RequestsTyped
  BY DEF TypeOK, PostsTyped, LikesTyped, CommentsTyped, UsersTyped, DiskTyped, RequestsTyped, Request

LEMMA TypeSplitNext ==
    TypeOK' <=> PostsTyped' /\ LikesTyped' /\ CommentsTyped' /\ UsersTyped' /\ DiskTyped' /\ RequestsTyped'
  BY DEF TypeOK, PostsTyped, LikesTyped, CommentsTyped, UsersTyped, DiskTyped, RequestsTyped, Request

\* Uploads hold one file at most, once they are an avatar's.
OneAvatar ==
    \A r \in Requests : req[r].at \in {"SetAvatar", "SetAvatar.update"} =>
        req[r].files \in {{}} \cup {{f} : f \in Files}

\* A counter is about rows that can be counted, and a post that is not there has none.
FinitelyMany == \A p \in Posts : IsFiniteSet(likers[p]) /\ IsFiniteSet(comments[p])

Vacant ==
    \A p \in Posts : author[p] = {} =>
        likers[p] = {} /\ likeCount[p] = 0 /\ comments[p] = {} /\ commentCount[p] = 0

\* An account is deleted by one request at a time: the first has its row locked.
OneDeletion ==
    \A r, s \in Requests :
        req[r] \in Deletion /\ req[s] \in Deletion /\ req[r].me = req[s].me => r = s

\* A deletion that has found its user's likes knows of all there are, and of as
\* many comments: the locked row of the user keeps more from coming.
OwnComments(u, p) == {c \in comments[p] : c[1] = u}

LikesFound(q) ==
    q.at \in {"DeleteMe.likes", "DeleteMe.comments", "DeleteMe.count", "DeleteMe.commit"} =>
        \A p \in Posts : q.me \in likers[p] => p \in q.liked

CommentsFound(q) ==
    q.at \in {"DeleteMe.count", "DeleteMe.commit"} =>
        \A p \in Posts : Cardinality(OwnComments(q.me, p)) <= q.counted[p]

AllFound == \A r \in Requests : LikesFound(req[r]) /\ CommentsFound(req[r])

Inv == /\ TypeOK /\ OneAvatar
       /\ FinitelyMany /\ Vacant /\ OneDeletion /\ AllFound /\ NoCountTooHigh

LEMMA InvInit == Init => Inv
<1> SUFFICES ASSUME Init PROVE Inv
  OBVIOUS
<1>1. PostsTyped /\ LikesTyped /\ CommentsTyped /\ UsersTyped /\ DiskTyped /\ RequestsTyped
  BY DEF Init, PostsTyped, LikesTyped, CommentsTyped, UsersTyped, DiskTyped, RequestsTyped, Request
<1>2. FinitelyMany /\ NoCountTooHigh
  BY FS_EmptySet DEF Init, FinitelyMany, NoCountTooHigh
<1>3. Vacant
  BY DEF Init, Vacant
<1>4. \A r \in Requests : req[r].at = "idle" /\ req[r] \notin Deletion
  BY DEF Init, Idle, Deletion
<1>5. OneAvatar /\ OneDeletion /\ AllFound
  BY <1>4 DEF OneAvatar, OneDeletion, AllFound, LikesFound, CommentsFound
<1>. QED  BY <1>1, <1>2, <1>3, <1>5, TypeSplit DEF Inv

-----------------------------------------------------------------------------
(* Two kinds of steps                                                      *)

\* One request moves, the rows stay.
LEMMA MoveKeeps ==
    ASSUME Inv, NEW r \in Requests, NEW q \in Request, req' = [req EXCEPT ![r] = q],
           UNCHANGED <<author, likeVars, commentVars>>,
           PostsTyped', UsersTyped', DiskTyped',
           q.at \in {"SetAvatar", "SetAvatar.update"} => q.files \in {{}} \cup {{f} : f \in Files},
           q \in Deletion => \A s \in Requests \ {r} : req[s] \in Deletion => req[s].me # q.me,
           LikesFound(q), CommentsFound(q)
    PROVE  Inv'
<1>1. PostsTyped /\ LikesTyped /\ CommentsTyped /\ RequestsTyped
  BY TypeSplit DEF Inv
<1>2. RequestsTyped' /\ req'[r] = q /\ \A s \in Requests \ {r} : req'[s] = req[s]
  BY <1>1 DEF RequestsTyped
<1>3. LikesTyped' /\ CommentsTyped'
  BY <1>1 DEF LikesTyped, CommentsTyped, likeVars, commentVars
<1>4. TypeOK'
  BY <1>2, <1>3, TypeSplitNext
<1>5. OneAvatar'
  BY <1>2 DEF Inv, OneAvatar
<1>6. FinitelyMany' /\ Vacant' /\ NoCountTooHigh'
  BY DEF Inv, FinitelyMany, Vacant, NoCountTooHigh, likeVars, commentVars
<1>7. OneDeletion'
  BY <1>2 DEF Inv, OneDeletion
<1>8. \A s \in Requests : LikesFound(req'[s]) /\ CommentsFound(req'[s])
  BY <1>2 DEF Inv, AllFound
<1>9. AllFound'
  BY <1>8 DEF AllFound, LikesFound, CommentsFound, OwnComments, likeVars, commentVars
<1>. QED  BY <1>4, <1>5, <1>6, <1>7, <1>9 DEF Inv

\* One request that is no deletion, or is done, changes rows; the other deletions'
\* users get no more of them.
LEMMA RowsKeep ==
    ASSUME Inv, NEW r \in Requests, NEW q \in Request, req' = [req EXCEPT ![r] = q],
           q.at \in {"idle"} \cup RemovalLocations,
           TypeOK', FinitelyMany', Vacant', NoCountTooHigh',
           \A s \in Requests \ {r} : req[s] \in Deletion =>
               \A p \in Posts :
                   /\ req[s].me \in likers'[p] => req[s].me \in likers[p]
                   /\ {c \in comments'[p] : c[1] = req[s].me} \subseteq OwnComments(req[s].me, p)
    PROVE  Inv'
<1>1. RequestsTyped
  BY TypeSplit DEF Inv
<1>2. req'[r] = q /\ \A s \in Requests \ {r} : req'[s] = req[s]
  BY <1>1 DEF RequestsTyped
<1>3. q \notin Deletion /\ q.at \notin DeletionLocations /\ q.at \notin UploadLocations
  BY RequestCases DEF DeletionLocations, RemovalLocations, UploadLocations
<1>4. OneAvatar'
  BY <1>2, <1>3 DEF Inv, OneAvatar, UploadLocations
<1>5. OneDeletion'
  BY <1>2, <1>3 DEF Inv, OneDeletion
<1>6. ASSUME NEW s \in Requests PROVE (LikesFound(req[s]) /\ CommentsFound(req[s]))'
  <2>1. CASE s = r
    BY <1>2, <1>3, <2>1 DEF LikesFound, CommentsFound, DeletionLocations
  <2>2. CASE s # r
    <3>0. req'[s] = req[s] /\ LikesFound(req[s]) /\ CommentsFound(req[s])
      BY <1>2, <2>2 DEF Inv, AllFound
    <3>1. CASE req[s] \notin Deletion
      <4>1. req[s].at \notin DeletionLocations
        BY <1>1, <3>1, RequestCases DEF RequestsTyped
      <4>. QED  BY <3>0, <4>1 DEF LikesFound, CommentsFound, DeletionLocations
    <3>2. CASE req[s] \in Deletion
      <4>1. LikesFound(req[s])'
        BY <2>2, <3>0, <3>2 DEF LikesFound
      <4>2. ASSUME NEW p \in Posts, req[s].at \in {"DeleteMe.count", "DeleteMe.commit"}
            PROVE  Cardinality({c \in comments'[p] : c[1] = req[s].me}) <= req[s].counted[p]
        <5> DEFINE before == OwnComments(req[s].me, p)
                   after == {c \in comments'[p] : c[1] = req[s].me}
        <5>1. after \in SUBSET before
          BY <2>2, <3>2
        <5>2. IsFiniteSet(before)
          BY FS_Subset DEF Inv, FinitelyMany, OwnComments
        <5>3. Cardinality(after) <= Cardinality(before) /\ Cardinality(before) \in Nat /\ Cardinality(after) \in Nat
          <6>. HIDE DEF before, after
          <6>. QED  BY <5>1, <5>2, FS_Subset, FS_CardinalityType
        <5>4. Cardinality(before) <= req[s].counted[p] /\ req[s].counted[p] \in Nat
          BY <3>0, <3>2, <4>2 DEF CommentsFound, Deletion
        <5>. QED  BY <5>3, <5>4
      <4>3. CommentsFound(req[s])'
        BY <3>0, <4>2 DEF CommentsFound, OwnComments
      <4>. QED  BY <4>1, <4>3
    <3>. QED  BY <3>1, <3>2
  <2>. QED  BY <2>1, <2>2
<1>7. AllFound'
  BY <1>6 DEF AllFound
<1>. QED  BY <1>4, <1>5, <1>7 DEF Inv

\* A request that is no deletion has nothing to have found.
LEMMA QuietRequest ==
    ASSUME NEW q \in Request, q.at \notin DeletionLocations
    PROVE  q \notin Deletion /\ LikesFound(q) /\ CommentsFound(q)
  BY RequestCases DEF LikesFound, CommentsFound, DeletionLocations

LEMMA RemovalRequest ==
    ASSUME NEW u \in Users, NEW files \in SUBSET Files, NEW location \in RemovalLocations
    PROVE  LET q == [at |-> location, me |-> u, files |-> files]
           IN  q \in Request /\ q.at = location
  BY DEF Request, Removal, RemovalLocations

LEMMA IdleRequest == Idle \in Request /\ Idle.at = "idle"
  BY DEF Request, Idle

\* No rows change, and the request replies, or goes to remove files.
LEMMA QuietKeeps ==
    ASSUME Inv, NEW r \in Requests, NEW q \in Request, req' = [req EXCEPT ![r] = q],
           q.at \notin DeletionLocations,
           UNCHANGED <<author, likeVars, commentVars>>,
           PostsTyped', UsersTyped', DiskTyped',
           q.at \in {"SetAvatar", "SetAvatar.update"} => q.files \in {{}} \cup {{f} : f \in Files}
    PROVE  Inv'
  BY QuietRequest, MoveKeeps

LEMMA ReplyKeeps ==
    ASSUME Inv, NEW r \in Requests, Reply(r), UNCHANGED <<author, likeVars, commentVars>>,
           PostsTyped', UsersTyped', DiskTyped'
    PROVE  Inv'
  BY IdleRequest, QuietKeeps DEF Reply, DeletionLocations

LEMMA RemoveKeeps ==
    ASSUME Inv, NEW r \in Requests, req[r].at # "idle", NEW files \in SUBSET Files,
           NEW location \in RemovalLocations, Remove(r, location, files),
           UNCHANGED <<author, likeVars, commentVars>>,
           PostsTyped', UsersTyped', DiskTyped'
    PROVE  Inv'
<1>1. req[r].me \in Users
  BY TypeSplit, RequestCases DEF Inv, RequestsTyped
<1> DEFINE q == [at |-> location, me |-> req[r].me, files |-> files]
<1>2. q \in Request /\ q.at = location
  BY <1>1, RemovalRequest
<1>3. location \notin DeletionLocations /\ location \notin {"SetAvatar", "SetAvatar.update"}
  BY DEF RemovalLocations, DeletionLocations
<1>4. req' = [req EXCEPT ![r] = q]
  BY DEF Remove
<1>. HIDE DEF q
<1>. QED  BY <1>2, <1>3, <1>4, QuietKeeps

\* The types of what stays.
LEMMA UsersStay ==
    ASSUME Inv
    PROVE  /\ UNCHANGED postVars => PostsTyped'
           /\ UNCHANGED userVars => UsersTyped'
           /\ UNCHANGED disk => DiskTyped'
           /\ UNCHANGED likeVars => LikesTyped'
           /\ UNCHANGED commentVars => CommentsTyped'
  BY TypeSplit
  DEF Inv, PostsTyped, UsersTyped, DiskTyped, LikesTyped, CommentsTyped, postVars, userVars, likeVars, commentVars

-----------------------------------------------------------------------------
(* The steps                                                               *)

LEMMA ArrivalKeeps ==
    ASSUME Inv, NEW r \in Requests, NEW u \in Users, Arrival(r, u)
    PROVE  Inv'
<1>1. UNCHANGED <<author, likeVars, commentVars>> /\ PostsTyped' /\ UsersTyped' /\ DiskTyped'
  BY UsersStay DEF Arrival, CreatePost, SetAvatar, Accept, DeleteMe, postVars
<1>2. CASE CreatePost(r, u)
  <2> DEFINE q == [at |-> "CreatePost", me |-> u, files |-> {}, prev |-> {}]
  <2>1. q \in Request /\ q.at = "CreatePost" /\ q.at \notin DeletionLocations
    BY DEF Request, Upload, DeletionLocations
  <2>2. req' = [req EXCEPT ![r] = q]
    BY <1>2 DEF CreatePost
  <2>. HIDE DEF q
  <2>. QED  BY <1>1, <2>1, <2>2, QuietKeeps
<1>3. CASE SetAvatar(r, u)
  <2> DEFINE q == [at |-> "SetAvatar", me |-> u, files |-> {}, prev |-> {}]
  <2>1. q \in Request /\ q.files = {} /\ q.at \notin DeletionLocations
    BY DEF Request, Upload, DeletionLocations
  <2>2. req' = [req EXCEPT ![r] = q]
    BY <1>3 DEF SetAvatar
  <2>. HIDE DEF q
  <2>. QED  BY <1>1, <2>1, <2>2, QuietKeeps
<1>4. CASE Accept(r, u)
  <2> DEFINE q == [at |-> "call", me |-> u, files |-> {}]
  <2>1. q \in Request /\ q.at = "call" /\ q.at \notin DeletionLocations
    BY DEF Request, Call, DeletionLocations
  <2>2. req' = [req EXCEPT ![r] = q]
    BY <1>4 DEF Accept
  <2>. HIDE DEF q
  <2>. QED  BY <1>1, <2>1, <2>2, QuietKeeps
<1>5. CASE DeleteMe(r, u)
  <2> DEFINE q == [at |-> "DeleteMe", me |-> u, files |-> avatar[u] \cup ImagesOf(Of(u)),
                   liked |-> {}, counted |-> [p \in Posts |-> 0], locked |-> {}]
  <2>1. avatar[u] \cup ImagesOf(Of(u)) \in SUBSET Files
    BY TypeSplit DEF Inv, PostsTyped, UsersTyped, ImagesOf, Of
  <2>2. q \in Request /\ q.at = "DeleteMe" /\ q.me = u
    BY <2>1 DEF Request, Deletion
  <2>3. req' = [req EXCEPT ![r] = q]
    BY <1>5 DEF DeleteMe
  <2>4. \A s \in Requests \ {r} : req[s] \in Deletion => req[s].me # u
    BY <1>5 DEF DeleteMe, UserFree, Deleting
  <2>. HIDE DEF q
  <2>5. LikesFound(q) /\ CommentsFound(q)
    BY <2>2 DEF LikesFound, CommentsFound
  <2>. QED  BY <1>1, <2>2, <2>3, <2>4, <2>5, MoveKeeps
<1>. QED  BY <1>2, <1>3, <1>4, <1>5 DEF Arrival

\* The row of a new post: nobody has liked or counted it.
LEMMA CreatePostInsertKeeps ==
    ASSUME Inv, NEW r \in Requests, CreatePostInsert(r)
    PROVE  Inv'
<1>0. PostsTyped /\ RequestsTyped
  BY TypeSplit DEF Inv
<1>1. req[r] \in Upload /\ req[r].me \in Users /\ req[r].files \in SUBSET Files /\ req[r].at = "CreatePost"
  BY <1>0, RequestCases DEF CreatePostInsert, At, RequestsTyped, UploadLocations
<1>2. PICK p \in Posts :
        /\ ~Exists(p)
        /\ author' = [author EXCEPT ![p] = {req[r].me}]
        /\ images' = [images EXCEPT ![p] = req[r].files]
  BY DEF CreatePostInsert
<1>3. PICK q \in Request : req' = [req EXCEPT ![r] = q] /\ q.at \in {"idle"} \cup RemovalLocations
  <2>1. CASE Reply(r)
    BY <2>1, IdleRequest DEF Reply
  <2>2. CASE Remove(r, "cleanup", req[r].files)
    <3> DEFINE q == [at |-> "cleanup", me |-> req[r].me, files |-> req[r].files]
    <3>1. "cleanup" \in RemovalLocations
      BY DEF RemovalLocations
    <3>2. q \in Request /\ q.at \in RemovalLocations
      BY <1>1, <3>1, RemovalRequest
    <3>3. req' = [req EXCEPT ![r] = q]
      BY <2>2 DEF Remove
    <3>. HIDE DEF q
    <3>. QED  BY <3>2, <3>3
  <2>. QED  BY <2>1, <2>2 DEF CreatePostInsert
<1>4. UNCHANGED <<likeVars, commentVars, userVars, disk>>
  BY DEF CreatePostInsert
<1>5. PostsTyped'
  BY <1>0, <1>1, <1>2 DEF PostsTyped
<1>6. TypeOK'
  BY <1>0, <1>3, <1>4, <1>5, UsersStay, TypeSplitNext DEF RequestsTyped
<1>7. FinitelyMany' /\ NoCountTooHigh'
  BY <1>4 DEF Inv, FinitelyMany, NoCountTooHigh, likeVars, commentVars
<1>8. Vacant'
  BY <1>0, <1>2, <1>4 DEF Inv, Vacant, PostsTyped, likeVars, commentVars
<1>9. likers' = likers /\ comments' = comments
  BY <1>4 DEF likeVars, commentVars
<1>. QED  BY <1>3, <1>6, <1>7, <1>8, <1>9, RowsKeep DEF OwnComments

LEMMA UploadingKeeps ==
    ASSUME Inv, NEW r \in Requests, Uploading(r)
    PROVE  Inv'
<1>0. req[r] \in Request /\ UsersTyped /\ DiskTyped
  BY TypeSplit DEF Inv, RequestsTyped
<1>1. CASE SaveImage(r)
  <2>1. req[r] \in Upload
    BY <1>0, <1>1, RequestCases DEF SaveImage, Saves, At, UploadLocations
  <2>2. PICK f \in Files, g \in Files : disk' = disk \cup {f, g} /\ req' = [req EXCEPT ![r].files = @ \cup {f}]
    BY <1>1 DEF SaveImage, NewFiles
  <2> DEFINE q == [req[r] EXCEPT !.files = @ \cup {f}]
  <2>3. q \in Request /\ q.at = req[r].at /\ q.files = req[r].files \cup {f}
    BY <2>1 DEF Upload, Request
  <2>4. q.at \notin DeletionLocations /\ (q.at \in {"SetAvatar", "SetAvatar.update"} => q.files = {f})
    BY <1>1, <2>3 DEF SaveImage, Saves, At, DeletionLocations
  <2>5. req' = [req EXCEPT ![r] = q]
    BY <2>2
  <2>6. UNCHANGED <<author, likeVars, commentVars>> /\ PostsTyped' /\ UsersTyped'
    BY <1>1, UsersStay DEF SaveImage, postVars
  <2>7. DiskTyped'
    BY <1>0, <2>2 DEF DiskTyped
  <2>. HIDE DEF q
  <2>. QED  BY <2>3, <2>4, <2>5, <2>6, <2>7, QuietKeeps
<1>2. CASE CreatePostInsert(r)
  BY <1>2, CreatePostInsertKeeps
<1>3. CASE SetAvatarFind(r)
  <2>1. req[r] \in Upload /\ req[r].at = "SetAvatar" /\ req[r].me \in Users
    BY <1>0, <1>3, RequestCases DEF SetAvatarFind, At, UploadLocations
  <2> DEFINE q == [req[r] EXCEPT !.at = "SetAvatar.update", !.prev = avatar[req[r].me]]
  <2>2. avatar[req[r].me] \in SUBSET Files
    BY <1>0, <2>1 DEF UsersTyped
  <2>3. q \in Request /\ q.at = "SetAvatar.update" /\ q.files = req[r].files
    BY <2>1, <2>2 DEF Upload, Request
  <2>4. q.at \notin DeletionLocations /\ q.files \in {{}} \cup {{f} : f \in Files}
    BY <2>1, <2>3 DEF DeletionLocations, Inv, OneAvatar
  <2>5. req' = [req EXCEPT ![r] = q]
    BY <1>3 DEF SetAvatarFind
  <2>6. UNCHANGED <<author, likeVars, commentVars>> /\ PostsTyped' /\ UsersTyped' /\ DiskTyped'
    BY <1>3, UsersStay DEF SetAvatarFind, postVars
  <2>. HIDE DEF q
  <2>. QED  BY <2>3, <2>4, <2>5, <2>6, QuietKeeps
<1>4. CASE SetAvatarUpdate(r)
  <2>1. req[r] \in Upload /\ req[r].at = "SetAvatar.update" /\ req[r].me \in Users /\ req[r].files \in SUBSET Files
    BY <1>0, <1>4, RequestCases DEF SetAvatarUpdate, At, UploadLocations
  <2>2. req[r].prev \in SUBSET Files /\ req[r].files \in {{}} \cup {{f} : f \in Files}
    BY <2>1 DEF Upload, Inv, OneAvatar
  <2>3. UsersTyped'
    BY <1>0, <1>4, <2>1, <2>2 DEF SetAvatarUpdate, UsersTyped
  <2>4. UNCHANGED <<author, likeVars, commentVars>> /\ PostsTyped' /\ DiskTyped'
    BY <1>4, UsersStay DEF SetAvatarUpdate, postVars
  <2>5. {"cleanup", "removeFiles"} \subseteq RemovalLocations
    BY DEF RemovalLocations
  <2>. QED  BY <1>4, <2>1, <2>2, <2>3, <2>4, <2>5, RemoveKeeps DEF SetAvatarUpdate
<1>5. CASE UploadFails(r)
  <2>1. req[r].at # "idle" /\ req[r].files \in SUBSET Files
    BY <1>0, <1>5, RequestCases DEF UploadFails, At
  <2>2. UNCHANGED <<author, likeVars, commentVars>> /\ PostsTyped' /\ UsersTyped' /\ DiskTyped'
    BY <1>5, UsersStay DEF UploadFails, postVars
  <2>3. "cleanup" \in RemovalLocations
    BY DEF RemovalLocations
  <2>. QED  BY <1>5, <2>1, <2>2, <2>3, RemoveKeeps DEF UploadFails
<1>6. CASE RemoveFiles(r)
  <2>1. UNCHANGED <<author, likeVars, commentVars>> /\ PostsTyped' /\ UsersTyped'
    BY <1>6, UsersStay DEF RemoveFiles, postVars
  <2>2. DiskTyped'
    BY <1>0, <1>6 DEF RemoveFiles, DiskTyped
  <2>. QED  BY <1>6, <2>1, <2>2, ReplyKeeps DEF RemoveFiles
<1>7. CASE SaveImageFails(r)
  <2>1. req[r].at # "idle" /\ req[r].files \in SUBSET Files
    BY <1>0, <1>7, RequestCases DEF SaveImageFails, Saves, At
  <2>2. UNCHANGED <<author, likeVars, commentVars>> /\ PostsTyped' /\ UsersTyped'
    BY <1>7, UsersStay DEF SaveImageFails, postVars
  <2>3. DiskTyped'
    BY <1>0, <1>7 DEF SaveImageFails, NewFiles, DiskTyped
  <2>4. "cleanup" \in RemovalLocations
    BY DEF RemovalLocations
  <2>. QED  BY <1>7, <2>1, <2>2, <2>3, <2>4, RemoveKeeps DEF SaveImageFails
<1>. QED  BY <1>1, <1>2, <1>3, <1>4, <1>5, <1>6, <1>7 DEF Uploading

LEMMA AbortKeeps ==
    ASSUME Inv, NEW r \in Requests, Abort(r)
    PROVE  Inv'
<1>1. UNCHANGED <<author, likeVars, commentVars>> /\ PostsTyped' /\ UsersTyped' /\ DiskTyped'
  BY UsersStay DEF Abort, postVars
<1>. QED  BY <1>1, ReplyKeeps DEF Abort

LEMMA CrashKeeps ==
    ASSUME Inv, Crash
    PROVE  Inv'
<1>1. UNCHANGED <<postVars, likeVars, commentVars, userVars, disk>>
  BY DEF Crash
<1>2. RequestsTyped'
  BY IdleRequest DEF Crash, RequestsTyped
<1>3. TypeOK'
  BY <1>1, <1>2, UsersStay, TypeSplitNext
<1>4. \A r \in Requests : req'[r] = Idle /\ Idle \notin Deletion /\ Idle.at = "idle"
  BY DEF Crash, Idle, Deletion
<1>5. OneAvatar' /\ OneDeletion' /\ AllFound'
  BY <1>4 DEF OneAvatar, OneDeletion, AllFound, LikesFound, CommentsFound
<1>6. FinitelyMany' /\ Vacant' /\ NoCountTooHigh'
  BY <1>1 DEF Inv, FinitelyMany, Vacant, NoCountTooHigh, postVars, likeVars, commentVars
<1>. QED  BY <1>3, <1>5, <1>6 DEF Inv

-----------------------------------------------------------------------------
(* The counters                                                            *)

\* A set with its counter becomes another: no counter too high, none further behind.
Counted(rows, count, oldRows, oldCount) ==
    /\ IsFiniteSet(rows) /\ count <= Cardinality(rows)
    /\ Cardinality(rows) - count <= Cardinality(oldRows) - oldCount

CountsKept ==
    \A p \in Posts : /\ Counted(likers'[p], likeCount'[p], likers[p], likeCount[p])
                     /\ Counted(comments'[p], commentCount'[p], comments[p], commentCount[p])

LEMMA RowSteps ==
    ASSUME NEW rows, IsFiniteSet(rows), NEW count \in Nat, count <= Cardinality(rows), NEW x
    PROVE  /\ Counted(rows, count, rows, count)
           /\ Counted({}, 0, rows, count)
           /\ x \notin rows => Counted(rows \cup {x}, count + 1, rows, count)
           /\ x \in rows => Counted(rows \ {x}, Less(count, 1), rows, count)
<1>1. Cardinality(rows) \in Nat
  BY FS_CardinalityType
<1>2. IsFiniteSet({}) /\ Cardinality({}) = 0
  BY FS_EmptySet
<1>3. /\ IsFiniteSet(rows \cup {x})
      /\ x \notin rows => Cardinality(rows \cup {x}) = Cardinality(rows) + 1
  BY FS_AddElement
<1>4. /\ IsFiniteSet(rows \ {x})
      /\ x \in rows => Cardinality(rows \ {x}) = Cardinality(rows) - 1 /\ Cardinality(rows) > 0
  BY <1>1, FS_RemoveElement, FS_EmptySet
<1>. QED  BY <1>1, <1>2, <1>3, <1>4 DEF Counted, Less

LEMMA StaySteps ==
    ASSUME Inv, NEW p \in Posts
    PROVE  /\ Counted(likers[p], likeCount[p], likers[p], likeCount[p])
           /\ Counted(comments[p], commentCount[p], comments[p], commentCount[p])
           /\ IsFiniteSet(likers[p]) /\ likeCount[p] \in Nat /\ likeCount[p] <= Cardinality(likers[p])
           /\ IsFiniteSet(comments[p]) /\ commentCount[p] \in Nat
           /\ commentCount[p] <= Cardinality(comments[p])
<1>1. LikesTyped /\ CommentsTyped
  BY TypeSplit DEF Inv
<1>2. /\ IsFiniteSet(likers[p]) /\ likeCount[p] \in Nat /\ likeCount[p] <= Cardinality(likers[p])
      /\ IsFiniteSet(comments[p]) /\ commentCount[p] \in Nat
      /\ commentCount[p] <= Cardinality(comments[p])
  BY <1>1 DEF Inv, FinitelyMany, NoCountTooHigh, LikesTyped, CommentsTyped
<1>. QED  BY <1>2, RowSteps

LEMMA DeletePostCounts ==
    ASSUME Inv, NEW r \in Requests, NEW p \in Posts, DeletePost(r, p)
    PROVE  CountsKept
<1>1. ASSUME NEW q \in Posts
      PROVE  /\ Counted(likers'[q], likeCount'[q], likers[q], likeCount[q])
             /\ Counted(comments'[q], commentCount'[q], comments[q], commentCount[q])
  <2>1. CASE q = p
    <3>1. likers'[q] = {} /\ likeCount'[q] = 0 /\ comments'[q] = {} /\ commentCount'[q] = 0
      BY <2>1 DEF DeletePost, DeleteLikes, DeleteComments, Without
    <3>. QED  BY <3>1, StaySteps, RowSteps
  <2>2. CASE q # p
    <3>1. /\ likers'[q] = likers[q] /\ likeCount'[q] = likeCount[q]
          /\ comments'[q] = comments[q] /\ commentCount'[q] = commentCount[q]
      BY <2>2 DEF DeletePost, DeleteLikes, DeleteComments, Without
    <3>. QED  BY <3>1, StaySteps
  <2>. QED  BY <2>1, <2>2
<1>. QED  BY <1>1 DEF CountsKept

\* The likes of one post change, by one row.
LEMMA LikeCounts ==
    ASSUME Inv, NEW r \in Requests, NEW p \in Posts, Like(r, p) \/ Unlike(r, p)
    PROVE  CountsKept
<1>0. LikesTyped
  BY TypeSplit DEF Inv
<1>1. UNCHANGED commentVars
  BY DEF Like, Unlike
<1>2. ASSUME NEW q \in Posts, q # p
      PROVE  Counted(likers'[q], likeCount'[q], likers[q], likeCount[q])
  <2>1. likers'[q] = likers[q] /\ likeCount'[q] = likeCount[q]
    BY <1>0, <1>2 DEF Like, Unlike, LikesTyped
  <2>. QED  BY <2>1, StaySteps
<1>3. Counted(likers'[p], likeCount'[p], likers[p], likeCount[p])
  <2>1. CASE Like(r, p)
    <3>1. /\ likers'[p] = likers[p] \cup {req[r].me} /\ likeCount'[p] = likeCount[p] + 1
          /\ req[r].me \notin likers[p]
      BY <1>0, <2>1 DEF Like, LikesTyped
    <3>2. IsFiniteSet(likers[p]) /\ likeCount[p] \in Nat /\ likeCount[p] <= Cardinality(likers[p])
      BY StaySteps
    <3>3. req[r].me \notin likers[p]
      BY <3>1
    <3>4. Counted(likers[p] \cup {req[r].me}, likeCount[p] + 1, likers[p], likeCount[p])
      BY <3>2, <3>3, RowSteps
    <3>. QED  BY <3>1, <3>4
  <2>2. CASE Unlike(r, p)
    <3>1. /\ likers'[p] = likers[p] \ {req[r].me} /\ likeCount'[p] = Less(likeCount[p], 1)
          /\ req[r].me \in likers[p]
      BY <1>0, <2>2 DEF Unlike, LikesTyped
    <3>2. IsFiniteSet(likers[p]) /\ likeCount[p] \in Nat /\ likeCount[p] <= Cardinality(likers[p])
      BY StaySteps
    <3>3. req[r].me \in likers[p]
      BY <3>1
    <3>4. Counted(likers[p] \ {req[r].me}, Less(likeCount[p], 1), likers[p], likeCount[p])
      BY <3>2, <3>3, RowSteps
    <3>. QED  BY <3>1, <3>4
  <2>. QED  BY <2>1, <2>2
<1>. QED  BY <1>1, <1>2, <1>3, StaySteps DEF CountsKept, commentVars

\* And the comments of one.
LEMMA CommentCounts ==
    ASSUME Inv, NEW r \in Requests, NEW p \in Posts, AddComment(r, p) \/ DeleteComment(r, p)
    PROVE  CountsKept
<1>0. CommentsTyped
  BY TypeSplit DEF Inv
<1>1. UNCHANGED likeVars
  BY DEF AddComment, DeleteComment
<1>2. ASSUME NEW q \in Posts, q # p
      PROVE  Counted(comments'[q], commentCount'[q], comments[q], commentCount[q])
  <2>1. comments'[q] = comments[q] /\ commentCount'[q] = commentCount[q]
    BY <1>0, <1>2 DEF AddComment, DeleteComment, CommentsTyped
  <2>. QED  BY <2>1, StaySteps
<1>3. Counted(comments'[p], commentCount'[p], comments[p], commentCount[p])
  <2>1. CASE AddComment(r, p)
    <3>1. PICK c : /\ c \notin comments[p] /\ comments'[p] = comments[p] \cup {c}
                   /\ commentCount'[p] = commentCount[p] + 1
      BY <1>0, <2>1 DEF AddComment, CommentsTyped
    <3>2. IsFiniteSet(comments[p]) /\ commentCount[p] \in Nat /\ commentCount[p] <= Cardinality(comments[p])
      BY StaySteps
    <3>3. c \notin comments[p]
      BY <3>1
    <3>4. Counted(comments[p] \cup {c}, commentCount[p] + 1, comments[p], commentCount[p])
      BY <3>2, <3>3, RowSteps
    <3>. QED  BY <3>1, <3>4
  <2>2. CASE DeleteComment(r, p)
    <3>1. PICK c : /\ c \in comments[p] /\ comments'[p] = comments[p] \ {c}
                   /\ commentCount'[p] = Less(commentCount[p], 1)
      BY <1>0, <2>2 DEF DeleteComment, CommentsTyped
    <3>2. IsFiniteSet(comments[p]) /\ commentCount[p] \in Nat /\ commentCount[p] <= Cardinality(comments[p])
      BY StaySteps
    <3>3. c \in comments[p]
      BY <3>1
    <3>4. Counted(comments[p] \ {c}, Less(commentCount[p], 1), comments[p], commentCount[p])
      BY <3>2, <3>3, RowSteps
    <3>. QED  BY <3>1, <3>4
  <2>. QED  BY <2>1, <2>2
<1>. QED  BY <1>1, <1>2, <1>3, StaySteps DEF CountsKept, likeVars

LEMMA CallingCounts ==
    ASSUME Inv, NEW r \in Requests, NEW p \in Posts, Calling(r, p)
    PROVE  CountsKept
  BY DeletePostCounts, LikeCounts, CommentCounts DEF Calling

LEMMA CountsBound ==
    ASSUME CountsKept
    PROVE  FinitelyMany' /\ NoCountTooHigh'
  BY DEF CountsKept, Counted, FinitelyMany, NoCountTooHigh

\* Types, and that a post which is not there has no rows.
LEMMA DeletePostTypes ==
    ASSUME Inv, NEW r \in Requests, NEW p \in Posts, DeletePost(r, p)
    PROVE  PostsTyped' /\ LikesTyped' /\ CommentsTyped' /\ Vacant'
<1>1. PostsTyped /\ LikesTyped /\ CommentsTyped
  BY TypeSplit DEF Inv
<1>2. PostsTyped'
  BY <1>1 DEF DeletePost, DeletePosts, Without, PostsTyped
<1>3. LikesTyped'
  BY <1>1 DEF DeletePost, DeleteLikes, Without, LikesTyped
<1>4. CommentsTyped'
  BY <1>1 DEF DeletePost, DeleteComments, Without, CommentsTyped
<1>5. ASSUME NEW q \in Posts, author'[q] = {}
      PROVE  likers'[q] = {} /\ likeCount'[q] = 0 /\ comments'[q] = {} /\ commentCount'[q] = 0
  <2>1. q = p \/ author[q] = {}
    BY <1>5 DEF DeletePost, DeletePosts, Without
  <2>. QED  BY <2>1 DEF DeletePost, DeleteLikes, DeleteComments, Without, Inv, Vacant
<1>. QED  BY <1>2, <1>3, <1>4, <1>5 DEF Vacant

LEMMA RowTypes ==
    ASSUME Inv, NEW r \in Requests, NEW p \in Posts,
           Like(r, p) \/ Unlike(r, p) \/ AddComment(r, p) \/ DeleteComment(r, p)
    PROVE  PostsTyped' /\ LikesTyped' /\ CommentsTyped' /\ Vacant'
<1>0. PostsTyped /\ LikesTyped /\ CommentsTyped /\ req[r].me \in Users
  <2>1. req[r] \in Request /\ req[r].at = "call"
    BY TypeSplit DEF Inv, RequestsTyped, Like, Unlike, AddComment, DeleteComment, Calls, At
  <2>. QED  BY <2>1, TypeSplit, RequestCases DEF Inv
<1>1. author' = author /\ PostsTyped' /\ author[p] # {}
  BY <1>0 DEF Like, Unlike, AddComment, DeleteComment, postVars, PostsTyped, Calls, Exists
<1>2. LikesTyped'
  <2>1. CASE Like(r, p)
    BY <1>0, <2>1 DEF Like, LikesTyped
  <2>2. CASE Unlike(r, p)
    BY <1>0, <2>2 DEF Unlike, LikesTyped, Less
  <2>3. CASE UNCHANGED likeVars
    BY <1>0, <2>3 DEF LikesTyped, likeVars
  <2>. QED  BY <2>1, <2>2, <2>3 DEF AddComment, DeleteComment
<1>3. CommentsTyped'
  <2>1. CASE AddComment(r, p)
    <3>1. PICK c \in {req[r].me} \X Comments : comments' = [comments EXCEPT ![p] = @ \cup {c}]
      BY <2>1 DEF AddComment
    <3>2. c \in Users \X Comments
      BY <1>0, <3>1
    <3>. QED  BY <1>0, <2>1, <3>1, <3>2 DEF AddComment, CommentsTyped
  <2>2. CASE DeleteComment(r, p)
    BY <1>0, <2>2 DEF DeleteComment, CommentsTyped, Less
  <2>3. CASE UNCHANGED commentVars
    BY <1>0, <2>3 DEF CommentsTyped, commentVars
  <2>. QED  BY <2>1, <2>2, <2>3 DEF Like, Unlike
<1>4. ASSUME NEW q \in Posts, q # p
      PROVE  /\ likers'[q] = likers[q] /\ likeCount'[q] = likeCount[q]
             /\ comments'[q] = comments[q] /\ commentCount'[q] = commentCount[q]
  BY <1>0, <1>4 DEF Like, Unlike, AddComment, DeleteComment, likeVars, commentVars,
                    LikesTyped, CommentsTyped
<1>5. Vacant'
  BY <1>1, <1>4 DEF Inv, Vacant
<1>. QED  BY <1>1, <1>2, <1>3, <1>5

\* Nothing is added for the user of another deletion: its row is locked.
LEMMA NothingForOthers ==
    ASSUME Inv, NEW r \in Requests, NEW p \in Posts, Calling(r, p),
           NEW s \in Requests \ {r}, req[s] \in Deletion, NEW q \in Posts
    PROVE  /\ req[s].me \in likers'[q] => req[s].me \in likers[q]
           /\ {c \in comments'[q] : c[1] = req[s].me} \subseteq OwnComments(req[s].me, q)
<1>0. LikesTyped /\ CommentsTyped
  BY TypeSplit DEF Inv
<1>1. CASE DeletePost(r, p)
  BY <1>1 DEF DeletePost, DeleteLikes, DeleteComments, Without, OwnComments
<1>2. CASE Like(r, p)
  <2>1. req[s].me # req[r].me
    BY <1>2 DEF Like, UserFree, Deleting
  <2>. QED  BY <1>0, <1>2, <2>1 DEF Like, LikesTyped, commentVars, OwnComments
<1>3. CASE Unlike(r, p)
  BY <1>0, <1>3 DEF Unlike, LikesTyped, commentVars, OwnComments
<1>4. CASE AddComment(r, p)
  <2>1. req[s].me # req[r].me
    BY <1>4 DEF AddComment, UserFree, Deleting
  <2>2. PICK c : c[1] = req[r].me /\ comments' = [comments EXCEPT ![p] = @ \cup {c}]
    BY <1>4 DEF AddComment
  <2>. QED  BY <1>0, <1>4, <2>1, <2>2 DEF AddComment, CommentsTyped, likeVars, OwnComments
<1>5. CASE DeleteComment(r, p)
  BY <1>0, <1>5 DEF DeleteComment, CommentsTyped, likeVars, OwnComments
<1>. QED  BY <1>1, <1>2, <1>3, <1>4, <1>5 DEF Calling

LEMMA CallingKeeps ==
    ASSUME Inv, NEW r \in Requests, NEW p \in Posts, Calling(r, p)
    PROVE  Inv'
<1>0. PostsTyped /\ RequestsTyped /\ req[r].me \in Users
  <2>1. req[r] \in Request /\ req[r].at = "call"
    BY TypeSplit DEF Inv, RequestsTyped, Calling, DeletePost, Like, Unlike, AddComment, DeleteComment, Calls, At
  <2>. QED  BY <2>1, TypeSplit, RequestCases DEF Inv
<1>1. PICK q \in Request : req' = [req EXCEPT ![r] = q] /\ q.at \in {"idle"} \cup RemovalLocations
  <2>1. CASE Reply(r)
    BY <2>1, IdleRequest DEF Reply
  <2>2. CASE Remove(r, "removeFiles", images[p])
    <3> DEFINE q == [at |-> "removeFiles", me |-> req[r].me, files |-> images[p]]
    <3>1. "removeFiles" \in RemovalLocations /\ images[p] \in SUBSET Files
      BY <1>0 DEF RemovalLocations, PostsTyped
    <3>2. q \in Request /\ q.at \in RemovalLocations
      BY <1>0, <3>1, RemovalRequest
    <3>3. req' = [req EXCEPT ![r] = q]
      BY <2>2 DEF Remove
    <3>. HIDE DEF q
    <3>. QED  BY <3>2, <3>3
  <2>. QED  BY <2>1, <2>2 DEF Calling, DeletePost, Like, Unlike, AddComment, DeleteComment
<1>2. PostsTyped' /\ LikesTyped' /\ CommentsTyped' /\ Vacant'
  BY DeletePostTypes, RowTypes DEF Calling
<1>3. RequestsTyped'
  BY <1>0, <1>1 DEF RequestsTyped
<1>4. UsersTyped' /\ DiskTyped'
  BY UsersStay DEF Calling, DeletePost, Like, Unlike, AddComment, DeleteComment
<1>5. TypeOK'
  BY <1>2, <1>3, <1>4, TypeSplitNext
<1>6. FinitelyMany' /\ NoCountTooHigh'
  BY CallingCounts, CountsBound
<1>. QED  BY <1>1, <1>2, <1>5, <1>6, NothingForOthers, RowsKeep

-----------------------------------------------------------------------------
(* DeleteMe                                                                *)

LEMMA DeletionRequest ==
    ASSUME Inv, NEW r \in Requests, req[r].at \in DeletionLocations
    PROVE  /\ req[r] \in Deletion /\ req[r].me \in Users /\ req[r].files \in SUBSET Files
           /\ \A s \in Requests \ {r} : req[s] \in Deletion => req[s].me # req[r].me
<1>1. req[r] \in Deletion /\ req[r].me \in Users /\ req[r].files \in SUBSET Files
  <2>1. req[r] \in Request
    BY TypeSplit DEF Inv, RequestsTyped
  <2>2. req[r] \in Deletion
    BY <2>1, RequestCases
  <2>. QED  BY <2>2 DEF Deletion
<1>. QED  BY <1>1 DEF Inv, OneDeletion

\* The statements before the last read and lock.
LEMMA ReadingKeeps ==
    ASSUME Inv, NEW r \in Requests, NEW q \in Deletion, req[r] \in Deletion, q.me = req[r].me,
           req[r].at \in DeletionLocations,
           req' = [req EXCEPT ![r] = q], LikesFound(q), CommentsFound(q),
           UNCHANGED <<postVars, likeVars, commentVars, userVars, disk>>
    PROVE  Inv'
<1>1. q \in Request /\ q.at \notin {"SetAvatar", "SetAvatar.update"}
  BY DEF Request, Deletion
<1>2. UNCHANGED <<author, likeVars, commentVars>> /\ PostsTyped' /\ UsersTyped' /\ DiskTyped'
  BY UsersStay DEF postVars
<1>. QED  BY <1>1, <1>2, DeletionRequest, MoveKeeps

LEMMA FindLikesKeeps ==
    ASSUME Inv, NEW r \in Requests, DeleteMeFindLikes(r)
    PROVE  Inv'
<1>1. req[r] \in Deletion /\ req[r].at \in DeletionLocations
  BY DeletionRequest DEF DeleteMeFindLikes, At, DeletionLocations
<1> DEFINE liked == {p \in Posts : Exists(p) /\ req[r].me \in likers[p]}
           q == [req[r] EXCEPT !.at = "DeleteMe.likes", !.liked = liked]
<1>2. q \in Deletion /\ q.me = req[r].me /\ q.at = "DeleteMe.likes" /\ q.liked = liked
  BY <1>1 DEF Deletion
<1>3. req' = [req EXCEPT ![r] = q] /\ UNCHANGED <<postVars, likeVars, commentVars, userVars, disk>>
  BY DEF DeleteMeFindLikes
<1>4. LikesFound(q) /\ CommentsFound(q)
  <2>1. \A p \in Posts : q.me \in likers[p] => p \in q.liked
    BY <1>2 DEF Inv, Vacant, Exists
  <2>. QED  BY <1>2, <2>1 DEF LikesFound, CommentsFound
<1>. HIDE DEF q
<1>. QED  BY <1>1, <1>2, <1>3, <1>4, ReadingKeeps

LEMMA LockLikedKeeps ==
    ASSUME Inv, NEW r \in Requests, DeleteMeLockLiked(r)
    PROVE  Inv'
<1>1. req[r] \in Deletion /\ req[r].at \in DeletionLocations /\ req[r].at = "DeleteMe.likes"
  BY DeletionRequest DEF DeleteMeLockLiked, At, DeletionLocations
<1> DEFINE liked == {p \in req[r].liked : Exists(p)}
           q == [req[r] EXCEPT !.at = "DeleteMe.comments", !.liked = liked, !.locked = liked]
<1>2. q \in Deletion /\ q.me = req[r].me /\ q.at = "DeleteMe.comments" /\ q.liked = liked
  BY <1>1 DEF Deletion
<1>3. req' = [req EXCEPT ![r] = q] /\ UNCHANGED <<postVars, likeVars, commentVars, userVars, disk>>
  BY DEF DeleteMeLockLiked
<1>4. LikesFound(q) /\ CommentsFound(q)
  <2>1. \A p \in Posts : q.me \in likers[p] => p \in q.liked
    BY <1>1, <1>2 DEF Inv, Vacant, Exists, AllFound, LikesFound
  <2>. QED  BY <1>2, <2>1 DEF LikesFound, CommentsFound
<1>. HIDE DEF q
<1>. QED  BY <1>1, <1>2, <1>3, <1>4, ReadingKeeps

\* The comments of one user can be counted.
LEMMA OwnFinite ==
    ASSUME Inv, NEW p \in Posts, NEW u
    PROVE  /\ IsFiniteSet(OwnComments(u, p)) /\ Cardinality(OwnComments(u, p)) \in Nat
           /\ ~Exists(p) => Cardinality(OwnComments(u, p)) = 0
<1>1. IsFiniteSet(OwnComments(u, p))
  BY FS_Subset DEF Inv, FinitelyMany, OwnComments
<1>2. ~Exists(p) => OwnComments(u, p) = {}
  BY DEF Inv, Vacant, Exists, OwnComments
<1>. QED  BY <1>1, <1>2, FS_CardinalityType, FS_EmptySet

LEMMA FindCommentsKeeps ==
    ASSUME Inv, NEW r \in Requests, DeleteMeFindComments(r)
    PROVE  Inv'
<1>1. req[r] \in Deletion /\ req[r].at \in DeletionLocations /\ req[r].at = "DeleteMe.comments"
  BY DeletionRequest DEF DeleteMeFindComments, At, DeletionLocations
<1> DEFINE counted == [p \in Posts |-> IF Exists(p) THEN Cardinality(OwnComments(req[r].me, p)) ELSE 0]
           q == [req[r] EXCEPT !.at = "DeleteMe.count", !.counted = counted]
<1>2. counted \in [Posts -> Nat] /\ \A p \in Posts : Cardinality(OwnComments(req[r].me, p)) = counted[p]
  BY OwnFinite
<1>3. req' = [req EXCEPT ![r] = q] /\ UNCHANGED <<postVars, likeVars, commentVars, userVars, disk>>
  BY DEF DeleteMeFindComments, OwnComments
<1>. HIDE DEF counted
<1>4. q \in Deletion /\ q.me = req[r].me /\ q.at = "DeleteMe.count" /\ q.counted = counted /\ q.liked = req[r].liked
  BY <1>1, <1>2 DEF Deletion
<1>. HIDE DEF q
<1>5. LikesFound(q)
  BY <1>1, <1>4 DEF Inv, AllFound, LikesFound
<1>6. CommentsFound(q)
  <2>1. ASSUME NEW p \in Posts PROVE Cardinality(OwnComments(q.me, p)) <= q.counted[p]
    BY <1>2, <1>4, OwnFinite
  <2>. QED  BY <2>1 DEF CommentsFound
<1>. QED  BY <1>1, <1>3, <1>4, <1>5, <1>6, ReadingKeeps

LEMMA LockCountedKeeps ==
    ASSUME Inv, NEW r \in Requests, DeleteMeLockCounted(r)
    PROVE  Inv'
<1>1. req[r] \in Deletion /\ req[r].at \in DeletionLocations /\ req[r].at = "DeleteMe.count"
  BY DeletionRequest DEF DeleteMeLockCounted, At, DeletionLocations
<1> DEFINE counted == {p \in Posts : Exists(p) /\ req[r].counted[p] > 0}
           q == [req[r] EXCEPT !.at = "DeleteMe.commit", !.locked = @ \cup counted]
<1>2. q \in Deletion /\ q.me = req[r].me /\ q.at = "DeleteMe.commit"
      /\ q.liked = req[r].liked /\ q.counted = req[r].counted
  BY <1>1 DEF Deletion
<1>3. req' = [req EXCEPT ![r] = q] /\ UNCHANGED <<postVars, likeVars, commentVars, userVars, disk>>
  BY DEF DeleteMeLockCounted
<1>. HIDE DEF q
<1>4. LikesFound(q) /\ CommentsFound(q)
  BY <1>1, <1>2 DEF Inv, AllFound, LikesFound, CommentsFound
<1>. QED  BY <1>1, <1>2, <1>3, <1>4, ReadingKeeps

-----------------------------------------------------------------------------
(* Its commit                                                              *)

\* Of the rows, some go; the counter sinks by at least as many.
LEMMA OwnRowsGo ==
    ASSUME NEW rows, IsFiniteSet(rows), NEW own \in SUBSET rows,
           NEW count \in Nat, count <= Cardinality(rows), NEW n \in Nat, Cardinality(own) <= n
    PROVE  /\ IsFiniteSet(rows \ own)
           /\ Less(count, n) <= Cardinality(rows \ own)
           /\ Cardinality(rows \ own) - Less(count, n) > Cardinality(rows) - count
              => n > Cardinality(own)
<1>1. rows \cap own = own
  OBVIOUS
<1>2. IsFiniteSet(rows \ own) /\ Cardinality(rows \ own) = Cardinality(rows) - Cardinality(own)
  BY <1>1, FS_Difference
<1>3. Cardinality(rows \ own) \in Nat /\ Cardinality(rows) \in Nat /\ Cardinality(own) \in Nat
  BY <1>2, FS_Subset, FS_CardinalityType
<1>. QED  BY <1>2, <1>3 DEF Less

\* What a deletion's commit does to the counters of a post that stays.
Outdated(r, p) ==
    /\ Cardinality(likers'[p]) - likeCount'[p] > Cardinality(likers[p]) - likeCount[p]
       => p \in req[r].liked /\ req[r].me \notin likers[p]
    /\ Cardinality(comments'[p]) - commentCount'[p] > Cardinality(comments[p]) - commentCount[p]
       => req[r].counted[p] > Cardinality(OwnComments(req[r].me, p))

CommitBounds(p) ==
    /\ IsFiniteSet(likers'[p]) /\ likeCount'[p] <= Cardinality(likers'[p])
    /\ IsFiniteSet(comments'[p]) /\ commentCount'[p] <= Cardinality(comments'[p])

LEMMA CommitCounts ==
    ASSUME Inv, NEW r \in Requests, DeleteMeCommit(r), NEW p \in Posts
    PROVE  CommitBounds(p) /\ (p \notin Of(req[r].me) => Outdated(r, p))
<1>1. req[r] \in Deletion /\ req[r].at = "DeleteMe.commit"
  BY DeletionRequest DEF DeleteMeCommit, At, DeletionLocations
<1>2. CASE p \in Of(req[r].me)
  <2>1. likers'[p] = {} /\ likeCount'[p] = 0 /\ comments'[p] = {} /\ commentCount'[p] = 0
    BY <1>2 DEF DeleteMeCommit
  <2>. QED  BY <1>2, <2>1, FS_EmptySet DEF CommitBounds
<1>3. CASE p \notin Of(req[r].me)
  <2> DEFINE u == req[r].me
             likes == likers[p] \cap {u}
             n == IF p \in req[r].liked THEN 1 ELSE 0
             own == OwnComments(u, p)
             m == req[r].counted[p]
  <2>1. /\ likers'[p] = likers[p] \ likes /\ likeCount'[p] = Less(likeCount[p], n)
        /\ comments'[p] = comments[p] \ own /\ commentCount'[p] = Less(commentCount[p], m)
    BY <1>3 DEF DeleteMeCommit, OwnComments
  <2>2. Cardinality(likes) <= n /\ n \in Nat /\ (n > Cardinality(likes) => p \in req[r].liked /\ u \notin likers[p])
    <3>1. CASE u \in likers[p]
      <4>1. likes = {u} /\ p \in req[r].liked
        BY <1>1, <3>1 DEF Inv, AllFound, LikesFound
      <4>2. Cardinality(likes) = 1
        BY <4>1, FS_Singleton
      <4>. QED  BY <4>1, <4>2
    <3>2. CASE u \notin likers[p]
      <4>1. likes = {}
        BY <3>2
      <4>2. Cardinality(likes) = 0
        BY <4>1, FS_EmptySet
      <4>. HIDE DEF likes
      <4>. QED  BY <3>2, <4>2
    <3>. QED  BY <3>1, <3>2
  <2>3. Cardinality(own) <= m /\ m \in Nat
    BY <1>1 DEF Inv, AllFound, CommentsFound, Deletion
  <2>4. likes \in SUBSET likers[p] /\ own \in SUBSET comments[p]
    BY DEF OwnComments
  <2>5. /\ IsFiniteSet(likers[p]) /\ likeCount[p] \in Nat /\ likeCount[p] <= Cardinality(likers[p])
        /\ IsFiniteSet(comments[p]) /\ commentCount[p] \in Nat
        /\ commentCount[p] <= Cardinality(comments[p])
    BY StaySteps
  <2>. HIDE DEF likes, own, n, m
  <2>6. /\ IsFiniteSet(likers[p] \ likes)
        /\ Less(likeCount[p], n) <= Cardinality(likers[p] \ likes)
        /\ Cardinality(likers[p] \ likes) - Less(likeCount[p], n) > Cardinality(likers[p]) - likeCount[p]
           => n > Cardinality(likes)
    BY <2>2, <2>4, <2>5, OwnRowsGo
  <2>7. /\ IsFiniteSet(comments[p] \ own)
        /\ Less(commentCount[p], m) <= Cardinality(comments[p] \ own)
        /\ Cardinality(comments[p] \ own) - Less(commentCount[p], m) > Cardinality(comments[p]) - commentCount[p]
           => m > Cardinality(own)
    BY <2>3, <2>4, <2>5, OwnRowsGo
  <2>8. CommitBounds(p)
    BY <2>1, <2>6, <2>7 DEF CommitBounds
  <2>9. Outdated(r, p)
    <3>1. Cardinality(likers'[p]) - likeCount'[p] > Cardinality(likers[p]) - likeCount[p]
          => n > Cardinality(likes)
      BY <2>1, <2>6
    <3>2. Cardinality(comments'[p]) - commentCount'[p] > Cardinality(comments[p]) - commentCount[p]
          => m > Cardinality(own)
      BY <2>1, <2>7
    <3>. QED  BY <2>2, <3>1, <3>2 DEF Outdated, own, m
  <2>. QED  BY <2>8, <2>9
<1>. QED  BY <1>2, <1>3

LEMMA CommitTypes ==
    ASSUME Inv, NEW r \in Requests, DeleteMeCommit(r)
    PROVE  PostsTyped' /\ LikesTyped' /\ CommentsTyped' /\ UsersTyped' /\ DiskTyped' /\ Vacant'
<1>0. PostsTyped /\ LikesTyped /\ CommentsTyped /\ UsersTyped
  BY TypeSplit DEF Inv
<1>1. req[r] \in Deletion /\ req[r].me \in Users
  BY DeletionRequest DEF DeleteMeCommit, At, DeletionLocations
<1>2. \A p \in Posts : req[r].counted[p] \in Nat
  BY <1>1 DEF Deletion
<1>3. PostsTyped'
  BY <1>0 DEF DeleteMeCommit, DeletePosts, Without, PostsTyped
<1>4. LikesTyped'
  <2>1. likers' \in [Posts -> SUBSET Users]
    BY <1>0 DEF DeleteMeCommit, LikesTyped
  <2>2. likeCount' \in [Posts -> Nat]
    BY <1>0 DEF DeleteMeCommit, LikesTyped, Less
  <2>. QED  BY <2>1, <2>2 DEF LikesTyped
<1>5. CommentsTyped'
  <2>1. comments' \in [Posts -> SUBSET (Users \X Comments)]
    BY <1>0 DEF DeleteMeCommit, CommentsTyped
  <2>2. commentCount' \in [Posts -> Nat]
    BY <1>0, <1>2 DEF DeleteMeCommit, CommentsTyped, Less
  <2>. QED  BY <2>1, <2>2 DEF CommentsTyped
<1>6. UsersTyped'
  BY <1>0, <1>1 DEF DeleteMeCommit, UsersTyped
<1>7. DiskTyped'
  BY UsersStay DEF DeleteMeCommit
<1>8. ASSUME NEW p \in Posts, author'[p] = {}
      PROVE  likers'[p] = {} /\ likeCount'[p] = 0 /\ comments'[p] = {} /\ commentCount'[p] = 0
  <2>1. CASE p \in Of(req[r].me)
    BY <2>1 DEF DeleteMeCommit
  <2>2. CASE p \notin Of(req[r].me)
    <3>1. author[p] = {}
      BY <1>8, <2>2 DEF DeleteMeCommit, DeletePosts, Without
    <3>2. likers[p] = {} /\ likeCount[p] = 0 /\ comments[p] = {} /\ commentCount[p] = 0
      BY <3>1 DEF Inv, Vacant
    <3>3. Less(0, 0) = 0 /\ Less(0, 1) = 0 /\ Less(0, req[r].counted[p]) = 0
      BY <1>2 DEF Less
    <3>4. likers'[p] = {} /\ comments'[p] = {}
      BY <2>2, <3>2 DEF DeleteMeCommit
    <3>5. likeCount'[p] = 0 /\ commentCount'[p] = 0
      BY <2>2, <3>2, <3>3 DEF DeleteMeCommit
    <3>. QED  BY <3>4, <3>5
  <2>. QED  BY <2>1, <2>2
<1>. QED  BY <1>3, <1>4, <1>5, <1>6, <1>7, <1>8 DEF Vacant

LEMMA CommitKeeps ==
    ASSUME Inv, NEW r \in Requests, DeleteMeCommit(r)
    PROVE  Inv'
<1>1. req[r] \in Deletion /\ req[r].me \in Users /\ req[r].files \in SUBSET Files
  BY DeletionRequest DEF DeleteMeCommit, At, DeletionLocations
<1>2. PICK q \in Request : req' = [req EXCEPT ![r] = q] /\ q.at \in {"idle"} \cup RemovalLocations
  <2>1. CASE Reply(r)
    BY <2>1, IdleRequest DEF Reply
  <2>2. CASE Remove(r, "removeFiles", req[r].files)
    <3> DEFINE q == [at |-> "removeFiles", me |-> req[r].me, files |-> req[r].files]
    <3>1. "removeFiles" \in RemovalLocations
      BY DEF RemovalLocations
    <3>2. q \in Request /\ q.at \in RemovalLocations
      BY <1>1, <3>1, RemovalRequest
    <3>3. req' = [req EXCEPT ![r] = q]
      BY <2>2 DEF Remove
    <3>. HIDE DEF q
    <3>. QED  BY <3>2, <3>3
  <2>. QED  BY <2>1, <2>2 DEF DeleteMeCommit
<1>3. RequestsTyped'
  BY <1>2, TypeSplit DEF Inv, RequestsTyped
<1>4. TypeOK' /\ Vacant'
  BY <1>3, CommitTypes, TypeSplitNext
<1>5. FinitelyMany' /\ NoCountTooHigh'
  BY CommitCounts DEF CommitBounds, FinitelyMany, NoCountTooHigh
<1>6. ASSUME NEW s \in Requests \ {r}, req[s] \in Deletion, NEW p \in Posts
      PROVE  /\ req[s].me \in likers'[p] => req[s].me \in likers[p]
             /\ {c \in comments'[p] : c[1] = req[s].me} \subseteq OwnComments(req[s].me, p)
  BY DEF DeleteMeCommit, OwnComments
<1>. QED  BY <1>2, <1>4, <1>5, <1>6, RowsKeep

LEMMA DeletionKeeps ==
    ASSUME Inv, NEW r \in Requests, DeletionStep(r)
    PROVE  Inv'
  BY FindLikesKeeps, LockLikedKeeps, FindCommentsKeeps, LockCountedKeeps, CommitKeeps DEF DeletionStep

LEMMA StutterKeeps ==
    ASSUME Inv, UNCHANGED vars
    PROVE  Inv'
<1>1. UNCHANGED <<postVars, likeVars, commentVars, userVars, disk>> /\ req' = req
  BY DEF vars, postVars, likeVars, commentVars, userVars
<1>2. RequestsTyped'
  BY <1>1, TypeSplit DEF Inv, RequestsTyped
<1>3. TypeOK'
  BY <1>1, <1>2, UsersStay, TypeSplitNext
<1>4. OneAvatar' /\ OneDeletion'
  BY <1>1 DEF Inv, OneAvatar, OneDeletion
<1>5. FinitelyMany' /\ Vacant' /\ NoCountTooHigh'
  BY <1>1 DEF Inv, FinitelyMany, Vacant, NoCountTooHigh, postVars, likeVars, commentVars
<1>6. AllFound'
  BY <1>1 DEF Inv, AllFound, LikesFound, CommentsFound, OwnComments, likeVars, commentVars
<1>. QED  BY <1>3, <1>4, <1>5, <1>6 DEF Inv

LEMMA Inductive == Inv /\ [Next]_vars => Inv'
  BY ArrivalKeeps, UploadingKeeps, CallingKeeps, DeletionKeeps, AbortKeeps, CrashKeeps, StutterKeeps
  DEF Next

LEMMA AlwaysInv == Spec => []Inv
  BY InvInit, Inductive, PTL DEF Spec

-----------------------------------------------------------------------------
(* The theorems                                                            *)

\* Every variable keeps its type, whatever fails and stops.
THEOREM TypeCorrect == Spec => []TypeOK
<1>1. Inv => TypeOK
  BY DEF Inv
<1>. QED  BY <1>1, AlwaysInv, PTL

\* like_count and comment_count are never more than the rows they count: an
\* account's deletion takes at least as many from them as it takes rows away.
THEOREM CountsNeverTooHigh == Spec => []NoCountTooHigh
<1>1. Inv => NoCountTooHigh
  BY DEF Inv
<1>. QED  BY <1>1, AlwaysInv, PTL

\* The rows and counters of steps that are no like, comment or post.
LEMMA QuietCounts ==
    ASSUME Inv, UNCHANGED <<likeVars, commentVars>>
    PROVE  CountsKept
  BY StaySteps DEF CountsKept, likeVars, commentVars

LEMMA KeptInTime ==
    ASSUME Inv, Inv', CountsKept, NEW p \in Posts
    PROVE  /\ ~ (Cardinality(likers'[p]) - likeCount'[p] > Cardinality(likers[p]) - likeCount[p])
           /\ ~ (Cardinality(comments'[p]) - commentCount'[p]
                     > Cardinality(comments[p]) - commentCount[p])
<1>1. /\ likeCount[p] \in Nat /\ Cardinality(likers[p]) \in Nat
      /\ commentCount[p] \in Nat /\ Cardinality(comments[p]) \in Nat
  BY StaySteps, FS_CardinalityType
<1>2. LikesTyped' /\ CommentsTyped'
  BY TypeSplitNext DEF Inv
<1>3. /\ likeCount'[p] \in Nat /\ Cardinality(likers'[p]) \in Nat
      /\ commentCount'[p] \in Nat /\ Cardinality(comments'[p]) \in Nat
  BY <1>2, FS_CardinalityType DEF CountsKept, Counted, LikesTyped, CommentsTyped
<1>4. /\ Cardinality(likers'[p]) - likeCount'[p] <= Cardinality(likers[p]) - likeCount[p]
      /\ Cardinality(comments'[p]) - commentCount'[p]
             <= Cardinality(comments[p]) - commentCount[p]
  BY DEF CountsKept, Counted
<1>. QED  BY <1>1, <1>3, <1>4

\* A post that stays is one the deletion does not delete.
LEMMA CommitOutdated ==
    ASSUME Inv, NEW r \in Requests, DeleteMeCommit(r), NEW p \in Posts, Exists(p)'
    PROVE  At(r, "DeleteMe.commit") /\ Outdated(r, p)
<1>1. p \notin Of(req[r].me)
  BY DEF DeleteMeCommit, DeletePosts, Without, Exists
<1>. QED  BY <1>1, CommitCounts DEF DeleteMeCommit

\* A counter falls behind its rows only by an account's deletion whose snapshot
\* was out of date when it had the post's row.
THEOREM CountsFallBehindByDeletions == Spec => OnlyStaleDeletionsMiscount
<1>1. ASSUME Inv, [Next]_vars, NEW p \in Posts, Exists(p), Exists(p)'
      PROVE  /\ Cardinality(likers'[p]) - likeCount'[p] > Cardinality(likers[p]) - likeCount[p]
                => \E r \in Requests : /\ At(r, "DeleteMe.commit")
                                       /\ p \in req[r].liked /\ req[r].me \notin likers[p]
             /\ Cardinality(comments'[p]) - commentCount'[p]
                    > Cardinality(comments[p]) - commentCount[p]
                => \E r \in Requests :
                       /\ At(r, "DeleteMe.commit")
                       /\ req[r].counted[p] > Cardinality({c \in comments[p] : c[1] = req[r].me})
  <2>1. Inv'
    BY <1>1, Inductive
  <2>2. CASE CountsKept
    BY <1>1, <2>1, <2>2, KeptInTime
  <2>3. CASE \E r \in Requests : DeleteMeCommit(r)
    <3>1. PICK r \in Requests : DeleteMeCommit(r)
      BY <2>3
    <3>2. At(r, "DeleteMe.commit") /\ Outdated(r, p)
      BY <1>1, <3>1, CommitOutdated
    <3>. QED  BY <3>2 DEF Outdated, OwnComments
  <2>4. CountsKept \/ \E r \in Requests : DeleteMeCommit(r)
    <3>1. ASSUME NEW r \in Requests, NEW u \in Users, Arrival(r, u) PROVE CountsKept
      BY <1>1, <3>1, QuietCounts DEF Arrival, CreatePost, SetAvatar, Accept, DeleteMe
    <3>2. ASSUME NEW r \in Requests, Uploading(r) PROVE CountsKept
      BY <1>1, <3>2, QuietCounts
      DEF Uploading, SaveImage, SaveImageFails, CreatePostInsert, SetAvatarFind, SetAvatarUpdate, UploadFails, RemoveFiles
    <3>3. ASSUME NEW r \in Requests, NEW q \in Posts, Calling(r, q) PROVE CountsKept
      BY <1>1, <3>3, CallingCounts
    <3>4. ASSUME NEW r \in Requests, DeletionStep(r), ~ DeleteMeCommit(r) PROVE CountsKept
      BY <1>1, <3>4, QuietCounts
      DEF DeletionStep, DeleteMeFindLikes, DeleteMeLockLiked, DeleteMeFindComments, DeleteMeLockCounted
    <3>5. ASSUME (\E r \in Requests : Abort(r)) \/ Crash \/ UNCHANGED vars PROVE CountsKept
      BY <1>1, <3>5, QuietCounts DEF Abort, Crash, vars, likeVars, commentVars
    <3>. QED  BY <1>1, <3>1, <3>2, <3>3, <3>4, <3>5 DEF Next
  <2>. QED  BY <2>2, <2>3, <2>4
<1>2. Inv /\ [Next]_vars
      => [\A p \in Posts : Exists(p) /\ Exists(p)' =>
            /\ Cardinality(likers'[p]) - likeCount'[p] > Cardinality(likers[p]) - likeCount[p]
               => \E r \in Requests : /\ At(r, "DeleteMe.commit")
                                      /\ p \in req[r].liked /\ req[r].me \notin likers[p]
            /\ Cardinality(comments'[p]) - commentCount'[p]
                   > Cardinality(comments[p]) - commentCount[p]
               => \E r \in Requests :
                      /\ At(r, "DeleteMe.commit")
                      /\ req[r].counted[p] > Cardinality({c \in comments[p] : c[1] = req[r].me})
        ]_vars
  BY <1>1
<1>. QED  BY <1>2, AlwaysInv, PTL DEF Spec, OnlyStaleDeletionsMiscount

-----------------------------------------------------------------------------
(* Files: who names them, who holds them                                   *)

HasName(f) == (\E p \in Posts : f \in images[p]) \/ (\E u \in Users : f \in avatar[u])
Holds(q, f) == q.at # "idle" /\ f \in q.files
Finds(q, f) == q.at = "SetAvatar.update" /\ f \in q.prev
Owned(u, f) == f \in avatar[u] \/ \E p \in Posts : author[p] = {u} /\ f \in images[p]

LEMMA NamedFacts ==
    /\ \A f : f \in Named <=> HasName(f)
    /\ \A f : f \in Named' <=> HasName(f)'
  BY DEF Named, ImagesOf, HasName

LEMMA HandsFacts ==
    /\ \A f : f \in InHands(Requests) <=> \E r \in Requests : Holds(req[r], f)
    /\ \A f : f \in Found <=> \E r \in Requests : Finds(req[r], f)
  BY DEF InHands, Found, Holds, Finds, At

LEMMA OwnedFacts ==
    /\ \A u \in Users : \A f : f \in avatar[u] \cup ImagesOf(Of(u)) <=> Owned(u, f)
    /\ \A u \in Users : \A f : Owned(u, f) => HasName(f)
  BY DEF ImagesOf, Of, Owned, HasName

\* Orphans, for one file: nobody who will delete it knows it.
Kept(f) == \E r \in Requests : Holds(req[r], f) /\ ~Deleting(r)

LEMMA OrphanFacts ==
    /\ \A f : f \in Orphans <=> f \in disk /\ ~HasName(f) /\ ~Kept(f)
    /\ \A f : f \in Orphans' <=> f \in disk' /\ ~HasName(f)' /\ ~Kept(f)'
  BY NamedFacts DEF Orphans, InHands, Kept, Holds, At

\* A row names files of its own; a post that is not there names none.
NamedOnce ==
    /\ \A p, q \in Posts : p # q => images[p] \cap images[q] = {}
    /\ \A u, v \in Users : u # v => avatar[u] \cap avatar[v] = {}
    /\ \A p \in Posts, u \in Users : images[p] \cap avatar[u] = {}
    /\ \A p \in Posts : author[p] = {} => images[p] = {}

\* What an upload has stored is there, and nobody else's.
UploadsFresh ==
    \A r \in Requests : req[r].at \in UploadLocations => \A f \in req[r].files :
        /\ f \in disk /\ ~HasName(f)
        /\ \A s \in Requests : ~Finds(req[s], f) /\ (s # r => ~Holds(req[s], f))

\* Files to delete after a commit are named by no row.
RemovalsOver == \A r \in Requests : At(r, "removeFiles") => \A f \in req[r].files : ~HasName(f)

\* The avatar an upload found is its user's or nobody's.
FoundAreOwn ==
    \A r \in Requests : At(r, "SetAvatar.update") =>
        \A f \in req[r].prev : HasName(f) => f \in avatar[req[r].me]

\* A deletion knows the files of its user, whose locked row keeps more from
\* coming, and no others that have a name.
DeletionsKnow ==
    \A r \in Requests : Deleting(r) =>
        /\ req[r].me \notin gone
        /\ \A f \in Files : (f \in req[r].files /\ HasName(f)) <=> Owned(req[r].me, f)

FilesRight == NamedOnce /\ UploadsFresh /\ RemovalsOver /\ FoundAreOwn /\ DeletionsKnow

\* A file that nobody knows has just been stored.
Stored(f) ==
    f \in disk' /\ ~HasName(f) /\ \A s \in Requests : ~Holds(req[s], f) /\ ~Finds(req[s], f)

\* What a step of one request must see to, for the files to stay right: names
\* come from its own upload, files go when it deletes those it has ...
NamesRight(r) ==
    /\ \A f \in disk \ disk' : Holds(req[r], f) /\ req[r].at \notin UploadLocations
    /\ \A f : HasName(f)' => HasName(f) \/ (req[r].at \in UploadLocations /\ f \in req[r].files)
    /\ \A u \in Users : \A f : f \in avatar[u] /\ HasName(f)' => f \in avatar'[u]
    /\ \A s \in Requests \ {r} : req[s] \in Deletion =>
           /\ req[s].me \notin gone'
           /\ \A u \in {req[s].me}, f \in Files : Owned(u, f) /\ HasName(f)' <=> Owned(u, f)'

\* ... and what it goes on with it had, or found in a row, or has stored.
RequestRight(r, q) ==
    /\ \A f : Holds(q, f) => Holds(req[r], f) \/ Finds(req[r], f) \/ HasName(f) \/ Stored(f)
    /\ \A f : Finds(q, f) => Finds(req[r], f) \/ HasName(f)
    /\ q.at \in UploadLocations => \A f \in q.files :
           /\ Stored(f) \/ (req[r].at \in UploadLocations /\ f \in req[r].files)
           /\ ~HasName(f)'
    /\ q.at = "removeFiles" => \A f \in q.files : ~HasName(f)'
    /\ q.at = "SetAvatar.update" => \A f \in q.prev : HasName(f)' => f \in avatar'[q.me]
    /\ q \in Deletion =>
           /\ q.me \notin gone'
           /\ \A u \in {q.me}, f \in Files : (f \in q.files /\ HasName(f)') <=> Owned(u, f)'

LEMMA StepFiles ==
    ASSUME TypeOK, FilesRight, NamedOnce', NEW r \in Requests, NEW q \in Request,
           req' = [req EXCEPT ![r] = q], NamesRight(r), RequestRight(r, q)
    PROVE  FilesRight'
<1>0. RequestsTyped
  BY TypeSplit
<1>1. req'[r] = q /\ \A s \in Requests \ {r} : req'[s] = req[s]
  BY <1>0 DEF RequestsTyped
<1>2. \A s \in Requests : req[s] \in Request /\ (req[s].at \in UploadLocations => req[s].at # "idle")
  BY <1>0 DEF RequestsTyped, UploadLocations
<1>3. ASSUME NEW s \in Requests, req'[s].at \in UploadLocations, NEW f \in req'[s].files
      PROVE  /\ f \in disk' /\ ~HasName(f)'
             /\ \A t \in Requests : ~Finds(req'[t], f) /\ (t # s => ~Holds(req'[t], f))
  <2>1. CASE s = r
    <3>1. ~HasName(f)'
      BY <1>1, <1>3, <2>1 DEF RequestRight
    <3>2. CASE Stored(f)
      BY <1>1, <2>1, <3>1, <3>2 DEF Stored, RequestRight
    <3>3. CASE req[r].at \in UploadLocations /\ f \in req[r].files
      <4>1. /\ f \in disk /\ ~HasName(f)
            /\ \A t \in Requests : ~Finds(req[t], f) /\ (t # r => ~Holds(req[t], f))
        BY <3>3 DEF FilesRight, UploadsFresh
      <4>2. f \in disk'
        BY <3>3, <4>1 DEF NamesRight
      <4>3. \A t \in Requests \ {r} : ~Finds(req'[t], f) /\ ~Holds(req'[t], f)
        BY <1>1, <4>1
      <4>4. ~Finds(q, f)
        BY <4>1 DEF RequestRight
      <4>. QED  BY <1>1, <2>1, <3>1, <4>2, <4>3, <4>4
    <3>. QED  BY <1>1, <1>3, <2>1, <3>2, <3>3 DEF RequestRight
  <2>2. CASE s # r
    <3>1. req[s].at \in UploadLocations /\ f \in req[s].files
      BY <1>1, <1>3, <2>2
    <3>2. /\ f \in disk /\ ~HasName(f)
          /\ \A t \in Requests : ~Finds(req[t], f) /\ (t # s => ~Holds(req[t], f))
      BY <3>1 DEF FilesRight, UploadsFresh
    <3>3. ~Holds(req[r], f) /\ ~Finds(req[r], f) /\ Holds(req[s], f)
      BY <1>2, <2>2, <3>1, <3>2 DEF Holds
    <3>4. ~Stored(f)
      BY <3>3 DEF Stored
    <3>5. ~Holds(q, f) /\ ~Finds(q, f)
      BY <3>2, <3>3, <3>4 DEF RequestRight
    <3>6. ~(req[r].at \in UploadLocations /\ f \in req[r].files)
      BY <1>2, <3>3 DEF Holds
    <3>7. f \in disk' /\ ~HasName(f)'
      BY <3>2, <3>3, <3>6 DEF NamesRight
    <3>. QED  BY <1>1, <3>2, <3>5, <3>7
  <2>. QED  BY <2>1, <2>2
<1>4. UploadsFresh'
  BY <1>3 DEF UploadsFresh, Holds, Finds
<1>5. ASSUME NEW s \in Requests \ {r}, NEW f, Holds(req[s], f) \/ Finds(req[s], f)
      PROVE  ~(req[r].at \in UploadLocations /\ f \in req[r].files)
  BY <1>5 DEF FilesRight, UploadsFresh
<1>6. RemovalsOver'
  <2> SUFFICES ASSUME NEW s \in Requests, req'[s].at = "removeFiles", NEW f \in req'[s].files
               PROVE  ~HasName(f)'
    BY DEF RemovalsOver, At
  <2>1. CASE s = r
    BY <1>1, <2>1 DEF RequestRight
  <2>2. CASE s # r
    <3>1. At(s, "removeFiles") /\ f \in req[s].files /\ Holds(req[s], f)
      BY <1>1, <2>2 DEF At, Holds
    <3>. QED  BY <1>5, <2>2, <3>1 DEF FilesRight, RemovalsOver, NamesRight
  <2>. QED  BY <2>1, <2>2
<1>7. FoundAreOwn'
  <2> SUFFICES ASSUME NEW s \in Requests, req'[s].at = "SetAvatar.update",
                      NEW f \in req'[s].prev, HasName(f)'
               PROVE  f \in avatar'[req'[s].me]
    BY DEF FoundAreOwn, At
  <2>1. CASE s = r
    BY <1>1, <2>1 DEF RequestRight
  <2>2. CASE s # r
    <3>1. At(s, "SetAvatar.update") /\ f \in req[s].prev /\ Finds(req[s], f) /\ req'[s] = req[s]
      BY <1>1, <2>2 DEF At, Finds
    <3>2. HasName(f)
      BY <1>5, <2>2, <3>1 DEF NamesRight
    <3>3. f \in avatar[req[s].me] /\ req[s].me \in Users
      BY <1>2, <3>1, <3>2, RequestCases DEF FilesRight, FoundAreOwn, At
    <3>. QED  BY <3>1, <3>3 DEF NamesRight
  <2>. QED  BY <2>1, <2>2
<1>8. DeletionsKnow'
  <2> SUFFICES ASSUME NEW s \in Requests, req'[s] \in Deletion, NEW u, u = req'[s].me
               PROVE  /\ u \notin gone'
                      /\ \A f \in Files : (f \in req'[s].files /\ HasName(f)') <=> Owned(u, f)'
    BY DEF DeletionsKnow, Deleting, Owned, HasName
  <2>1. CASE s = r
    BY <1>1, <2>1 DEF RequestRight
  <2>2. CASE s # r
    <3>1. req'[s] = req[s] /\ Deleting(s) /\ req[s].at # "idle" /\ u = req[s].me
      BY <1>1, <2>2 DEF Deleting, Deletion
    <3>2. ASSUME NEW f \in Files
          PROVE  (f \in req[s].files /\ HasName(f)') <=> Owned(u, f)'
      <4>1. (f \in req[s].files /\ HasName(f)) <=> Owned(u, f)
        BY <3>1 DEF FilesRight, DeletionsKnow
      <4>2. Owned(u, f) /\ HasName(f)' <=> Owned(u, f)'
        BY <2>2, <3>1 DEF NamesRight, Deleting
      <4>3. f \in req[s].files /\ HasName(f)' => HasName(f)
        BY <1>5, <2>2, <3>1 DEF NamesRight, Holds
      <4>. QED  BY <4>1, <4>2, <4>3
    <3>3. u \notin gone'
      BY <2>2, <3>1 DEF NamesRight, Deleting
    <3>. QED  BY <3>1, <3>2, <3>3
  <2>. QED  BY <2>1, <2>2
<1>. QED  BY <1>4, <1>6, <1>7, <1>8 DEF FilesRight
-----------------------------------------------------------------------------
(* The steps, as the files see them                                        *)

\* A step that changes no row that names files, and no file.
LEMMA QuietFiles ==
    ASSUME TypeOK, FilesRight, NEW r \in Requests, NEW q \in Request,
           req' = [req EXCEPT ![r] = q], UNCHANGED <<postVars, userVars, disk>>,
           \A f : Holds(q, f) => Holds(req[r], f) \/ HasName(f),
           \A f : Finds(q, f) => HasName(f),
           q.at \in UploadLocations =>
               q.files = {} \/ (req[r].at \in UploadLocations /\ q.files = req[r].files),
           q.at # "removeFiles",
           q.at = "SetAvatar.update" => q.prev = avatar[q.me],
           q \in Deletion =>
               q.me \notin gone /\ \A f \in Files : (f \in q.files /\ HasName(f)) <=> Owned(q.me, f)
    PROVE  FilesRight'
<1>1. /\ \A f : HasName(f)' <=> HasName(f)
      /\ \A u, f : Owned(u, f)' <=> Owned(u, f)
  BY DEF HasName, Owned, postVars, userVars
<1>2. NamedOnce'
  BY DEF FilesRight, NamedOnce, postVars, userVars
<1>3. \A u, f : Owned(u, f) => f \in avatar[u] \/ HasName(f)
  BY DEF Owned, HasName
<1>4. ASSUME NEW s \in Requests, req[s] \in Deletion
      PROVE  req[s].me \notin gone' /\ \A f \in Files : Owned(req[s].me, f) => HasName(f)
  BY <1>4 DEF FilesRight, DeletionsKnow, Deleting, userVars
<1>5. NamesRight(r)
  BY <1>1, <1>4 DEF NamesRight, userVars
<1>6. q.at \in UploadLocations => \A f \in q.files :
         (req[r].at \in UploadLocations /\ f \in req[r].files) /\ ~HasName(f)
  BY DEF FilesRight, UploadsFresh
<1>7. RequestRight(r, q)
  BY <1>1, <1>6 DEF RequestRight, userVars
<1>. QED  BY <1>2, <1>5, <1>7, StepFiles

\* An answer, with nothing to delete.
LEMMA ReplyFiles ==
    ASSUME TypeOK, FilesRight, NEW r \in Requests, Reply(r), UNCHANGED <<postVars, userVars, disk>>
    PROVE  FilesRight'
<1>1. Idle \in Request /\ Idle.at = "idle" /\ Idle \notin Deletion
  BY IdleRequest, QuietRequest DEF DeletionLocations
<1>2. \A f : ~Holds(Idle, f) /\ ~Finds(Idle, f)
  BY <1>1 DEF Holds, Finds
<1>3. Idle.at \notin UploadLocations
  BY <1>1 DEF UploadLocations
<1>. QED  BY <1>1, <1>2, <1>3, QuietFiles DEF Reply

\* A request that begins holds nothing, or what its user's rows name.
LEMMA ArrivalFiles ==
    ASSUME TypeOK, FilesRight, NEW r \in Requests, NEW u \in Users, Arrival(r, u)
    PROVE  FilesRight'
<1>0. UNCHANGED <<postVars, userVars, disk>>
  BY DEF Arrival, CreatePost, SetAvatar, Accept, DeleteMe
<1>1. CASE CreatePost(r, u)
  <2> DEFINE q == [at |-> "CreatePost", me |-> u, files |-> {}, prev |-> {}]
  <2>1. q \in Request /\ q.at = "CreatePost" /\ q.files = {} /\ q.at \notin DeletionLocations
    BY DEF Request, Upload, DeletionLocations
  <2>2. req' = [req EXCEPT ![r] = q]
    BY <1>1 DEF CreatePost
  <2>. HIDE DEF q
  <2>. QED  BY <1>0, <2>1, <2>2, QuietFiles, QuietRequest DEF Holds, Finds
<1>2. CASE SetAvatar(r, u)
  <2> DEFINE q == [at |-> "SetAvatar", me |-> u, files |-> {}, prev |-> {}]
  <2>1. q \in Request /\ q.at = "SetAvatar" /\ q.files = {} /\ q.at \notin DeletionLocations
    BY DEF Request, Upload, DeletionLocations
  <2>2. req' = [req EXCEPT ![r] = q]
    BY <1>2 DEF SetAvatar
  <2>. HIDE DEF q
  <2>. QED  BY <1>0, <2>1, <2>2, QuietFiles, QuietRequest DEF Holds, Finds
<1>3. CASE Accept(r, u)
  <2> DEFINE q == [at |-> "call", me |-> u, files |-> {}]
  <2>1. q \in Request /\ q.at = "call" /\ q.files = {} /\ q.at \notin DeletionLocations \cup UploadLocations
    BY DEF Request, Call, DeletionLocations, UploadLocations
  <2>2. req' = [req EXCEPT ![r] = q]
    BY <1>3 DEF Accept
  <2>. HIDE DEF q
  <2>. QED  BY <1>0, <2>1, <2>2, QuietFiles, QuietRequest DEF Holds, Finds
<1>4. CASE DeleteMe(r, u)
  <2> DEFINE q == [at |-> "DeleteMe", me |-> u, files |-> avatar[u] \cup ImagesOf(Of(u)),
                   liked |-> {}, counted |-> [p \in Posts |-> 0], locked |-> {}]
  <2>1. avatar[u] \cup ImagesOf(Of(u)) \in SUBSET Files
    BY TypeSplit DEF PostsTyped, UsersTyped, ImagesOf, Of
  <2>2. q \in Request /\ q.at = "DeleteMe" /\ q.me = u /\ q.files = avatar[u] \cup ImagesOf(Of(u))
    BY <2>1 DEF Request, Deletion
  <2>3. req' = [req EXCEPT ![r] = q] /\ u \notin gone
    BY <1>4 DEF DeleteMe
  <2>. HIDE DEF q
  <2>4. \A f : f \in q.files <=> Owned(u, f)
    BY <2>2, OwnedFacts
  <2>5. \A f : Owned(u, f) => HasName(f)
    BY OwnedFacts
  <2>6. q.at \notin UploadLocations
    BY <2>2 DEF UploadLocations
  <2>. QED  BY <1>0, <2>2, <2>3, <2>4, <2>5, <2>6, QuietFiles DEF Holds, Finds
<1>. QED  BY <1>1, <1>2, <1>3, <1>4 DEF Arrival

\* A new file is nobody's: no row names it, no request holds it or found it.
LEMMA SaveImageFiles ==
    ASSUME TypeOK, FilesRight, NEW r \in Requests, SaveImage(r)
    PROVE  FilesRight'
<1>1. PICK f, g \in NewFiles :
          disk' = disk \cup {f, g} /\ req' = [req EXCEPT ![r].files = @ \cup {f}]
  BY DEF SaveImage
<1>2. Stored(f) /\ f \in Files
  BY <1>1, NamedFacts, HandsFacts DEF Stored, NewFiles
<1>3. req[r] \in Upload /\ req[r].at \in UploadLocations /\ req[r].at \in {"CreatePost", "SetAvatar"}
  BY TypeSplit, RequestCases DEF SaveImage, Saves, At, RequestsTyped, UploadLocations
<1>4. UNCHANGED <<postVars, userVars>>
  BY DEF SaveImage
<1> DEFINE q == [req[r] EXCEPT !.files = @ \cup {f}]
<1>5. /\ req' = [req EXCEPT ![r] = q]
      /\ q \in Upload /\ q.at = req[r].at /\ q.me = req[r].me /\ q.files = req[r].files \cup {f}
  <2>1. req[r].files \subseteq Files
    BY <1>3, TypeSplit DEF Upload, RequestsTyped
  <2>. QED  BY <1>1, <1>2, <1>3, <2>1, TypeSplit DEF Upload, RequestsTyped
<1> HIDE DEF q
<1>6. q \in Request /\ q \notin Deletion
  BY <1>3, <1>5, QuietRequest DEF Request, UploadLocations, DeletionLocations
<1>7. /\ \A h : HasName(h)' <=> HasName(h)
      /\ \A u, h : Owned(u, h)' <=> Owned(u, h)
  BY <1>4 DEF HasName, Owned, postVars, userVars
<1>8. ASSUME NEW s \in Requests, req[s] \in Deletion
      PROVE  req[s].me \notin gone' /\ \A h \in Files : Owned(req[s].me, h) => HasName(h)
  BY <1>4, <1>8 DEF FilesRight, DeletionsKnow, Deleting, userVars
<1>9. NamesRight(r)
  BY <1>1, <1>4, <1>7, <1>8 DEF NamesRight, userVars
<1>10. RequestRight(r, q)
  <2>1. \A h \in req[r].files : ~HasName(h)
    BY <1>3 DEF FilesRight, UploadsFresh
  <2>2. ~HasName(f)
    BY <1>2 DEF Stored
  <2>3. \A h : Holds(q, h) => Holds(req[r], h) \/ h = f
    BY <1>3, <1>5 DEF Holds
  <2>4. q.at # "SetAvatar.update" /\ q.at # "removeFiles"
    BY <1>3, <1>5
  <2>. QED  BY <1>2, <1>3, <1>5, <1>6, <1>7, <2>1, <2>2, <2>3, <2>4 DEF RequestRight, Finds
<1>11. NamedOnce'
  BY <1>4 DEF FilesRight, NamedOnce, postVars, userVars
<1>. QED  BY <1>5, <1>6, <1>9, <1>10, <1>11, StepFiles

\* What a failed write has left is nobody's either.
LEMMA SaveImageFailsFiles ==
    ASSUME TypeOK, FilesRight, NEW r \in Requests, SaveImageFails(r)
    PROVE  FilesRight'
<1>1. req[r] \in Upload /\ req[r].at \in UploadLocations /\ req[r].me \in Users
        /\ req[r].files \in SUBSET Files
  BY TypeSplit, RequestCases DEF SaveImageFails, Saves, At, RequestsTyped, UploadLocations
<1> DEFINE q == [at |-> "cleanup", me |-> req[r].me, files |-> req[r].files]
<1>2. "cleanup" \in RemovalLocations
  BY DEF RemovalLocations
<1>3. q \in Request /\ q.at = "cleanup" /\ q.files = req[r].files
  BY <1>1, <1>2, RemovalRequest
<1>4. req' = [req EXCEPT ![r] = q] /\ disk \subseteq disk' /\ UNCHANGED <<postVars, userVars>>
  BY DEF SaveImageFails, Remove
<1> HIDE DEF q
<1>5. q \notin Deletion /\ q.at \notin UploadLocations
  BY <1>3, QuietRequest DEF DeletionLocations, UploadLocations
<1>6. \A f : (Holds(q, f) => Holds(req[r], f)) /\ ~Finds(q, f)
  BY <1>1, <1>3 DEF Holds, Finds, UploadLocations
<1>7. /\ \A f : HasName(f)' <=> HasName(f)
      /\ \A u, f : Owned(u, f)' <=> Owned(u, f)
  BY <1>4 DEF HasName, Owned, postVars, userVars
<1>8. ASSUME NEW s \in Requests, req[s] \in Deletion
      PROVE  req[s].me \notin gone' /\ \A f \in Files : Owned(req[s].me, f) => HasName(f)
  BY <1>4, <1>8 DEF FilesRight, DeletionsKnow, Deleting, userVars
<1>9. NamesRight(r)
  BY <1>4, <1>7, <1>8 DEF NamesRight, userVars
<1>10. q.at # "removeFiles" /\ q.at # "SetAvatar.update"
  BY <1>3
<1>11. RequestRight(r, q)
  BY <1>5, <1>6, <1>10 DEF RequestRight
<1>12. NamedOnce'
  BY <1>4 DEF FilesRight, NamedOnce, postVars, userVars
<1>. QED  BY <1>3, <1>4, <1>9, <1>11, <1>12, StepFiles

\* The commit of a new post names what its upload has stored.
LEMMA CreatePostInsertFiles ==
    ASSUME TypeOK, FilesRight, NEW r \in Requests, CreatePostInsert(r)
    PROVE  FilesRight'
<1>1. req[r] \in Upload /\ req[r].at = "CreatePost" /\ req[r].at \in UploadLocations
        /\ req[r].me \in Users /\ req[r].files \in SUBSET Files
  BY TypeSplit, RequestCases DEF CreatePostInsert, At, RequestsTyped, UploadLocations
<1>2. PICK p \in Posts :
        /\ author[p] = {}
        /\ author' = [author EXCEPT ![p] = {req[r].me}]
        /\ images' = [images EXCEPT ![p] = req[r].files]
  BY DEF CreatePostInsert, Exists
<1>3. /\ author'[p] = {req[r].me} /\ images'[p] = req[r].files
      /\ \A o \in Posts \ {p} : author'[o] = author[o] /\ images'[o] = images[o]
      /\ avatar' = avatar /\ gone' = gone /\ disk' = disk
  BY <1>2, TypeSplit DEF PostsTyped, CreatePostInsert, userVars
<1>4. \A f \in req[r].files : ~HasName(f)
  BY <1>1 DEF FilesRight, UploadsFresh
<1>5. \A s \in Requests \ {r} : req[s] \in Deletion => req[s].me # req[r].me
  BY DEF CreatePostInsert, UserFree, Deleting
<1>6. NamedOnce'
  BY <1>3, <1>4 DEF FilesRight, NamedOnce, HasName
<1>7. \A f : HasName(f)' => HasName(f) \/ f \in req[r].files
  BY <1>3 DEF HasName
<1>8. ASSUME NEW u \in Users, u # req[r].me, NEW f
      PROVE  Owned(u, f)' <=> Owned(u, f)
  BY <1>2, <1>3, <1>8 DEF Owned
<1>9. \A u \in Users : \A f : Owned(u, f)' => HasName(f)'
  BY DEF Owned, HasName
<1>10. \A s \in Requests : req[s] \in Deletion => req[s].me \in Users /\ req[s].me \notin gone
  BY DEF FilesRight, DeletionsKnow, Deleting, Deletion
<1>11. NamesRight(r)
  BY <1>1, <1>3, <1>5, <1>7, <1>8, <1>9, <1>10 DEF NamesRight
<1>12. CASE Reply(r)
  <2>1. Idle \in Request /\ Idle.at = "idle" /\ Idle \notin Deletion /\ Idle.at \notin UploadLocations
    BY IdleRequest, QuietRequest DEF DeletionLocations, UploadLocations
  <2>2. RequestRight(r, Idle)
    BY <2>1 DEF RequestRight, Holds, Finds
  <2>. QED  BY <1>6, <1>11, <1>12, <2>1, <2>2, StepFiles DEF Reply
<1>13. CASE Remove(r, "cleanup", req[r].files)
  <2> DEFINE q == [at |-> "cleanup", me |-> req[r].me, files |-> req[r].files]
  <2>1. "cleanup" \in RemovalLocations
    BY DEF RemovalLocations
  <2>2. q \in Request /\ q.at = "cleanup" /\ q.files = req[r].files
    BY <1>1, <2>1, RemovalRequest
  <2>3. req' = [req EXCEPT ![r] = q]
    BY <1>13 DEF Remove
  <2> HIDE DEF q
  <2>4. q \notin Deletion /\ q.at \notin UploadLocations
    BY <2>2, QuietRequest DEF DeletionLocations, UploadLocations
  <2>5. RequestRight(r, q)
    BY <1>1, <2>2, <2>4 DEF RequestRight, Holds, Finds
  <2>. QED  BY <1>6, <1>11, <2>2, <2>3, <2>5, StepFiles
<1>. QED  BY <1>12, <1>13 DEF CreatePostInsert

\* The avatar found is the row's.
LEMMA SetAvatarFindFiles ==
    ASSUME TypeOK, FilesRight, NEW r \in Requests, SetAvatarFind(r)
    PROVE  FilesRight'
<1>1. req[r] \in Upload /\ req[r].at \in UploadLocations /\ req[r].me \in Users
  BY TypeSplit, RequestCases DEF SetAvatarFind, At, RequestsTyped, UploadLocations
<1> DEFINE q == [req[r] EXCEPT !.at = "SetAvatar.update", !.prev = avatar[req[r].me]]
<1>2. avatar[req[r].me] \in SUBSET Files
  BY <1>1, TypeSplit DEF UsersTyped
<1>3. /\ q \in Upload /\ q.at = "SetAvatar.update" /\ q.me = req[r].me /\ q.files = req[r].files
      /\ q.prev = avatar[req[r].me]
  BY <1>1, <1>2 DEF Upload
<1>4. req' = [req EXCEPT ![r] = q]
  BY TypeSplit DEF SetAvatarFind, RequestsTyped
<1> HIDE DEF q
<1>5. q \in Request /\ q \notin Deletion
  BY <1>3, QuietRequest DEF Request, DeletionLocations
<1>6. UNCHANGED <<postVars, userVars, disk>>
  BY DEF SetAvatarFind
<1>7. \A f : Holds(q, f) => Holds(req[r], f)
  BY <1>1, <1>3 DEF Holds, UploadLocations
<1>8. \A f : Finds(q, f) => HasName(f)
  BY <1>1, <1>3 DEF Finds, HasName
<1>. QED  BY <1>1, <1>3, <1>4, <1>5, <1>6, <1>7, <1>8, QuietFiles

\* A failed upload deletes what it has stored.
LEMMA UploadFailsFiles ==
    ASSUME TypeOK, FilesRight, NEW r \in Requests, UploadFails(r)
    PROVE  FilesRight'
<1>1. req[r] \in Upload /\ req[r].at \in UploadLocations /\ req[r].me \in Users
        /\ req[r].files \in SUBSET Files
  BY TypeSplit, RequestCases DEF UploadFails, At, RequestsTyped, UploadLocations
<1> DEFINE q == [at |-> "cleanup", me |-> req[r].me, files |-> req[r].files]
<1>2. "cleanup" \in RemovalLocations
  BY DEF RemovalLocations
<1>3. q \in Request /\ q.at = "cleanup" /\ q.files = req[r].files
  BY <1>1, <1>2, RemovalRequest
<1>4. req' = [req EXCEPT ![r] = q] /\ UNCHANGED <<postVars, userVars, disk>>
  BY DEF UploadFails, Remove
<1> HIDE DEF q
<1>5. q \notin Deletion /\ q.at \notin UploadLocations
  BY <1>3, QuietRequest DEF DeletionLocations, UploadLocations
<1>6. \A f : (Holds(q, f) => Holds(req[r], f)) /\ ~Finds(q, f)
  BY <1>1, <1>3 DEF Holds, Finds, UploadLocations
<1>. QED  BY <1>3, <1>4, <1>5, <1>6, QuietFiles

\* What is deleted is no upload's.
LEMMA RemoveFilesFiles ==
    ASSUME TypeOK, FilesRight, NEW r \in Requests, RemoveFiles(r)
    PROVE  FilesRight'
<1>1. Idle \in Request /\ Idle.at = "idle" /\ Idle \notin Deletion /\ Idle.at \notin UploadLocations
  BY IdleRequest, QuietRequest DEF DeletionLocations, UploadLocations
<1>2. /\ \A f \in disk \ disk' : f \in req[r].files
      /\ req' = [req EXCEPT ![r] = Idle] /\ UNCHANGED <<postVars, userVars>>
      /\ req[r].at \in {"cleanup", "removeFiles"}
  BY DEF RemoveFiles, Reply, At
<1>3. /\ \A f : HasName(f)' <=> HasName(f)
      /\ \A u, f : Owned(u, f)' <=> Owned(u, f)
  BY <1>2 DEF HasName, Owned, postVars, userVars
<1>4. NamedOnce'
  BY <1>2 DEF FilesRight, NamedOnce, postVars, userVars
<1>5. ASSUME NEW s \in Requests, req[s] \in Deletion
      PROVE  req[s].me \notin gone' /\ \A f \in Files : Owned(req[s].me, f) => HasName(f)
  BY <1>2, <1>5 DEF FilesRight, DeletionsKnow, Deleting, userVars
<1>6. \A f \in disk \ disk' : Holds(req[r], f) /\ req[r].at \notin UploadLocations
  BY <1>2 DEF Holds, UploadLocations
<1>7. NamesRight(r)
  BY <1>2, <1>3, <1>5, <1>6 DEF NamesRight, userVars
<1>8. RequestRight(r, Idle)
  BY <1>1 DEF RequestRight, Holds, Finds
<1>. QED  BY <1>1, <1>2, <1>4, <1>7, <1>8, StepFiles

\* The commit of an avatar names its upload's file instead of the one that is
\* there, be it the one that was found or not.
LEMMA SetAvatarUpdateFiles ==
    ASSUME TypeOK, FilesRight, NEW r \in Requests, SetAvatarUpdate(r)
    PROVE  FilesRight'
<1> DEFINE u == req[r].me
<1>1. req[r] \in Upload /\ At(r, "SetAvatar.update") /\ req[r].at \in UploadLocations
        /\ u \in Users /\ req[r].files \in SUBSET Files /\ req[r].prev \in SUBSET Files
  BY TypeSplit, RequestCases DEF SetAvatarUpdate, At, RequestsTyped, UploadLocations, Upload
<1>2. /\ avatar'[u] = req[r].files
      /\ \A v \in Users \ {u} : avatar'[v] = avatar[v]
      /\ author' = author /\ images' = images /\ gone' = gone /\ disk' = disk
  BY <1>1, TypeSplit DEF UsersTyped, SetAvatarUpdate, postVars
<1>3. \A f \in req[r].files : ~HasName(f) /\ ~Finds(req[r], f)
  BY <1>1 DEF FilesRight, UploadsFresh
<1>4. \A s \in Requests \ {r} : req[s] \in Deletion => req[s].me # u
  BY DEF SetAvatarUpdate, UserFree, Deleting
<1> HIDE DEF u
<1>5. NamedOnce'
  BY <1>2, <1>3 DEF FilesRight, NamedOnce, HasName
<1>6. \A f : HasName(f)' => HasName(f) \/ f \in req[r].files
  BY <1>1, <1>2 DEF HasName
<1>7. \A f \in avatar[u] : HasName(f)' => f \in req[r].files
  BY <1>1, <1>2 DEF HasName, FilesRight, NamedOnce
<1>8. ASSUME NEW v \in Users, v # u, NEW f
      PROVE  Owned(v, f)' <=> Owned(v, f)
  BY <1>2, <1>8 DEF Owned
<1>9. \A v \in Users : \A f : Owned(v, f)' => HasName(f)'
  BY DEF Owned, HasName
<1>10. \A s \in Requests : req[s] \in Deletion => req[s].me \in Users /\ req[s].me \notin gone
  BY DEF FilesRight, DeletionsKnow, Deleting, Deletion
<1>11. \A v \in Users : \A f : f \in avatar[v] /\ HasName(f)' => f \in avatar'[v]
  BY <1>2, <1>7
<1>12. NamesRight(r)
  BY <1>1, <1>2, <1>4, <1>6, <1>8, <1>9, <1>10, <1>11 DEF NamesRight
<1>13. CASE Remove(r, "removeFiles", req[r].prev)
  <2> DEFINE q == [at |-> "removeFiles", me |-> req[r].me, files |-> req[r].prev]
  <2>1. "removeFiles" \in RemovalLocations
    BY DEF RemovalLocations
  <2>2. q \in Request /\ q.at = "removeFiles" /\ q.files = req[r].prev
    BY <1>1, <2>1, RemovalRequest DEF u
  <2>3. req' = [req EXCEPT ![r] = q]
    BY <1>13 DEF Remove
  <2> HIDE DEF q
  <2>4. q \notin Deletion /\ q.at \notin UploadLocations
    BY <2>2, QuietRequest DEF DeletionLocations, UploadLocations
  <2>5. \A f \in q.files : Finds(req[r], f)
    BY <1>1, <2>2 DEF Finds, At
  <2>6. \A f \in q.files : HasName(f) => f \in avatar[u]
    BY <1>1, <2>2 DEF FilesRight, FoundAreOwn, u
  <2>7. \A f \in q.files : ~HasName(f)'
    BY <1>3, <1>6, <1>7, <2>5, <2>6
  <2>8. RequestRight(r, q)
    BY <2>2, <2>4, <2>5, <2>7 DEF RequestRight, Holds, Finds
  <2>. QED  BY <1>5, <1>12, <2>2, <2>3, <2>8, StepFiles
<1>14. CASE Remove(r, "cleanup", req[r].files)
  <2> DEFINE q == [at |-> "cleanup", me |-> req[r].me, files |-> req[r].files]
  <2>1. "cleanup" \in RemovalLocations
    BY DEF RemovalLocations
  <2>2. q \in Request /\ q.at = "cleanup" /\ q.files = req[r].files
    BY <1>1, <2>1, RemovalRequest DEF u
  <2>3. req' = [req EXCEPT ![r] = q]
    BY <1>14 DEF Remove
  <2> HIDE DEF q
  <2>4. q \notin Deletion /\ q.at \notin UploadLocations
    BY <2>2, QuietRequest DEF DeletionLocations, UploadLocations
  <2>5. \A f : Holds(q, f) => Holds(req[r], f)
    BY <1>1, <2>2 DEF Holds, UploadLocations
  <2>6. RequestRight(r, q)
    BY <2>2, <2>4, <2>5 DEF RequestRight, Finds
  <2>. QED  BY <1>5, <1>12, <2>2, <2>3, <2>6, StepFiles
<1>. QED  BY <1>13, <1>14 DEF SetAvatarUpdate
\* Rows go, and the request goes to delete the files they named, or has not
\* heard of its commit.
LEMMA RowsGoFiles ==
    ASSUME TypeOK, FilesRight, NEW r \in Requests, NEW files \in SUBSET Files,
           req[r].at \in {"call", "DeleteMe.commit"}, req[r].me \in Users,
           Remove(r, "removeFiles", files) \/ Reply(r), disk' = disk,
           \A p \in Posts : \/ author'[p] = author[p] /\ images'[p] = images[p]
                            \/ author'[p] = {} /\ images'[p] = {},
           \A u \in Users : avatar'[u] = avatar[u] \/ avatar'[u] = {},
           \A f \in files : ~HasName(f)' /\ (HasName(f) \/ Holds(req[r], f)),
           \A s \in Requests \ {r} : req[s] \in Deletion => req[s].me \notin gone'
    PROVE  FilesRight'
<1>1. NamedOnce'
  BY DEF FilesRight, NamedOnce
<1>2. \A f : HasName(f)' => HasName(f)
  BY DEF HasName
<1>3. \A u \in Users : \A f : f \in avatar[u] /\ HasName(f)' => f \in avatar'[u]
  BY DEF HasName, FilesRight, NamedOnce
<1>4. \A u \in Users : \A f : Owned(u, f) /\ HasName(f)' <=> Owned(u, f)'
  BY DEF HasName, Owned, FilesRight, NamedOnce
<1>5. \A s \in Requests : req[s] \in Deletion => req[s].me \in Users
  BY DEF Deletion
<1>6. NamesRight(r)
  BY <1>2, <1>3, <1>4, <1>5 DEF NamesRight
<1>7. CASE Reply(r)
  <2>1. Idle \in Request /\ Idle.at = "idle" /\ Idle \notin Deletion /\ Idle.at \notin UploadLocations
    BY IdleRequest, QuietRequest DEF DeletionLocations, UploadLocations
  <2>2. RequestRight(r, Idle)
    BY <2>1 DEF RequestRight, Holds, Finds
  <2>. QED  BY <1>1, <1>6, <1>7, <2>1, <2>2, StepFiles DEF Reply
<1>8. CASE Remove(r, "removeFiles", files)
  <2> DEFINE q == [at |-> "removeFiles", me |-> req[r].me, files |-> files]
  <2>1. "removeFiles" \in RemovalLocations
    BY DEF RemovalLocations
  <2>2. q \in Request /\ q.at = "removeFiles" /\ q.files = files
    BY <2>1, RemovalRequest
  <2>3. req' = [req EXCEPT ![r] = q]
    BY <1>8 DEF Remove
  <2> HIDE DEF q
  <2>4. q \notin Deletion /\ q.at \notin UploadLocations
    BY <2>2, QuietRequest DEF DeletionLocations, UploadLocations
  <2>5. RequestRight(r, q)
    BY <2>2, <2>4 DEF RequestRight, Holds, Finds
  <2>. QED  BY <1>1, <1>6, <2>2, <2>3, <2>5, StepFiles
<1>. QED  BY <1>7, <1>8

LEMMA DeletePostFiles ==
    ASSUME TypeOK, FilesRight, NEW r \in Requests, NEW p \in Posts, DeletePost(r, p)
    PROVE  FilesRight'
<1>1. req[r].at = "call" /\ req[r].me \in Users
  <2>1. req[r] \in Request /\ req[r].at = "call"
    BY TypeSplit DEF RequestsTyped, DeletePost, Calls, At
  <2>. QED  BY <2>1, RequestCases
<1>2. images[p] \in SUBSET Files
  BY TypeSplit DEF PostsTyped
<1>3. /\ author' = [o \in Posts |-> IF o \in {p} THEN {} ELSE author[o]]
      /\ images' = [o \in Posts |-> IF o \in {p} THEN {} ELSE images[o]]
      /\ avatar' = avatar /\ gone' = gone /\ disk' = disk
  BY DEF DeletePost, DeletePosts, Without, userVars
<1>4. \A f \in images[p] : ~HasName(f)' /\ HasName(f)
  BY <1>3 DEF HasName, FilesRight, NamedOnce
<1>5. \A s \in Requests : req[s] \in Deletion => req[s].me \notin gone'
  BY <1>3 DEF FilesRight, DeletionsKnow, Deleting
<1>6. Remove(r, "removeFiles", images[p]) \/ Reply(r)
  BY DEF DeletePost
<1>. QED  BY <1>1, <1>2, <1>3, <1>4, <1>5, <1>6, RowsGoFiles

\* The commit of a deletion: the rows of its user are the ones it knows.
LEMMA CommitFiles ==
    ASSUME Inv, FilesRight, NEW r \in Requests, DeleteMeCommit(r)
    PROVE  FilesRight'
<1> DEFINE u == req[r].me
<1>1. req[r] \in Deletion /\ req[r].at = "DeleteMe.commit" /\ u \in Users /\ req[r].files \in SUBSET Files
  BY DeletionRequest DEF DeleteMeCommit, At, DeletionLocations
<1>2. TypeOK /\ PostsTyped /\ UsersTyped
  BY TypeSplit DEF Inv
<1>3. /\ author' = [p \in Posts |-> IF p \in Of(u) THEN {} ELSE author[p]]
      /\ images' = [p \in Posts |-> IF p \in Of(u) THEN {} ELSE images[p]]
      /\ avatar' = [avatar EXCEPT ![u] = {}] /\ gone' = gone \cup {u} /\ disk' = disk
      /\ Remove(r, "removeFiles", req[r].files) \/ Reply(r)
  BY DEF DeleteMeCommit, DeletePosts, Without
<1>4. \A f \in req[r].files : HasName(f) => Owned(u, f)
  BY <1>1 DEF FilesRight, DeletionsKnow, Deleting
<1>5. \A s \in Requests \ {r} : req[s] \in Deletion => req[s].me \notin gone'
  BY <1>1, <1>3 DEF Inv, OneDeletion, FilesRight, DeletionsKnow, Deleting
<1> HIDE DEF u
<1>6. \A f : HasName(f)' => HasName(f)
  BY <1>1, <1>2, <1>3 DEF HasName, UsersTyped
<1>7. \A f : Owned(u, f) => ~HasName(f)'
  BY <1>1, <1>2, <1>3 DEF HasName, Owned, FilesRight, NamedOnce, Of, UsersTyped
<1>8. \A f \in req[r].files : ~HasName(f)' /\ Holds(req[r], f)
  BY <1>1, <1>4, <1>6, <1>7 DEF Holds
<1>9. /\ \A p \in Posts : \/ author'[p] = author[p] /\ images'[p] = images[p]
                          \/ author'[p] = {} /\ images'[p] = {}
      /\ \A v \in Users : avatar'[v] = avatar[v] \/ avatar'[v] = {}
  BY <1>1, <1>2, <1>3 DEF UsersTyped
<1>. QED  BY <1>1, <1>2, <1>3, <1>5, <1>8, <1>9, RowsGoFiles DEF u

\* A deletion that reads goes on with what it has.
LEMMA ReadingFiles ==
    ASSUME TypeOK, TypeOK', FilesRight, NEW r \in Requests,
           DeletionStep(r), ~DeleteMeCommit(r)
    PROVE  FilesRight'
<1>1. req[r] \in Request /\ req[r].at \in DeletionLocations
  BY TypeSplit DEF RequestsTyped, DeletionStep, DeleteMeFindLikes, DeleteMeLockLiked,
     DeleteMeFindComments, DeleteMeLockCounted, At, DeletionLocations
<1>2. Deleting(r) /\ req[r].at # "idle"
  BY <1>1, RequestCases DEF Deleting, DeletionLocations
<1>3. PICK q : q = req'[r]
  OBVIOUS
<1>4. q.me = req[r].me /\ q.files = req[r].files /\ q.at \in DeletionLocations
  <2>0. req[r] \in Deletion /\ req \in [Requests -> Request]
    BY <1>2, TypeSplit DEF Deleting, RequestsTyped
  <2>1. CASE DeleteMeFindLikes(r)
    <3>1. PICK liked : req' = [req EXCEPT ![r].at = "DeleteMe.likes", ![r].liked = liked]
      BY <2>1 DEF DeleteMeFindLikes
    <3>. QED  BY <1>3, <2>0, <3>1 DEF Deletion, DeletionLocations
  <2>2. CASE DeleteMeLockLiked(r)
    <3>1. PICK liked : req' = [req EXCEPT ![r].at = "DeleteMe.comments", ![r].liked = liked,
                                          ![r].locked = liked]
      BY <2>2 DEF DeleteMeLockLiked
    <3>. QED  BY <1>3, <2>0, <3>1 DEF Deletion, DeletionLocations
  <2>3. CASE DeleteMeFindComments(r)
    <3>1. PICK counted : req' = [req EXCEPT ![r].at = "DeleteMe.count", ![r].counted = counted]
      BY <2>3 DEF DeleteMeFindComments
    <3>. QED  BY <1>3, <2>0, <3>1 DEF Deletion, DeletionLocations
  <2>4. CASE DeleteMeLockCounted(r)
    <3>1. PICK counted : req' = [req EXCEPT ![r].at = "DeleteMe.commit", ![r].locked = @ \cup counted]
      BY <2>4 DEF DeleteMeLockCounted
    <3>. QED  BY <1>3, <2>0, <3>1 DEF Deletion, DeletionLocations
  <2>. QED  BY <2>1, <2>2, <2>3, <2>4 DEF DeletionStep
<1>5. q \in Request /\ req' = [req EXCEPT ![r] = q]
  BY <1>3, TypeSplit, TypeSplitNext
  DEF RequestsTyped, DeletionStep, DeleteMeFindLikes, DeleteMeLockLiked,
      DeleteMeFindComments, DeleteMeLockCounted
<1>6. UNCHANGED <<postVars, userVars, disk>>
  BY DEF DeletionStep, DeleteMeFindLikes, DeleteMeLockLiked, DeleteMeFindComments, DeleteMeLockCounted
<1>7. q.at \notin UploadLocations /\ q.at # "removeFiles" /\ q.at # "SetAvatar.update"
  BY <1>4 DEF UploadLocations, DeletionLocations
<1>8. q.me \notin gone /\ \A f \in Files : (f \in q.files /\ HasName(f)) <=> Owned(q.me, f)
  BY <1>2, <1>4 DEF FilesRight, DeletionsKnow
<1>9. \A f : (Holds(q, f) => Holds(req[r], f)) /\ ~Finds(q, f)
  BY <1>2, <1>4, <1>7 DEF Holds, Finds
<1>. QED  BY <1>5, <1>6, <1>7, <1>8, <1>9, QuietFiles

LEMMA CallingFiles ==
    ASSUME TypeOK, FilesRight, NEW r \in Requests, NEW p \in Posts, Calling(r, p)
    PROVE  FilesRight'
<1>1. CASE DeletePost(r, p)
  BY <1>1, DeletePostFiles
<1>2. CASE Reply(r) /\ UNCHANGED <<postVars, userVars, disk>>
  BY <1>2, ReplyFiles
<1>. QED  BY <1>1, <1>2 DEF Calling, Like, Unlike, AddComment, DeleteComment

LEMMA CrashFiles ==
    ASSUME FilesRight, Crash
    PROVE  FilesRight'
<1>1. \A s \in Requests : req'[s] = Idle
  BY DEF Crash
<1>2. Idle.at = "idle" /\ Idle \notin Deletion /\ Idle.at \notin UploadLocations
  BY IdleRequest, QuietRequest DEF DeletionLocations, UploadLocations
<1>3. NamedOnce'
  BY DEF Crash, FilesRight, NamedOnce, postVars, userVars
<1>. QED
  BY <1>1, <1>2, <1>3
  DEF FilesRight, UploadsFresh, RemovalsOver, FoundAreOwn, DeletionsKnow, At, Deleting

LEMMA StutterFiles ==
    ASSUME FilesRight, UNCHANGED vars
    PROVE  FilesRight'
<1>1. UNCHANGED <<author, images, avatar, gone, disk, req>>
  BY DEF vars
<1>2. /\ \A f : HasName(f)' <=> HasName(f)
      /\ \A u, f : Owned(u, f)' <=> Owned(u, f)
  BY <1>1 DEF HasName, Owned
<1>3. NamedOnce' /\ UploadsFresh'
  BY <1>1, <1>2 DEF FilesRight, NamedOnce, UploadsFresh, Holds, Finds
<1>4. RemovalsOver' /\ FoundAreOwn'
  BY <1>1, <1>2 DEF FilesRight, RemovalsOver, FoundAreOwn, At
<1>5. DeletionsKnow'
  BY <1>1, <1>2 DEF FilesRight, DeletionsKnow, Deleting, Owned, HasName
<1>. QED  BY <1>3, <1>4, <1>5 DEF FilesRight

LEMMA FilesInductive == Inv /\ FilesRight /\ [Next]_vars => FilesRight'
<1> SUFFICES ASSUME Inv, FilesRight, [Next]_vars PROVE FilesRight'
  OBVIOUS
<1>0. TypeOK /\ TypeOK'
  BY Inductive DEF Inv
<1>1. ASSUME NEW r \in Requests, Uploading(r) PROVE FilesRight'
  BY <1>0, <1>1, SaveImageFiles, CreatePostInsertFiles, SetAvatarFindFiles, SetAvatarUpdateFiles,
     SaveImageFailsFiles, UploadFailsFiles, RemoveFilesFiles DEF Uploading
<1>2. ASSUME NEW r \in Requests, DeletionStep(r) PROVE FilesRight'
  BY <1>0, <1>2, ReadingFiles, CommitFiles
<1>3. ASSUME NEW r \in Requests, Abort(r) PROVE FilesRight'
  BY <1>0, <1>3, ReplyFiles DEF Abort
<1>. QED
  BY <1>0, <1>1, <1>2, <1>3, ArrivalFiles, CallingFiles, CrashFiles, StutterFiles DEF Next

LEMMA FilesInit == Init => FilesRight
<1> SUFFICES ASSUME Init PROVE FilesRight
  OBVIOUS
<1>1. Idle.at = "idle" /\ Idle \notin Deletion /\ Idle.at \notin UploadLocations
  BY IdleRequest, QuietRequest DEF DeletionLocations, UploadLocations
<1>. QED
  BY <1>1 DEF Init, FilesRight, NamedOnce, UploadsFresh, RemovalsOver, FoundAreOwn, DeletionsKnow,
     At, Deleting

LEMMA AlwaysFiles == Spec => [](Inv /\ FilesRight)
<1>1. Init => Inv /\ FilesRight
  BY InvInit, FilesInit
<1>2. Inv /\ FilesRight /\ [Next]_vars => (Inv /\ FilesRight)'
  BY Inductive, FilesInductive
<1>. QED  BY <1>1, <1>2, PTL DEF Spec
-----------------------------------------------------------------------------
(* Files that are missing, files that are left                             *)

\* Rows come to name only what an upload has stored.
LEMMA NamesCome ==
    ASSUME TypeOK, Next, NEW f, HasName(f)', ~HasName(f)
    PROVE  \E r \in Requests : req[r].at \in UploadLocations /\ f \in req[r].files /\ disk' = disk
<1>1. PostsTyped /\ UsersTyped
  BY TypeSplit
<1>2. ASSUME NEW r \in Requests, CreatePostInsert(r)
      PROVE  req[r].at \in UploadLocations /\ f \in req[r].files /\ disk' = disk
  BY <1>1, <1>2 DEF CreatePostInsert, At, HasName, PostsTyped, userVars, UploadLocations
<1>3. ASSUME NEW r \in Requests, SetAvatarUpdate(r)
      PROVE  req[r].at \in UploadLocations /\ f \in req[r].files /\ disk' = disk
  BY <1>1, <1>3 DEF SetAvatarUpdate, At, HasName, UsersTyped, postVars, UploadLocations
<1>4. ASSUME NEW r \in Requests, DeleteMeCommit(r) \/ \E p \in Posts : DeletePost(r, p)
      PROVE  FALSE
  BY <1>1, <1>4
  DEF DeleteMeCommit, DeletePost, DeletePosts, Without, HasName, PostsTyped, UsersTyped, userVars
<1>5. ~(images' = images /\ avatar' = avatar)
  BY DEF HasName
<1>. QED
  BY <1>2, <1>3, <1>4, <1>5
  DEF Next, Arrival, CreatePost, SetAvatar, Accept, DeleteMe, Uploading, SaveImage, SaveImageFails, SetAvatarFind,
      UploadFails, RemoveFiles, Calling, Like, Unlike, AddComment, DeleteComment, DeletionStep,
      DeleteMeFindLikes, DeleteMeLockLiked, DeleteMeFindComments, DeleteMeLockCounted, Abort, Crash,
      postVars, userVars

\* Files go only by RemoveFiles.
LEMMA FilesGo ==
    ASSUME Next, NEW f \in disk \ disk'
    PROVE  \E r \in Requests : RemoveFiles(r)
  BY DEF Next, Arrival, CreatePost, SetAvatar, Accept, DeleteMe, Uploading, SaveImage, SaveImageFails,
      CreatePostInsert, SetAvatarFind, SetAvatarUpdate, UploadFails, Calling, DeletePost, Like,
      Unlike, AddComment, DeleteComment, DeletionStep, DeleteMeFindLikes, DeleteMeLockLiked,
      DeleteMeFindComments, DeleteMeLockCounted, DeleteMeCommit, Abort, Crash

\* A post or avatar is left without its file only by the clean-up after a
\* COMMIT whose answer was lost: no order of uploads, deletions and failures
\* deletes a file that a row names, or names one that is gone.
THEOREM FilesBreakByLostAnswers == Spec => OnlyLostAnswersBreak
<1>1. ASSUME Inv, FilesRight, Next, NEW f \in Broken' \ Broken
      PROVE  \E r \in Requests : At(r, "cleanup") /\ At(r, "idle")' /\ f \in req[r].files
  <2>1. HasName(f)' /\ f \notin disk' /\ (~HasName(f) \/ f \in disk)
    BY <1>1, NamedFacts DEF Broken
  <2>2. HasName(f)
    <3>. SUFFICES ASSUME ~HasName(f) PROVE FALSE
      OBVIOUS
    <3>1. PICK r \in Requests : req[r].at \in UploadLocations /\ f \in req[r].files /\ disk' = disk
      BY <1>1, <2>1, NamesCome DEF Inv
    <3>. QED  BY <1>1, <2>1, <3>1 DEF FilesRight, UploadsFresh
  <2>3. PICK r \in Requests : RemoveFiles(r)
    BY <1>1, <2>1, <2>2, FilesGo
  <2>4. f \in req[r].files
    BY <2>1, <2>2, <2>3 DEF RemoveFiles
  <2>5. ~At(r, "removeFiles")
    BY <1>1, <2>2, <2>4 DEF FilesRight, RemovalsOver
  <2>6. At(r, "idle")'
    BY <1>1, <2>3, TypeSplit, IdleRequest DEF RemoveFiles, Reply, At, Inv, RequestsTyped
  <2>. QED  BY <2>3, <2>4, <2>5, <2>6 DEF RemoveFiles
<1>2. Inv /\ FilesRight /\ [Next]_vars
        => [\A f \in Broken' \ Broken :
              \E r \in Requests : At(r, "cleanup") /\ At(r, "idle")' /\ f \in req[r].files]_vars
  BY <1>1
<1>. QED  BY <1>2, AlwaysFiles, PTL DEF Spec, OnlyLostAnswersBreak

\* Nobody forgets a file in a step that leaves what it knew to a row or to the
\* request.
WillDelete(q, f) == Holds(q, f) /\ q \notin Deletion
Forgotten(f) == f \in Orphans' \ Orphans

LEMMA NothingForgotten ==
    ASSUME NEW r \in Requests, NEW q, q = req'[r], \A s \in Requests \ {r} : req'[s] = req[s],
           NEW x,
           x \in disk' => x \in disk \/ WillDelete(q, x),
           HasName(x) \/ WillDelete(req[r], x) => HasName(x)' \/ WillDelete(q, x)
    PROVE  ~Forgotten(x)
<1> SUFFICES ASSUME x \in Orphans' PROVE x \in disk /\ ~HasName(x) /\ ~Kept(x)
  BY OrphanFacts DEF Forgotten
<1>1. x \in disk' /\ ~HasName(x)' /\ ~Kept(x)'
  BY OrphanFacts
<1>2. \A s \in Requests : ~WillDelete(req'[s], x)
  BY <1>1 DEF Kept, Deleting, WillDelete, Holds
<1>3. \A s \in Requests : ~WillDelete(req[s], x)
  BY <1>1, <1>2
<1>. QED  BY <1>1, <1>2, <1>3 DEF Kept, Deleting, WillDelete

\* Leaving rows and files alone, a request must only keep its files.
LEMMA NothingDropped ==
    ASSUME TypeOK, NEW r \in Requests, NEW q, req' = [req EXCEPT ![r] = q],
           UNCHANGED <<postVars, userVars, disk>>, NEW x,
           WillDelete(req[r], x) => WillDelete(q, x)
    PROVE  ~Forgotten(x)
<1>1. q = req'[r] /\ \A s \in Requests \ {r} : req'[s] = req[s]
  BY TypeSplit DEF RequestsTyped
<1>2. HasName(x)' <=> HasName(x)
  BY DEF HasName, postVars, userVars
<1>. QED  BY <1>1, <1>2, NothingForgotten

LEMMA ArrivalDropsNothing ==
    ASSUME TypeOK, NEW r \in Requests, NEW u \in Users, Arrival(r, u), NEW x
    PROVE  ~Forgotten(x)
<1>1. PICK q : req' = [req EXCEPT ![r] = q]
  BY DEF Arrival, CreatePost, SetAvatar, Accept, DeleteMe
<1>2. ~WillDelete(req[r], x)
  BY DEF Arrival, CreatePost, SetAvatar, Accept, DeleteMe, At, WillDelete, Holds
<1>3. UNCHANGED <<postVars, userVars, disk>>
  BY DEF Arrival, CreatePost, SetAvatar, Accept, DeleteMe
<1>. QED  BY <1>1, <1>2, <1>3, NothingDropped

\* A new image is the upload's, unless a write or a removal fails.
LEMMA SavingDropsNothing ==
    ASSUME TypeOK, NEW r \in Requests, SaveImage(r) \/ SaveImageFails(r), NEW x, ~WriteFails(r, x)
    PROVE  ~Forgotten(x)
<1>0. RequestsTyped
  BY TypeSplit
<1>1. req[r] \in Upload /\ req[r].at \in {"CreatePost", "SetAvatar"} /\ Saves(r)
  BY <1>0, RequestCases DEF SaveImage, SaveImageFails, Saves, At, RequestsTyped, UploadLocations
<1>2. HasName(x)' <=> HasName(x)
  BY DEF SaveImage, SaveImageFails, HasName, postVars, userVars
<1>3. PICK q : q = req'[r]
  OBVIOUS
<1>4. \A s \in Requests \ {r} : req'[s] = req[s]
  BY <1>0 DEF SaveImage, SaveImageFails, Remove, RequestsTyped
<1>5. q.at \in {"CreatePost", "SetAvatar", "cleanup"} /\ req[r].files \subseteq q.files
  <2>1. CASE SaveImage(r)
    <3>1. PICK f : req' = [req EXCEPT ![r] = [req[r] EXCEPT !.files = @ \cup {f}]]
      BY <1>0, <1>1, <2>1 DEF SaveImage, RequestsTyped, Upload
    <3>2. q = [req[r] EXCEPT !.files = @ \cup {f}]
      BY <1>0, <1>3, <3>1 DEF RequestsTyped
    <3>3. q.at = req[r].at /\ q.files = req[r].files \cup {f}
      BY <1>1, <3>2 DEF Upload
    <3>. QED  BY <1>1, <3>3
  <2>2. CASE SaveImageFails(r)
    BY <1>0, <1>3, <2>2 DEF SaveImageFails, Remove, RequestsTyped
  <2>. QED  BY <2>1, <2>2
<1>6. \A f \in q.files : WillDelete(q, f)
  BY <1>5 DEF WillDelete, Holds, Deletion
<1>7. x \in disk \/ x \in q.files
  BY <1>1, <1>3 DEF WriteFails
<1>. QED  BY <1>2, <1>3, <1>4, <1>5, <1>6, <1>7, NothingForgotten DEF WillDelete, Holds

\* What an upload holds goes to a row or to the clean-up, and the avatar it
\* replaces to the removal, if it is the one it has found and knows that it has
\* replaced it.
LEMMA UploadingDropsNothing ==
    ASSUME Inv, FilesRight, NEW r \in Requests, Uploading(r), NEW x,
           ~RemovalFails(r, x), ~WriteFails(r, x), ~AnswerLost(r, x), ~Overtaken(r, x)
    PROVE  ~Forgotten(x)
<1>0. TypeOK /\ PostsTyped /\ UsersTyped /\ RequestsTyped
  BY TypeSplit DEF Inv
<1>1. CASE SaveImage(r) \/ SaveImageFails(r)
  BY <1>0, <1>1, SavingDropsNothing
<1>2. CASE CreatePostInsert(r)
  <2>1. req[r].at = "CreatePost" /\ disk' = disk /\ avatar' = avatar
    BY <1>2 DEF CreatePostInsert, At, userVars
  <2>2. PICK p \in Posts : author[p] = {} /\ images' = [images EXCEPT ![p] = req[r].files]
    BY <1>2 DEF CreatePostInsert, Exists
  <2>3. HasName(x) \/ x \in req[r].files => HasName(x)'
    BY <1>0, <2>1, <2>2 DEF HasName, PostsTyped, FilesRight, NamedOnce
  <2>4. PICK q : q = req'[r]
    OBVIOUS
  <2>5. \A s \in Requests \ {r} : req'[s] = req[s]
    BY <1>0, <1>2 DEF CreatePostInsert, Reply, Remove, RequestsTyped
  <2>. QED  BY <2>1, <2>3, <2>4, <2>5, NothingForgotten DEF WillDelete, Holds
<1>3. CASE SetAvatarFind(r)
  <2>1. req[r] \in Upload
    BY <1>0, <1>3, RequestCases DEF SetAvatarFind, At, RequestsTyped, UploadLocations
  <2> DEFINE q == [req[r] EXCEPT !.at = "SetAvatar.update", !.prev = avatar[req[r].me]]
  <2>2. req' = [req EXCEPT ![r] = q] /\ UNCHANGED <<postVars, userVars, disk>>
    BY <1>0, <1>3 DEF SetAvatarFind, RequestsTyped
  <2>3. q.at = "SetAvatar.update" /\ q.files = req[r].files
    BY <2>1 DEF Upload
  <2> HIDE DEF q
  <2>4. WillDelete(req[r], x) => WillDelete(q, x)
    BY <2>3 DEF WillDelete, Holds, Deletion
  <2>. QED  BY <1>0, <2>2, <2>4, NothingDropped
<1>4. CASE SetAvatarUpdate(r)
  <2> DEFINE u == req[r].me
  <2>1. At(r, "SetAvatar.update") /\ req[r] \in Upload /\ u \in Users /\ disk' = disk /\ images' = images
    BY <1>0, <1>4, RequestCases DEF SetAvatarUpdate, At, RequestsTyped, UploadLocations, postVars
  <2>2. avatar'[u] = req[r].files /\ \A v \in Users \ {u} : avatar'[v] = avatar[v]
    BY <1>0, <1>4, <2>1 DEF SetAvatarUpdate, UsersTyped
  <2>3. PICK q : q = req'[r]
    OBVIOUS
  <2>4. \A s \in Requests \ {r} : req'[s] = req[s]
    BY <1>0, <1>4 DEF SetAvatarUpdate, Remove, RequestsTyped
  <2>5. x \in req[r].files => HasName(x)'
    BY <2>1, <2>2 DEF HasName
  <2>6. HasName(x) /\ x \notin avatar[u] => HasName(x)'
    BY <2>1, <2>2 DEF HasName
  <2>7. CASE Remove(r, "removeFiles", req[r].prev)
    <3>1. q.at = "removeFiles" /\ q.files = req[r].prev
      BY <1>0, <2>3, <2>7 DEF Remove, RequestsTyped
    <3>2. x \in avatar[u] => x \in req[r].prev
      BY <2>1, <2>3, <3>1 DEF At, Overtaken
    <3>3. x \in avatar[u] => WillDelete(q, x)
      BY <3>1, <3>2 DEF WillDelete, Holds, Deletion
    <3> HIDE DEF u
    <3>. QED  BY <2>1, <2>3, <2>4, <2>5, <2>6, <3>3, NothingForgotten DEF WillDelete, Holds
  <2>8. CASE Remove(r, "cleanup", req[r].files)
    <3>1. q.at = "cleanup"
      BY <1>0, <2>3, <2>8 DEF Remove, RequestsTyped
    <3>2. ~HasName(x)
      BY <2>1, <2>3, <3>1, NamedFacts DEF At, AnswerLost
    <3>. QED  BY <2>1, <2>3, <2>4, <2>5, <3>2, NothingForgotten DEF WillDelete, Holds
  <2>. QED  BY <1>4, <2>7, <2>8 DEF SetAvatarUpdate
<1>5. CASE UploadFails(r)
  <2> DEFINE q == [at |-> "cleanup", me |-> req[r].me, files |-> req[r].files]
  <2>1. req' = [req EXCEPT ![r] = q] /\ UNCHANGED <<postVars, userVars, disk>>
    BY <1>5 DEF UploadFails, Remove
  <2>2. q.at = "cleanup" /\ q.files = req[r].files
    OBVIOUS
  <2> HIDE DEF q
  <2>3. WillDelete(req[r], x) => WillDelete(q, x)
    BY <2>2 DEF WillDelete, Holds, Deletion
  <2>. QED  BY <1>0, <2>1, <2>3, NothingDropped
<1>6. CASE RemoveFiles(r)
  <2>1. disk' \subseteq disk /\ UNCHANGED <<postVars, userVars>>
    BY <1>6 DEF RemoveFiles
  <2>2. \A s \in Requests \ {r} : req'[s] = req[s]
    BY <1>0, <1>6 DEF RemoveFiles, Reply, RequestsTyped
  <2>3. HasName(x)' <=> HasName(x)
    BY <2>1 DEF HasName, postVars, userVars
  <2>4. PICK q : q = req'[r]
    OBVIOUS
  <2>5. At(r, "idle")'
    BY <1>0, <1>6, IdleRequest DEF RemoveFiles, Reply, At, RequestsTyped
  <2>6. x \notin req[r].files
    BY <1>6, <2>5 DEF RemoveFiles, RemovalFails
  <2>. QED  BY <2>1, <2>2, <2>3, <2>4, <2>6, NothingForgotten DEF WillDelete, Holds
<1>. QED  BY <1>1, <1>2, <1>3, <1>4, <1>5, <1>6 DEF Uploading

\* A post's files go to the removal, if its deletion is known to be committed.
LEMMA CallingDropsNothing ==
    ASSUME Inv, FilesRight, NEW r \in Requests, NEW p \in Posts, Calling(r, p), NEW x,
           ~AnswerLost(r, x)
    PROVE  ~Forgotten(x)
<1>0. TypeOK /\ PostsTyped /\ RequestsTyped
  BY TypeSplit DEF Inv
<1>1. At(r, "call") /\ ~WillDelete(req[r], x)
  <2>1. At(r, "call")
    BY DEF Calling, DeletePost, Like, Unlike, AddComment, DeleteComment, Calls
  <2>2. req[r] \in Call
    BY <1>0, <2>1, RequestCases DEF At, RequestsTyped
  <2>. QED  BY <2>1, <2>2 DEF Call, At, WillDelete, Holds
<1>2. PICK q : q = req'[r]
  OBVIOUS
<1>3. \A s \in Requests \ {r} : req'[s] = req[s]
  BY <1>0 DEF Calling, DeletePost, Like, Unlike, AddComment, DeleteComment, Reply, Remove, RequestsTyped
<1>4. disk' = disk /\ avatar' = avatar
  BY DEF Calling, DeletePost, Like, Unlike, AddComment, DeleteComment, userVars
<1>5. CASE images' = images
  <2>1. HasName(x)' <=> HasName(x)
    BY <1>4, <1>5 DEF HasName
  <2>. QED  BY <1>1, <1>2, <1>3, <1>4, <2>1, NothingForgotten
<1>6. CASE images' # images
  <2>1. DeletePost(r, p)
    BY <1>6 DEF Calling, Like, Unlike, AddComment, DeleteComment, postVars
  <2>2. CASE Reply(r)
    <3>1. At(r, "idle")'
      BY <1>0, <2>2, IdleRequest DEF Reply, At, RequestsTyped
    <3>2. ~HasName(x)
      BY <1>1, <3>1, NamedFacts DEF AnswerLost
    <3>. QED  BY <1>1, <1>2, <1>3, <1>4, <3>2, NothingForgotten
  <2>3. CASE Remove(r, "removeFiles", images[p])
    <3>1. q.at = "removeFiles" /\ q.files = images[p]
      BY <1>0, <1>2, <2>3 DEF Remove, RequestsTyped
    <3>2. x \in images[p] => WillDelete(q, x)
      BY <3>1 DEF WillDelete, Holds, Deletion
    <3>3. HasName(x) => HasName(x)' \/ x \in images[p]
      BY <1>4, <2>1 DEF HasName, DeletePost, DeletePosts, Without
    <3>. QED  BY <1>1, <1>2, <1>3, <1>4, <3>2, <3>3, NothingForgotten
  <2>. QED  BY <2>1, <2>2, <2>3 DEF DeletePost
<1>. QED  BY <1>5, <1>6

LEMMA DeletionDropsNothing ==
    ASSUME Inv, FilesRight, NEW r \in Requests, DeletionStep(r), NEW x, ~AnswerLost(r, x)
    PROVE  ~Forgotten(x)
<1>0. TypeOK /\ PostsTyped /\ UsersTyped /\ RequestsTyped /\ disk \subseteq Files
  BY TypeSplit DEF Inv, DiskTyped
<1>1. req[r] \in Deletion
  BY DeletionRequest DEF DeletionStep, DeleteMeFindLikes, DeleteMeLockLiked, DeleteMeFindComments,
     DeleteMeLockCounted, DeleteMeCommit, At, DeletionLocations
<1>2. ~WillDelete(req[r], x)
  BY <1>1 DEF WillDelete
<1>3. PICK q : q = req'[r]
  OBVIOUS
<1>4. \A s \in Requests \ {r} : req'[s] = req[s]
  BY <1>0 DEF DeletionStep, DeleteMeFindLikes, DeleteMeLockLiked, DeleteMeFindComments,
     DeleteMeLockCounted, DeleteMeCommit, Reply, Remove, RequestsTyped
<1>5. disk' = disk
  BY DEF DeletionStep, DeleteMeFindLikes, DeleteMeLockLiked, DeleteMeFindComments,
     DeleteMeLockCounted, DeleteMeCommit
<1>6. CASE ~DeleteMeCommit(r)
  <2>1. images' = images /\ avatar' = avatar
    BY <1>6 DEF DeletionStep, DeleteMeFindLikes, DeleteMeLockLiked, DeleteMeFindComments,
       DeleteMeLockCounted, postVars, userVars
  <2>2. HasName(x)' <=> HasName(x)
    BY <2>1 DEF HasName
  <2>. QED  BY <1>2, <1>3, <1>4, <1>5, <2>2, NothingForgotten
<1>7. CASE DeleteMeCommit(r)
  <2> DEFINE u == req[r].me
  <2>1. u \in Users /\ \A f \in Files : Owned(u, f) => f \in req[r].files
    BY <1>1 DEF FilesRight, DeletionsKnow, Deleting, Deletion
  <2>2. CASE Reply(r)
    <3>1. At(r, "DeleteMe.commit") /\ At(r, "idle")'
      BY <1>0, <1>7, <2>2, IdleRequest DEF DeleteMeCommit, Reply, At, RequestsTyped
    <3>2. ~HasName(x)
      BY <3>1, NamedFacts DEF AnswerLost
    <3>. QED  BY <1>2, <1>3, <1>4, <1>5, <3>2, NothingForgotten
  <2>3. CASE Remove(r, "removeFiles", req[r].files)
    <3>1. q.at = "removeFiles" /\ q.files = req[r].files
      BY <1>0, <1>3, <2>3 DEF Remove, RequestsTyped
    <3>2. x \in req[r].files => WillDelete(q, x)
      BY <3>1 DEF WillDelete, Holds, Deletion
    <3>3. /\ images' = [p \in Posts |-> IF p \in Of(u) THEN {} ELSE images[p]]
          /\ avatar' = [avatar EXCEPT ![u] = {}]
      BY <1>7 DEF DeleteMeCommit, DeletePosts, Without
    <3> HIDE DEF u
    <3>4. HasName(x) => HasName(x)' \/ Owned(u, x)
      BY <1>0, <2>1, <3>3 DEF HasName, Owned, Of, UsersTyped
    <3>5. HasName(x) => x \in Files
      BY <1>0 DEF HasName, PostsTyped, UsersTyped
    <3>. QED  BY <1>2, <1>3, <1>4, <1>5, <2>1, <3>2, <3>4, <3>5, NothingForgotten
  <2>. QED  BY <1>7, <2>2, <2>3 DEF DeleteMeCommit
<1>. QED  BY <1>6, <1>7

LEMMA AbortDropsNothing ==
    ASSUME Inv, NEW r \in Requests, Abort(r), NEW x
    PROVE  ~Forgotten(x)
<1>1. TypeOK /\ req[r] \in Request
  BY TypeSplit DEF Inv, RequestsTyped, Abort
<1>2. req[r] \in Call \/ req[r] \in Deletion
  BY <1>1, RequestCases DEF Abort, At, Deleting
<1>3. ~WillDelete(req[r], x)
  BY <1>2 DEF WillDelete, Holds, Call
<1>. QED  BY <1>1, <1>3, NothingDropped DEF Abort, Reply

\* A file is forgotten only when the process stops, a write or a removal of the
\* file fails, the answer to the COMMIT that took its name is lost, or another
\* SetAvatar has overtaken the one that was to delete it.
THEOREM FilesLeakByKnownCauses == Spec => OnlyKnownLeaks
<1>1. ASSUME Inv, FilesRight, Next, ~Crash, NEW x \in Orphans' \ Orphans
      PROVE  \E r \in Requests :
                RemovalFails(r, x) \/ WriteFails(r, x) \/ AnswerLost(r, x) \/ Overtaken(r, x)
  <2>1. TypeOK /\ Forgotten(x)
    BY <1>1 DEF Inv, Forgotten
  <2>. QED  BY <1>1, <2>1, ArrivalDropsNothing, UploadingDropsNothing, CallingDropsNothing,
                DeletionDropsNothing, AbortDropsNothing DEF Next
<1>2. Inv /\ FilesRight /\ [Next]_vars
        => [Crash \/ \A f \in Orphans' \ Orphans : \E r \in Requests :
              RemovalFails(r, f) \/ WriteFails(r, f) \/ AnswerLost(r, f) \/ Overtaken(r, f)]_vars
  BY <1>1
<1>. QED  BY <1>2, AlwaysFiles, PTL DEF Spec, OnlyKnownLeaks
=============================================================================
