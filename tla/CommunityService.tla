-------------------------- MODULE CommunityService --------------------------
(***************************************************************************)
(* Posts with their likes, comments and image files (service/posts.go),    *)
(* stored images (service/media.go), avatars and the deletion of an        *)
(* account (service/users.go).                                             *)
(*                                                                         *)
(* A transaction changes what others see in one step, its commit, and a    *)
(* transaction of one such step waits for rows that others have locked.    *)
(* DeleteMe's is several steps, because each of its statements reads its   *)
(* own snapshot (READ COMMITTED).  What a COMMIT did may stay unknown to   *)
(* the handler: the connection may break before its answer.  Transactions  *)
(* that wait for each other are a statement that fails, as all errors are. *)
(*                                                                         *)
(* Of an image and its thumbnail, which are written, named and removed     *)
(* each for itself, one is modelled, whichever.  A write or a removal may  *)
(* fail, and leave what there is.  A post, file or comment that is gone,   *)
(* and in no request's hands, may be a new one later.                      *)
(***************************************************************************)
EXTENDS Integers, FiniteSets

CONSTANTS
    Users,      \* accounts
    Posts,      \* ids of posts
    Comments,   \* ids of the comments of one user on one post
    Files,      \* names of stored images
    Requests    \* handler goroutines that may run at the same time

VARIABLES
    author,         \* posts.author_id, {} without a row
    images,         \* post_images of each post
    likers,         \* likes: users per post
    likeCount,      \* posts.like_count
    comments,       \* comments: <<user, id>> per post
    commentCount,   \* posts.comment_count
    avatar,         \* users.avatar_path, {} when NULL
    gone,           \* users with deleted_at set
    disk,           \* files in the storage directory
    req             \* the requests in flight

postVars == <<author, images>>
likeVars == <<likers, likeCount>>
commentVars == <<comments, commentCount>>
userVars == <<avatar, gone>>
vars == <<author, images, likers, likeCount, comments, commentCount, avatar, gone, disk, req>>

Idle == [at |-> "idle"]

\* Files saved, and the avatar_path SetAvatar's UPDATE has found.
Upload ==
    [at : {"CreatePost", "SetAvatar", "SetAvatar.update"},
     me : Users, files : SUBSET Files, prev : SUBSET Files]

\* ToggleLike, AddComment, DeleteComment or DeletePost, past the middleware.
Call == [at : {"call"}, me : Users, files : {{}}]

\* Files to delete: those of an upload that failed, or of rows that are gone.
Removal == [at : {"cleanup", "removeFiles"}, me : Users, files : SUBSET Files]

\* DeleteMe: posts whose likes and comments its UPDATEs count, and have locked.
Deletion ==
    [at : {"DeleteMe", "DeleteMe.likes", "DeleteMe.comments", "DeleteMe.count", "DeleteMe.commit"},
     me : Users, files : SUBSET Files,
     liked : SUBSET Posts, counted : [Posts -> Nat], locked : SUBSET Posts]

TypeOK ==
    /\ author \in [Posts -> {{}} \cup {{u} : u \in Users}]
    /\ images \in [Posts -> SUBSET Files]
    /\ likers \in [Posts -> SUBSET Users]
    /\ likeCount \in [Posts -> Nat]
    /\ comments \in [Posts -> SUBSET (Users \X Comments)]
    /\ commentCount \in [Posts -> Nat]
    /\ avatar \in [Users -> {{}} \cup {{f} : f \in Files}]
    /\ gone \subseteq Users
    /\ disk \subseteq Files
    /\ req \in [Requests -> {Idle} \cup Call \cup Upload \cup Removal \cup Deletion]

Init ==
    /\ author = [p \in Posts |-> {}]
    /\ images = [p \in Posts |-> {}]
    /\ likers = [p \in Posts |-> {}]
    /\ likeCount = [p \in Posts |-> 0]
    /\ comments = [p \in Posts |-> {}]
    /\ commentCount = [p \in Posts |-> 0]
    /\ avatar = [u \in Users |-> {}]
    /\ gone = {}
    /\ disk = {}
    /\ req = [r \in Requests |-> Idle]

-----------------------------------------------------------------------------
(* Rows, locks and files                                                   *)

At(r, location) == req[r].at = location
Deleting(r) == req[r] \in Deletion
Reply(r) == req' = [req EXCEPT ![r] = Idle]

\* removeFiles, next.
Remove(r, location, files) ==
    req' = [req EXCEPT ![r] = [at |-> location, me |-> req[r].me, files |-> files]]

\* Nobody else has locked the post.
Unlocked(r, p) == \A s \in Requests \ {r} : Deleting(s) => p \notin req[s].locked

\* Fault: DeleteMe's first SELECT is not FOR UPDATE.
UserFreeUnlocked(r, u) == TRUE

\* DeleteMe locks its user's row FOR UPDATE first.  Until it ends that holds up
\* every row that refers to the user, by the foreign keys, and SetAvatar.
UserFree(r, u) == \A s \in Requests \ {r} : Deleting(s) => req[s].me # u

Exists(p) == author[p] # {}
Of(u) == {p \in Posts : author[p] = {u}}
ImagesOf(posts) == UNION {images[p] : p \in posts}
Named == ImagesOf(Posts) \cup UNION {avatar[u] : u \in Users}
InHands(requests) == UNION {req[r].files : r \in {s \in requests : ~At(s, "idle")}}
Found == UNION {req[r].prev : r \in {s \in Requests : At(s, "SetAvatar.update")}}

\* One less, as GREATEST(count - n, 0) has it.
Less(count, n) == IF count > n THEN count - n ELSE 0

\* Rows of posts go.
Without(rows, posts, none) == [p \in Posts |-> IF p \in posts THEN none ELSE rows[p]]

\* And with a post, by ON DELETE CASCADE, the rows that refer to it.
DeletePosts(posts) ==
    /\ author' = Without(author, posts, {})
    /\ images' = Without(images, posts, {})

DeleteLikes(posts) ==
    /\ likers' = Without(likers, posts, {})
    /\ likeCount' = Without(likeCount, posts, 0)

DeleteComments(posts) ==
    /\ comments' = Without(comments, posts, {})
    /\ commentCount' = Without(commentCount, posts, 0)

-----------------------------------------------------------------------------
(* Uploads                                                                 *)

CreatePost(r, u) ==
    /\ At(r, "idle") /\ u \notin gone
    /\ req' = [req EXCEPT ![r] = [at |-> "CreatePost", me |-> u, files |-> {}, prev |-> {}]]
    /\ UNCHANGED <<postVars, likeVars, commentVars, userVars, disk>>

SetAvatar(r, u) ==
    /\ At(r, "idle") /\ u \notin gone
    /\ req' = [req EXCEPT ![r] = [at |-> "SetAvatar", me |-> u, files |-> {}, prev |-> {}]]
    /\ UNCHANGED <<postVars, likeVars, commentVars, userVars, disk>>

\* A file has a name of its own.
NewFiles == Files \ (disk \cup Named \cup InHands(Requests) \cup Found)

\* SetAvatar saves one image.
Saves(r) == At(r, "CreatePost") \/ (At(r, "SetAvatar") /\ req[r].files = {})

\* Of an avatar the thumbnail f stays, and its original g when os.Remove fails.
SaveImage(r) ==
    /\ Saves(r)
    /\ \E f, g \in NewFiles :
           /\ f = g \/ At(r, "SetAvatar")
           /\ disk' = disk \cup {f, g}
           /\ req' = [req EXCEPT ![r].files = @ \cup {f}]
    /\ UNCHANGED <<postVars, likeVars, commentVars, userVars>>

\* A write fails midway: what it wrote stays, and what was saved before goes.
SaveImageFails(r) ==
    /\ Saves(r)
    /\ \E f \in NewFiles : disk' = disk \cup {f}
    /\ Remove(r, "cleanup", req[r].files)
    /\ UNCHANGED <<postVars, likeVars, commentVars, userVars>>

\* The row and its images.
CreatePostInsert(r) ==
    /\ At(r, "CreatePost") /\ req[r].files # {}
    /\ UserFree(r, req[r].me)
    /\ \E p \in Posts :
           /\ ~Exists(p)
           /\ \A s \in Requests : Deleting(s) => p \notin req[s].liked /\ req[s].counted[p] = 0
           /\ author' = [author EXCEPT ![p] = {req[r].me}]
           /\ images' = [images EXCEPT ![p] = req[r].files]
    /\ \/ Reply(r)
       \/ Remove(r, "cleanup", req[r].files)    \* committed, but the answer is lost
    /\ UNCHANGED <<likeVars, commentVars, userVars, disk>>

\* What the statement's snapshot says avatar_path is; then it waits for the row.
SetAvatarFind(r) ==
    /\ At(r, "SetAvatar") /\ req[r].files # {}
    /\ req' = [req EXCEPT ![r].at = "SetAvatar.update", ![r].prev = avatar[req[r].me]]
    /\ UNCHANGED <<postVars, likeVars, commentVars, userVars, disk>>

\* Fault: the old file is not deleted.
SetAvatarUpdateOnly(r) ==
    LET u == req[r].me IN
    /\ At(r, "SetAvatar.update") /\ UserFree(r, u)
    /\ u \notin gone
    /\ avatar' = [avatar EXCEPT ![u] = req[r].files]
    /\ Reply(r)
    /\ UNCHANGED <<postVars, likeVars, commentVars, gone, disk>>

SetAvatarUpdate(r) ==
    LET u == req[r].me IN
    /\ At(r, "SetAvatar.update") /\ UserFree(r, u)
    /\ u \notin gone
    /\ avatar' = [avatar EXCEPT ![u] = req[r].files]
    /\ \/ Remove(r, "removeFiles", req[r].prev)
       \/ Remove(r, "cleanup", req[r].files)    \* committed, but the answer is lost
    /\ UNCHANGED <<postVars, likeVars, commentVars, gone, disk>>

\* An image is refused, a statement fails, or the account is deleted: what has
\* been stored is deleted again.
UploadFails(r) ==
    /\ \E location \in {"CreatePost", "SetAvatar", "SetAvatar.update"} : At(r, location)
    /\ Remove(r, "cleanup", req[r].files)
    /\ UNCHANGED <<postVars, likeVars, commentVars, userVars, disk>>

\* Best effort: the errors of os.Remove are ignored.
RemoveFiles(r) ==
    /\ At(r, "cleanup") \/ At(r, "removeFiles")
    /\ \E removed \in SUBSET req[r].files : disk' = disk \ removed
    /\ Reply(r)
    /\ UNCHANGED <<postVars, likeVars, commentVars, userVars>>

-----------------------------------------------------------------------------
(* One transaction each                                                    *)

Accept(r, u) ==
    /\ At(r, "idle") /\ u \notin gone
    /\ req' = [req EXCEPT ![r] = [at |-> "call", me |-> u, files |-> {}]]
    /\ UNCHANGED <<postVars, likeVars, commentVars, userVars, disk>>

\* The handler has the post's row: nobody else has locked it.
Calls(r, p) == At(r, "call") /\ Exists(p) /\ Unlocked(r, p)

\* Fault: the files go although the post may stay.
DeletePostEarly(r, p) ==
    /\ Calls(r, p) /\ author[p] = {req[r].me}
    /\ Remove(r, "removeFiles", images[p])
    /\ \/ DeletePosts({p}) /\ DeleteLikes({p}) /\ DeleteComments({p})
       \/ UNCHANGED <<postVars, likeVars, commentVars>>
    /\ UNCHANGED <<userVars, disk>>

\* removeFiles is next, unless the answer to COMMIT is lost.
DeletePost(r, p) ==
    /\ Calls(r, p) /\ author[p] = {req[r].me}
    /\ DeletePosts({p}) /\ DeleteLikes({p}) /\ DeleteComments({p})
    /\ Remove(r, "removeFiles", images[p]) \/ Reply(r)
    /\ UNCHANGED <<userVars, disk>>

\* ToggleLike, of a post the user likes.
Unlike(r, p) ==
    /\ Calls(r, p) /\ req[r].me \in likers[p]
    /\ likers' = [likers EXCEPT ![p] = @ \ {req[r].me}]
    /\ likeCount' = [likeCount EXCEPT ![p] = Less(@, 1)]
    /\ Reply(r)
    /\ UNCHANGED <<postVars, commentVars, userVars, disk>>

\* Fault: the new like is not counted.
LikeUncounted(r, p) ==
    /\ Calls(r, p) /\ UserFree(r, req[r].me) /\ req[r].me \notin likers[p]
    /\ likers' = [likers EXCEPT ![p] = @ \cup {req[r].me}]
    /\ Reply(r)
    /\ UNCHANGED <<postVars, likeCount, commentVars, userVars, disk>>

\* ToggleLike, of a post the user does not like.
Like(r, p) ==
    /\ Calls(r, p) /\ UserFree(r, req[r].me) /\ req[r].me \notin likers[p]
    /\ likers' = [likers EXCEPT ![p] = @ \cup {req[r].me}]
    /\ likeCount' = [likeCount EXCEPT ![p] = @ + 1]
    /\ Reply(r)
    /\ UNCHANGED <<postVars, commentVars, userVars, disk>>

AddComment(r, p) ==
    /\ Calls(r, p) /\ UserFree(r, req[r].me)
    /\ \E c \in ({req[r].me} \X Comments) \ comments[p] :
           comments' = [comments EXCEPT ![p] = @ \cup {c}]
    /\ commentCount' = [commentCount EXCEPT ![p] = @ + 1]
    /\ Reply(r)
    /\ UNCHANGED <<postVars, likeVars, userVars, disk>>

\* By its writer or the post's author.
DeleteComment(r, p) ==
    /\ Calls(r, p)
    /\ \E c \in comments[p] :
           /\ req[r].me = c[1] \/ author[p] = {req[r].me}
           /\ comments' = [comments EXCEPT ![p] = @ \ {c}]
    /\ commentCount' = [commentCount EXCEPT ![p] = Less(@, 1)]
    /\ Reply(r)
    /\ UNCHANGED <<postVars, likeVars, userVars, disk>>

-----------------------------------------------------------------------------
(* DeleteMe                                                                *)

\* The user's row locked, and the files of its avatar and posts read.
DeleteMe(r, u) ==
    /\ At(r, "idle") /\ u \notin gone /\ UserFree(r, u)
    /\ req' = [req EXCEPT ![r] = [at |-> "DeleteMe", me |-> u,
                                  files |-> avatar[u] \cup ImagesOf(Of(u)),
                                  liked |-> {}, counted |-> [p \in Posts |-> 0], locked |-> {}]]
    /\ UNCHANGED <<postVars, likeVars, commentVars, userVars, disk>>

\* The snapshot of the first UPDATE of posts.
DeleteMeFindLikes(r) ==
    /\ At(r, "DeleteMe")
    /\ req' = [req EXCEPT ![r].at = "DeleteMe.likes",
                          ![r].liked = {p \in Posts : Exists(p) /\ req[r].me \in likers[p]}]
    /\ UNCHANGED <<postVars, likeVars, commentVars, userVars, disk>>

\* It waits for the rows, and keeps what its snapshot said of the likes.
DeleteMeLockLiked(r) ==
    LET liked == {p \in req[r].liked : Exists(p)} IN
    /\ At(r, "DeleteMe.likes")
    /\ \A p \in liked : Unlocked(r, p)
    /\ req' = [req EXCEPT ![r].at = "DeleteMe.comments", ![r].liked = liked, ![r].locked = liked]
    /\ UNCHANGED <<postVars, likeVars, commentVars, userVars, disk>>

\* The same for the comments, whose UPDATE has counted them per post.
DeleteMeFindComments(r) ==
    /\ At(r, "DeleteMe.comments")
    /\ req' = [req EXCEPT ![r].at = "DeleteMe.count",
                          ![r].counted = [p \in Posts |-> IF Exists(p)
                              THEN Cardinality({c \in comments[p] : c[1] = req[r].me}) ELSE 0]]
    /\ UNCHANGED <<postVars, likeVars, commentVars, userVars, disk>>

DeleteMeLockCounted(r) ==
    LET counted == {p \in Posts : Exists(p) /\ req[r].counted[p] > 0} IN
    /\ At(r, "DeleteMe.count")
    /\ \A p \in counted : Unlocked(r, p)
    /\ req' = [req EXCEPT ![r].at = "DeleteMe.commit", ![r].locked = @ \cup counted]
    /\ UNCHANGED <<postVars, likeVars, commentVars, userVars, disk>>

\* The other statements, and the commit of all.
DeleteMeCommit(r) ==
    LET u == req[r].me IN
    /\ At(r, "DeleteMe.commit")
    /\ \A p \in Of(u) : Unlocked(r, p)
    /\ DeletePosts(Of(u))
    /\ likers' = [p \in Posts |-> IF p \in Of(u) THEN {} ELSE likers[p] \ {u}]
    /\ likeCount' = [p \in Posts |-> IF p \in Of(u) THEN 0
                                     ELSE Less(likeCount[p], IF p \in req[r].liked THEN 1 ELSE 0)]
    /\ comments' = [p \in Posts |-> IF p \in Of(u) THEN {} ELSE {c \in comments[p] : c[1] # u}]
    /\ commentCount' = [p \in Posts |-> IF p \in Of(u) THEN 0
                                        ELSE Less(commentCount[p], req[r].counted[p])]
    /\ avatar' = [avatar EXCEPT ![u] = {}]
    /\ gone' = gone \cup {u}
    /\ Remove(r, "removeFiles", req[r].files) \/ Reply(r)
    /\ UNCHANGED disk

\* A statement fails, or the client hangs up; the transaction is rolled back.
\* An upload goes to UploadFails instead.
Abort(r) ==
    /\ At(r, "call") \/ Deleting(r)
    /\ Reply(r)
    /\ UNCHANGED <<postVars, likeVars, commentVars, userVars, disk>>

Crash ==
    /\ req' = [r \in Requests |-> Idle]
    /\ UNCHANGED <<postVars, likeVars, commentVars, userVars, disk>>

-----------------------------------------------------------------------------
Arrival(r, u) ==
    \/ CreatePost(r, u)
    \/ SetAvatar(r, u)
    \/ Accept(r, u)
    \/ DeleteMe(r, u)

Uploading(r) ==
    \/ SaveImage(r)
    \/ SaveImageFails(r)
    \/ CreatePostInsert(r)
    \/ SetAvatarFind(r)
    \/ SetAvatarUpdate(r)
    \/ UploadFails(r)
    \/ RemoveFiles(r)

Calling(r, p) ==
    \/ DeletePost(r, p)
    \/ Like(r, p)
    \/ Unlike(r, p)
    \/ AddComment(r, p)
    \/ DeleteComment(r, p)

DeletionStep(r) ==
    \/ DeleteMeFindLikes(r)
    \/ DeleteMeLockLiked(r)
    \/ DeleteMeFindComments(r)
    \/ DeleteMeLockCounted(r)
    \/ DeleteMeCommit(r)

Next ==
    \/ \E r \in Requests, u \in Users : Arrival(r, u)
    \/ \E r \in Requests : Uploading(r)
    \/ \E r \in Requests, p \in Posts : Calling(r, p)
    \/ \E r \in Requests : DeletionStep(r)
    \/ \E r \in Requests : Abort(r)
    \/ Crash

Spec == Init /\ [][Next]_vars

-----------------------------------------------------------------------------
(* Properties                                                              *)

\* No counter shows more likes or comments than there are, whatever DeleteMe
\* overlaps with: while it runs, its user can add none that it would miss.
NoCountTooHigh ==
    \A p \in Posts :
        /\ likeCount[p] <= Cardinality(likers[p])
        /\ commentCount[p] <= Cardinality(comments[p])

\* A counter falls behind only by a DeleteMe that counts a like or comment which
\* was taken back after its UPDATE had read it and before it had the post's row.
OnlyStaleDeletionsMiscount ==
    [][\A p \in Posts : Exists(p) /\ Exists(p)' =>
          /\ Cardinality(likers'[p]) - likeCount'[p] > Cardinality(likers[p]) - likeCount[p]
             => \E r \in Requests : /\ At(r, "DeleteMe.commit")
                                    /\ p \in req[r].liked /\ req[r].me \notin likers[p]
          /\ Cardinality(comments'[p]) - commentCount'[p]
                 > Cardinality(comments[p]) - commentCount[p]
             => \E r \in Requests :
                    /\ At(r, "DeleteMe.commit")
                    /\ req[r].counted[p] > Cardinality({c \in comments[p] : c[1] = req[r].me})
      ]_vars

Broken == Named \ disk
Orphans == disk \ (Named \cup InHands({r \in Requests : ~Deleting(r)}))

\* A post or avatar loses its file only by the clean-up of an upload that was
\* stored after all: the answer to its COMMIT was lost, and the handler took
\* that for a failure.
OnlyLostAnswersBreak ==
    [][\A f \in Broken' \ Broken :
          \E r \in Requests : At(r, "cleanup") /\ At(r, "idle")' /\ f \in req[r].files]_vars

\* os.Remove failed for a file that was to go.
RemovalFails(r, f) ==
    (At(r, "cleanup") \/ At(r, "removeFiles")) /\ At(r, "idle")' /\ f \in req[r].files

\* A write failed midway, or the removal of an avatar's original.
WriteFails(r, f) == Saves(r) /\ f \notin disk /\ f \notin req'[r].files

\* The transaction has taken the file's name from its row, but its COMMIT's
\* answer is lost, and the handler takes that for a failure.
AnswerLost(r, f) ==
    /\ f \in Named
    /\ \/ At(r, "SetAvatar.update") /\ At(r, "cleanup")'
       \/ (At(r, "call") \/ At(r, "DeleteMe.commit")) /\ At(r, "idle")'

\* SetAvatar deletes the file that its UPDATE had found, and another SetAvatar
\* has stored the one that the UPDATE replaces.
Overtaken(r, f) ==
    At(r, "SetAvatar.update") /\ At(r, "removeFiles")' /\ f \in avatar[req[r].me] \ req[r].prev

\* These are the ways to leave a file that no row names and nobody will delete;
\* another is a process that stops.
OnlyKnownLeaks ==
    [][Crash \/ \A f \in Orphans' \ Orphans : \E r \in Requests :
          RemovalFails(r, f) \/ WriteFails(r, f) \/ AnswerLost(r, f) \/ Overtaken(r, f)
      ]_vars
=============================================================================
