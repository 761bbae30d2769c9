# RideX in TLA+

RideX is a Go backend (`src/backend`, Postgres, websockets) and a Flutter app
(`src/mobile`) for group rides: people join a ride with a code, the host starts
and ends it, phones upload their positions and see each other on a map; beside
that there are friends, location shares, a photo feed and accounts. This
directory holds TLA+ models of its protocols, the TLC runs that check them and
the theorems TLAPS proves about them.

Source paths below are relative to `src/`; `service/`, `handler/`, `ws/`,
`db/` stand for the directories of that name under `backend/internal/`, and
`lib/` for `mobile/lib/`.

## The system

| Part | State it keeps | Operations | What is hard about it |
|---|---|---|---|
| Rides (`service/rides.go`, `location.go`, `users.go`, `janitor.go`) | `rides`, `ride_participants`, `location_points` | create, join, start, end, cancel, leave, remove, set status, upload positions, delete account, retention | every handler is several SQL statements; no row is locked between the check and the write |
| Hub (`ws/hub.go`, `handler/ws.go`) | rooms, a queue per client, a `done` channel, the connection | Join, Leave, Broadcast, Send, Close, the pump, the read loop | three goroutines per connection, `Close` from all of them, bounded queues, slow peers |
| Sessions (`service/auth.go`) | `refresh_tokens`, `users.deleted_at` | register, login, refresh, logout, delete account, expiry, purge | rotation in separate statements, two requests with one token, a failure in the middle |
| Session of the app (`lib/data/api/api_client.dart`, `lib/features/auth/application/auth_notifier.dart`, `lib/data/local/token_store.dart`) | stored tokens and profile, the single refresh in flight | requests answered 401, sign in, sign out, restart | answers that are late or lost, sign-out during a refresh, being killed |
| Shares and friends (`service/shares.go`, `friends.go`, `location.go`) | `location_shares`, grants, `friendships` | create, upload, stop, revoke, expire; request, accept, decline, cancel, unfriend | friendship read before the grant is written, two devices, crossed requests |
| Community and media (`service/posts.go`, `media.go`) | posts, likes, comments and their counters, files | post, like, comment, delete, avatar, delete account | counters beside rows, snapshots of single statements, files outside transactions |
| Rate limiter, janitor, migrations | buckets; old rows; `schema_migrations` | Allow, Prune; cleanup; Migrate | window boundary; several instances starting |
| Location buffer and background service (`lib/data/local/location_buffer.dart`, `lib/services/background_location_service.dart`) | a queue file, the active ride and share, one position stream | enqueue, sync, start, stop | a lost answer means sending twice, kills, a 4xx clears the queue |
| Live map, drive recorder, feed (`lib/features/...`) | what the screen shows | snapshot, messages, actions; start, stop; refresh, like | events before the socket is open, awaits in between, optimistic updates |

They interact through SQL rows (all services), through the hub (a committed
change is broadcast afterwards, outside any lock), and over HTTP and
websockets, where a caller may hang up at any moment: its context is then
cancelled and the handler's next statement fails.

`PROJECT.json` lists every part with its status and every hazard with its line.

## Modules

| Module | Models |
|---|---|
| `RideLifecycle` | Abstract: what the tables of one ride promise, as atomic moves |
| `RideService` | The handlers of one ride, statement by statement |
| `RideClaims` | A statement of the app that `RideService` does not keep |
| `WsHub` | The hub, its clients' goroutines, and the serve loop |
| `AuthService` | The refresh tokens of one account, statement by statement |
| `AppSession` | The app's tokens and sign-in state; extends `AuthService`, which is its server |
| `FriendService` | Friendships, with `RequestFriend` down to its row locks |
| `ShareService` | Location shares, uploads to them and account deletion; extends `FriendService`, by which they are granted |
| `ShareClaims` | A statement of the API's documentation that `ShareService` does not keep |
| `CommunityService` | Posts, likes, comments, counters, image files, avatars, and `DeleteMe` statement by statement |
| `LocationBuffer` | The phone's queue of fixes, its sync loop, the network, and the server's deduplication |
| `BackgroundLocation` | The phone's tracker: overlapping starts and stops of one position stream |
| `RideServiceProofs`, `WsHubProofs`, `AuthServiceProofs`, `AppSessionProofs`, `ShareServiceProofs`, `CommunityServiceProofs`, `LocationBufferProofs`, `BackgroundLocationProofs` | Theorems about the modules they are named for; `ShareServiceProofs` also says when `ShareClaims` holds |
| `MC...` | Instances for TLC: the sets of a run, their symmetry, and in `MCAppSession` a view of the states |

A definition whose comment begins with `Fault:` is no part of the model. It is
a mistake somebody could make in the action it precedes; each property is
checked to fail once one of them takes that action's place.

### RideService

One ride is enough: no statement meets the rows of two rides. A handler is a
request in `req` that moves through control locations (`JoinRide`,
`JoinRide.prev`, `JoinRide.insert`, ...); each location is the handler about to
issue its next statement or transaction, and what it read before is either in
the request or implied by where it is. Several requests run at once, so every
statement order is there.

* `Arrive` is the middleware's check of the account (`middleware/auth.go`);
  `Connected` is a frame on an open socket, which is not checked again.
* `Transition`, `TransitionUpdate`, `TransitionAnnounce` are the host check, the
  conditional UPDATE and the broadcast of start, end and cancel.
* `IngestRideLocations`, `IngestTx`, `IngestAnnounce` are the checks, the
  transaction (points with deduplication, snapshot with the `last_seen_at`
  guard, status) and the broadcast of an upload, whether by REST or socket.
* `Abort` is a cancelled context, `Crash` a restart of the process, `Cleanup`
  the retention job, `Disconnect` a socket that ends.

Abstracted: names and join codes, positions (only `recorded_at` matters, and a
batch is a set because `normalizePoints` sorts it and drops repetitions), the
visibility of a ride, listing and `PatchRide`. `started` is whether `started_at`
is set, which `transition` does when a ride goes live and nothing takes back: it
tells a ride that was cancelled before its start from one whose host's account
was deleted while it was live. `announced` counts how often each status was
broadcast. In which order two broadcasts reach the sockets is not promised: a
start that waits between its commit and its broadcast announces `live` after
another request has announced `ended`.

`RideLifecycle` is the specification a reader of the tables may rely on:
`Open`, `Move`, `Board`, `Leave`, `Remove`, `SetStatus`, `Report`, `Vanish`.
`RideService` implements it (`ImplementsLifecycle`) under the mapping
`status <- rideStatus, begun <- started, member <- part, lastSeen <- seen,
gone <- deleted`.
It promises less than the code seems to: `Report` may turn `removed` into
`riding`, and may come after the end, because that is what the handlers do.

### WsHub

One room. A client has the pump goroutine (`pump`), the serve loop (`serve`),
its connection (`conn`, which also stands for the `done` channel: `closing` is
the moment between `close(done)` and `conn.Close()`), and its queue. A sender
is a request handler or a serve loop; `send` holds the message, the clients of
the snapshot it has still to try and the one it is trying. The two `select`s
of `sendRaw` are two steps, `SendCheck` and `SendEnqueue`, and so are
`close(done)` and the end of `Close`: whoever calls `Close` second waits, as
`sync.Once` makes it. `target` and `before` are history: for whom a message was
meant, and which message was over before which began.

### AuthService and AppSession

One account. Tokens are model values; a token's row is `unissued`, `live`,
`expired`, `revoked` or `gone`. `Refresh` reads the row, then `RefreshTheft`
or `RefreshRotate` (the conditional UPDATE), `RefreshUser`, `RefreshIssue` are
its later statements, and `Fail` lets any of them fail with the answer the code
gives for it. `Revoke` is the UPDATE with `revoked_at IS NULL`. `root` and
`stolen` are history: the login a token descends from, and the sessions that
existed when a reuse was punished.

`ServerSpec` lets anybody present any token at any time, and any callers stop
waiting for their answers (`HangUp`: the handler goes on and its answer is
dropped). `AppSession` puts the app there, and is shown to implement
`ServerSpec`: `app[d]` is what the store holds (`access`, `refresh`, `user`), the
status of `AuthNotifier`, the refresh in flight, the user's own operation, the
profile request and a pending `onSessionExpired`. An answer may come late, or
never, and `Kill` restarts the app from its store. Tokens are written one after the other, as
`writeTokens` does, and so are `saveSession`'s writes and `clear`'s three
removals: a kill, or a refresh that writes its tokens, falls between. `_signOutLocally`
sets the status only after its `clear` is done. Who runs a `clear` is in `Clearers`:
a refresh that was rejected, the user's own sign-out, and that of
`onSessionExpired` (a second one of those, while one runs, removes nothing the
first would not, and is left out). Any other request of the app only matters for its 401, so a
refresh may start whenever an access token is stored. `Uses` bounds what the
user does, and `Aging` is which tokens get old enough to expire and to be purged.

TLC compares the states of this run under `View`, which loses no behaviour: two
states are the same that differ only in what no property can tell apart from
there on, which is whether a token is in `excused` that no device holds and none
will be given again, and all of the histories once the account is deleted. Without
it the same run has 2.8 million states, and no error either.

### FriendService and ShareService

A friendship is a row per ordered pair (`friendship[<<u, v>>]`). `RequestFriend`
is three steps: what its `FOR UPDATE` finds, the wait for those rows, and the
write, because a row it has found may change or go while it waits, and rows that
are not there are not locked. The other operations on friendships are one
statement. `gone` are deleted accounts.

`ShareService` adds `location_shares` (`owner`, `state`) and their grants.
`CreateShare` reads the friends outside its transaction, finds the shares to
end, and commits; `Ingest` checks the share, stores, reads the grantees and then
tells them. The code tells one after the other; as nothing else is done meanwhile
and no property is about the order among viewers, `IngestTell` is one step, in
which all those found are told. `Expire` is time passing `expires_at`, `ExpireJob` the
janitor. An upload over a socket is one whose user is not asked again. `late` is
history: who could not see the share when the upload arrived.

### CommunityService

A transaction of one visible step is one action, which waits for the rows that
another has locked. `DeleteMe` is six, because at READ COMMITTED each of its
statements has a snapshot of its own, and an UPDATE that waits for a row uses the
counts its snapshot gave: `DeleteMeFindLikes`, `DeleteMeLockLiked`,
`DeleteMeFindComments`, `DeleteMeLockCounted`, `DeleteMeCommit`. Its
`SELECT ... FOR UPDATE` of the user's row holds up what would refer to that user
by a foreign key (`UserFree`), so the user can add no like or comment meanwhile,
but can still take one back. Two transactions that wait for each other end with
an error for one of them, which `Abort` and `UploadFails` are.

Files are written before the row that names them and removed after it is gone;
in between the handler's request holds them (`req[r].files`). The answer to a
COMMIT may be lost: the handler then cleans up what was in fact stored. Writing a
file may fail midway, which leaves what was written (`SaveImageFails`), and
`removeFiles` ignores the errors of `os.Remove`, so that any of its files may stay
(`RemoveFiles`); so may an avatar's original, which `SetAvatar` removes when the
thumbnail is written. Of an image and its thumbnail one file is modelled,
whichever: they are written, named and removed each for itself. Ids of
posts, files and comments are used again once nothing refers to them, which
keeps the instance finite.

### LocationBuffer and BackgroundLocation

`LocationBuffer` is the file of fixes (rewritten under a lock, one step; a set,
as entries are appended and their order is that of their fixes). `_readAll`
answers an error of reading or decoding with an empty list, and `_writeAll` then
puts a new file in the old one's place: while `unreadable` holds, a peek finds
nothing, and the next fix, acknowledgement or refusal ends the whole queue.
`ReadsFail` is such an error coming, and also passing, if it does. Beside the file
there is the loop that posts batches per target (`Peek`, `Post`, then `MarkSynced`,
`ClearTarget` or `GiveUp`), and a wire on which requests and socket messages are
processed, refused, or lost, with their answers. The server's part is `Stamped`: a
point has the phone's time, or, when that is over five minutes ahead, the time of
its arrival, and `ON CONFLICT DO NOTHING` keeps one row per time.

`BackgroundLocation` is the stream and the timer, and up to four method calls
that each wait where the code awaits: for permissions, for a socket to close,
for the stream to be cancelled. A permission request may be granted, refused, or
throw, since nothing catches what the plugin throws (`PermissionsThrow`): then the
ride or share stays set and nothing tracks it. That the stream's `cancel()` and
the socket's `disconnect()` throw is left out. `sub = "cancelled"` is the time in which `_sub`
is still set but its stream is not live; `strays` counts live streams that
nothing refers to. A fix of that stream is `LocationBuffer`'s `Record`.

## Runs

| Run | Instance | What it shows |
|---|---|---|
| `ride_membership` | 2 accounts, 2 requests, 1 timestamp, all operations; about 1.4 million states | `HostOnBoard`, `TrailImpliesStart`, `AnnouncedWasCommitted`, `OneTransitionWins`; `HostDecides`, `OnlyUploadsRevive`; `ImplementsLifecycle` |
| `ride_locations` | 2 accounts, 2 requests, 2 timestamps, the operations that matter to uploads; 0.6 million | `SnapshotCoversTrail`, `SnapshotForward`: late, repeated and reordered batches never take the map back |
| `hub_rooms` | 2 connections, 1 handler, 2 messages, queues of 1; 0.8 million | `NoSilentGap`, `NoStrayMessages`, `NothingLeftBehind` |
| `hub_delivery` | 1 connection, 2 handlers, 2 messages and a pong, queue of 2 | `TypeOK`, `OrderKept`; `BroadcastReturns`, `DeliveredOrClosed`, `ClosedIsReleased` under fairness |
| `auth_sessions` | 3 tokens, 2 requests, callers that hang up; 0.4 million | `OneHeirPerSession`, `RevokedForGood`, `NoSessionAfterDeletion` |
| `app_sessions` | 1 device, 2 tokens, 2 requests, everything it does, no token expires by time; 1.4 million | `AppTypeOK`, `TheftHasACause`, `StoredTokenIsGood`, `SignedOutForGood` |
| `sharing` | 2 accounts, 2 requests, 2 shares | `NobodyHearsLater`, `LockedRowsStay`; `OnlyRacesStray`, `OnlyStaleRequestsUnfriend`, `SharesOnlyShrink` |
| `community` | 2 accounts, 1 post, 2 comments each, 3 files, 2 requests; 1.1 million | `NoCountTooHigh`; `OnlyStaleDeletionsMiscount`, `OnlyLostAnswersBreak`, `OnlyKnownLeaks` |
| `location_buffer` | 2 targets, 3 fixes, a buffer of 2, batches of 2, 1 request under way, a file that may be unreadable; 0.1 million | `TypeOK`, `StoredOnce`; `LossHasACause`; `BufferDrains` under fairness |
| `tracker` | 2 rides and a share, 4 calls, 2 strays; 6 thousand | `OnlyLateStopsUntrack`, `OnlyLateGrantsUnwatch`, `OnlyOverlapsStray` |

Two more runs have to find a violation, see "Findings". The type invariants of
rides, shares, sessions, the community and the tracker have no run: they are
theorems. So are `StableReads`, `FeedOnlyForRiders` and `StatusForward` of
`RideService`.

Properties named `Only...`, `...HasACause` and `...KnownLeaks` state the usual
promise together with every way in which the code departs from it: a counter is
right but for a deletion that counts what was taken back, a file is kept but for
a lost answer, tracking goes on but for a stop that comes late. A new departure
fails them. The longest lists are these. A file is left that nothing names and
nobody will delete (`OnlyKnownLeaks`) by a process that stops, a write that failed
midway, a removal that failed, a COMMIT whose answer was lost, and an avatar that
another has overtaken. A fix leaves the phone without being stored
(`LossHasACause`) by a refusal, a full buffer, a clock that is ahead, and a file
that could not be read when it was to be rewritten.

Two properties of rides say less than a reader may expect. `TrailImpliesStart`
speaks of a start, not of a ride that is still on: a point may be stored after the
end. `AnnouncedWasCommitted` says that each status heard was committed, `cancelled`
only of a ride that never started, and is heard once; it does not say in which
order.

**Why the bounds are enough.** The hazards are about two parties: two requests
between each other's statements, a host and a participant, two senders, two
friends. Two requests give every pair of handlers every interleaving; the second
account is what removal, joining and "not the host" need. A second timestamp is
what "older" needs. A queue of one fills at once; a queue of two has an order of
its own. Three tokens are a login, a rotation and one more login or rotation. In
`app_sessions` two tokens are one login and one rotation, and the second
request is the one the app has given up on while the server still works on it.
Expiry by time, which to the app is a refresh that is answered 401, is in
`auth_sessions` (`Aging` is all tokens there, none in `app_sessions`).
Two shares are a user's two, or each user's one. Rows of different posts meet
only in `DeleteMe`, which treats each alike, so one post is enough, with two
comments of one user for a count that is not 0 or 1. Three files are one that a
row names, one that is to take its place, and one that is left. Three fixes overflow a
buffer of two, and fill a batch and start another; two targets share a batch.
Four calls of the tracker are two starts and two stops, each overlapping.
`MaxStrays` stops the count of streams that nobody holds and disables the step
that would go beyond it. Where a theorem covers a property the bounds do not
matter to it.

**Deadlock** is checked in all runs but the hub's, where something can always
happen. The hub's switch it off: an instance has a fixed set of connections, each
used once, and of messages, each sent once, and when they are used up it stops.

**Fairness.** `hub_delivery` assumes that a goroutine inside `sendRaw` or `Close`
keeps running (weak fairness; both are free of blocking operations), and so do
the pump and the serve loop. Go's `select` picks at random among ready cases, so
a case that is ready again and again is taken: strong fairness for the pump's
cases. A write ends by its deadline (`writeWait`), so a pump that writes goes on,
with success or not. `Read` returns an error once the connection is closed;
nothing is assumed of a peer before that.

`location_buffer` assumes what keeps the queue moving while the app is in use. Its
timer flushes only while something is tracked; at other times a flush is due to
the app's start, its resumption or the end of tracking, so weak fairness of `Flush`
is that the user tracks or comes back to the app again and again. `_syncLoop` gets
its lock and its requests time out, and a message on the wire does not stay there. Strong
fairness of `Answered` says that a network that is tried again and again lets an
answer through, and that of `MarkSynced` and `ClearTarget` that the app is not
killed each time it has one. `BufferDrains` also has a premise, that the file is
readable from some time on: what is in a file that stays unreadable is not
drained, it is lost when the file is next written. No fairness is assumed of peers, handlers, users or
the database.

## What is proved

All theorems hold for any sets of accounts, requests, tokens, shares, posts,
files and so on, finite or not, under the named assumptions of the modules: in
`RideService` that `NoUser` is no account, `MaxTime` is a natural number and the
statuses and operations are known ones; in `WsHub` that a queue holds at least
one message and that connections, handlers, broadcasts, pongs and `NoMsg` are
different things; in `AuthService`, and `AppSession` on it, that `NoToken` is no
token and `Nobody` no caller; in `LocationBuffer` that the number of fixes is a
natural number and buffer and batch hold at least one; in `BackgroundLocation`
that `MaxStrays` is a natural number.

| Module | Theorem | Says |
|---|---|---|
| `RideServiceProofs` | `TypeCorrect`, `HostStaysOnBoard`, `ReadsStayTrue` | `Spec => []TypeOK`, `[]HostOnBoard`, `[]StableReads` |
| | `TrailNeedsAStart`, `SnapshotKeepsUp` | `[]TrailImpliesStart`, `[]SnapshotCoversTrail` |
| | `NothingIsAnnouncedEarly`, `RacesHaveOneWinner`, `FeedIsForRiders` | `[]AnnouncedWasCommitted`, `[]OneTransitionWins`, `[]FeedOnlyForRiders` |
| | `Refinement` | `Spec => ImplementsLifecycle` |
| | `StatusMovesForward`, `SnapshotMovesForward`, `RemovalOnlyRacesUploads` | `StatusForward`, `SnapshotForward`, `OnlyUploadsRevive` |
| | `OnlyTheHostDecides` | `HostDecides` |
| `WsHubProofs` | `TypeCorrect`, `LeavesNothing` | `[]TypeOK`, `[]NothingLeftBehind` |
| | `GapsClose`, `NothingStrays`, `OrderHolds` | `[]NoSilentGap`, `[]NoStrayMessages`, `[]OrderKept` |
| `AuthServiceProofs` | `TypeCorrect`, `SessionsStayChains` | `[]ServerTypeOK`, `[]OneHeirPerSession` |
| | `RevocationIsFinal`, `DeletionIsFinal` | `RevokedForGood`, `NoSessionAfterDeletion` |
| `AppSessionProofs` | `AppTypeCorrect`, `SignOutLasts` | `[]AppTypeOK`, `[]SignedOutForGood` |
| | `NoTheftWithoutCause`, `StoredTokenWorks` | `[]TheftHasACause`, `[]StoredTokenIsGood` |
| | `AppIsACaller` | `Spec => ServerSpec` |
| | `ServerKeepsItsWord` | the three properties of `AuthService`, with the app as its caller |
| `ShareServiceProofs` | `TypeCorrect`, `HearersCouldSee`, `LocksHold` | `[]TypeOK`, `[]NobodyHearsLater`, `[]LockedRowsStay` |
| | `SharesShrink`, `PartingIsSound`, `StraysHaveCauses` | `SharesOnlyShrink`, `OnlyStaleRequestsUnfriend`, `OnlyRacesStray` |
| | `SerialCreatesKeepOne` | `Spec /\ []CreatesAlone => []OneActiveShare` |
| `CommunityServiceProofs` | `TypeCorrect`, `CountsNeverTooHigh` | `[]TypeOK`, `[]NoCountTooHigh` |
| | `CountsFallBehindByDeletions` | `OnlyStaleDeletionsMiscount` |
| | `FilesBreakByLostAnswers`, `FilesLeakByKnownCauses` | `OnlyLostAnswersBreak`, `OnlyKnownLeaks` |
| `LocationBufferProofs` | `TypeCorrect`, `SamplesAreStoredOnce` | `[]TypeOK`, `[]StoredOnce` |
| | `LossesHaveCauses` | `LossHasACause` |
| `BackgroundLocationProofs` | `TypeCorrect` | `[]TypeOK` |
| | `TrackingIsKept`, `TrackingIsEnded`, `StraysNeedOverlap` | `OnlyLateStopsUntrack`, `OnlyLateGrantsUnwatch`, `OnlyOverlapsStray` |

None of the invariants is inductive by itself: a handler writes because of what
it read some statements ago, and the proofs say what of that is still true.

**Rides.** `StableReads` says what of a handler's reads is still true when it
writes: the ride it found exists, its host is the
host, a ride that was live is not back to scheduled, a row that was there is
there, a status to announce was reached. It is kept because of a fact about
steps, `ForwardStep`: no step takes a ride's status back, loses a row or
changes a host. A request that moves meets its own condition by its guard, all
others by `Forward` (`StableFresh`, `StableOther`). The inductive invariant
`IInv` is `TypeOK`, `StableReads`, `NoRowsYet` (no participant before the ride
exists, which `CreateRide` needs), `StartOnRecord` (a ride that is live or ended
has started, one that is scheduled has not), `NotYetTold` (a status that a request
is about to announce has not been announced, which with `OneTransitionWins` makes
it heard once) and the other invariants; each of its
conjuncts has its own step lemma, and `Inductive` puts them together. The
refinement follows from `IInv`: `LifecycleStep` maps each handler step to one
abstract move or to a stutter, and the action properties are read off the
abstract moves or off the handlers.

One fact about data is needed, that the newest time of a batch is in it and no
older than any other (`LastIsNewest`); it rests on `LeastNatural`, which gets
the least element of a set of naturals from the library's well-foundedness of
`<`.

**Hub.** The types are inductive with `Shaped` (a sender that is at work has a
message, and at most one client in hand) and `Lives` (what serve, pump and
connection of a client know of each other); the same step gives `Ages`: a closed
client stays closed, a pump that gave up has given up for good. `MessageSteps`
then sorts the steps by what they do to messages: nothing (`Calm`), the pump's
take and write, a sender that begins, a sender that passes a client. `Aimed` (a
message has one sender and is for the clients of its snapshot) makes
`NoSilentGap` inductive; `Once` says of all a client holds, written, queued and
in its pump's hands, that it was meant for it, is there once and is not coming
again. Order is the hard one, as a message may be anywhere: `Ahead` says for each
place the second message can be in that the first is further on, or that the
pump is past writing. It starts from `NoSilentGap` when the second message is
begun. A closed client whose pump still runs is the case that needs care: it may
have missed the first, and it is `sendRaw`'s look at `done` before it queues that
keeps the second away.

**Sessions.** A token that is live or expired is `Unrevoked`; a request that has
revoked one and not yet inserted the next is `Rotating`. The inductive invariant
says that a session, which is all tokens with one `root`, has one of the two at
most: `OneUnrevoked`, `OneRotation`, `NotBoth`. It has to speak of expired tokens
too, since `Refresh` may rotate one that expires after it was read. `RootsRight`
(a token's root was issued) and `PresentedIssued` (nobody presents a token that
was never issued) make a new token's session a new one. Who hangs up changes
neither where a request is nor its token (`HangUpFacts`).

**The app's session.** A refresh token is in one place at a time (`Exclusive`):
in the answer that brings it (`new`), in the hands of the refresh that writes it
(`got`), or in a device's store (`refresh`). One at rest there has not been shown
to the server and is not revoked, unless it is excused or its session stolen
(`Unspent`); a device shows it by a refresh, and has at most one of them
(`OneFlight`), so a refresh request is the only one with its token and never
finds it revoked (`OnceShown`). That is `TheftHasACause`, and `Unspent` while no
refresh runs is `StoredTokenIsGood`. What the server's steps have in common is
`ServerMoves`, which uses the invariant of **Sessions**; the device's steps either
send a stored token (`SendKeeps`), forget some (`DropKeeps`), or hand one on
(`CarryKeeps`). The hard case is a login while an older refresh is in flight:
`Kept` says that the stored token is at rest then, since the refresh has shown
another. `SignedOutForGood` is separate: after the sign-out an access token that is
still stored has no user beside it and no profile request that could bring one,
and while a sign-out is past its removal of the access token there is none
(`OutAt`); but for a login that is being saved, and for the devices in
`overtaken`, whose access token was written after that removal or after the end.
The property has the same two exceptions, and they are what the code does: `clear`
awaits each removal, and neither a refresh nor a login asks whether it runs.

A device does to the server what any caller may (`DeviceCalls`): it sends a
stored token, which `Issued` says is one the server gave out, it takes an
answer, or it stops waiting. So `AppSession` implements `ServerSpec` with the
identity as refinement mapping, and the server's theorems carry over.

**Shares.** `NobodyHearsLater` follows from what an upload knows at each of its
statements (`UploadsBlind`): who could not see the share when it arrived cannot
see it now, because a share that exists never gains a viewer. `PreviousExist`
(the shares a `CreateShare` will end exist) makes the types inductive. For
friendships the invariant is `RowsFound`: the rows a `RequestFriend` waits for
exist, since what others delete is taken from it (`Forget`), and those it has
locked are still declined. `PartingSteps` lists the steps that end a friendship;
with `Shrinks` (an existing share keeps its owner and gains no viewer) it gives
the ways to see a stranger's share. `SerialCreatesKeepOne` is the other side of
the finding `one_active_share`: what the documentation says of `CreateShare` is
true of every execution in which no two of one account's requests are between
UPDATE and COMMIT at once. Then what is on is what the UPDATE has found
(`SnapshotsFull`), and the new share is the only one that is left (`OneOn`).

**Community.** `LikesFound` and `CommentsFound` say that a deletion which has
taken its snapshot knows of every like, and of as many comments, as its user has
now: `OneDeletion` (the user's row is locked) keeps more from coming, and what
goes does not disturb it. So its commit takes at least as much from a counter as
rows go (`OwnRowsGo`), which is `NoCountTooHigh`, and more only where the
snapshot is out of date, which is `OnlyStaleDeletionsMiscount`. `Vacant`
(a post that is not there has no rows) is what a new post starts from,
`FinitelyMany` lets rows be counted, `OneAvatar` is for the types.

For the files the invariant is `FilesRight`. A file has one name at most
(`NamedOnce`); what an upload has stored is there and only in its hands
(`UploadsFresh`); what is to be removed after a commit has lost its name
(`RemovalsOver`); the avatar an upload found is still its user's or nobody's
(`FoundAreOwn`); and a deletion knows exactly the named files of its user, whose
locked row keeps more from coming (`DeletionsKnow`). A step then moves files
along one request only (`NamesRight`), so a file with a name is deleted only by
the clean-up after a COMMIT whose answer was lost. For the leaks a file is
followed from its name or its request to the request that will delete it
(`NothingForgotten`, `NothingDropped`); the steps where nobody takes it over, or
who took it over fails, are those the property names.

**Location buffer.** A fix is known if it is in the buffer, in the loop's batch,
on the wire or stored. All known entries of one fix are the same (`FixesDiffer`),
since `Record` uses a new one; with `OwnStamps` (a clock that is not ahead keeps
its times) that is `StoredOnce`. For losses, what the loop awaits an answer to is
the group it will mark (`AwaitedRight`), and when the answer is `ok` the server
has that group, as far as the clock allows (`AnsweredRight`). What is read of the file
is all of it or nothing (`ReadFacts`), and only `Record` adds to it
(`OnlyRecordAdds`). `FirstIsOldest`
gives the buffer and the batch an oldest entry, again from the well-foundedness
of `<`.

**Tracker.** `TimerRuns` (a stream that `_sub` knows has its timer), `StartsSawNone`
(a start that waits has found no stream) and `StopsWereRight` (a stop that
cancels has found nothing active, unless it is the sign-out's) are inductive with
the types; the three action properties are read off the steps.

**Model-checked only.** Liveness: `BroadcastReturns`, `DeliveredOrClosed` and
`ClosedIsReleased` of the hub and `BufferDrains` of the location buffer need
fairness and ENABLED, which are beyond the prover. All invariants and action
properties of the passing runs are theorems.

## Findings

Each of these runs checks one statement of the repository and finds a shortest
execution that breaks it.

* `removed_stays_removed`: an upload that passed its check before the removal
  writes `riding` over `removed` (`service/location.go:106`).
* `one_active_share`: two devices create a share at once, neither sees the
  other's row to end it, and both stay active (`service/shares.go:64`), while
  `docs/api.md:93` says that a new share "Ends your previous active share".

Other orders the models reach, with no run of their own.

Rides and their feed:

* a participant is added to a ride that ended after `JoinRide` read its status
  (`service/rides.go:308`, `331`), and points are stored for one that ended
  after the `ride not live` check (`service/location.go:85`, `97`);
* sockets hear `ended` and then `live`, when the start waits between its commit and
  its broadcast while the ride is ended (`service/rides.go:397`);
* the right to a ride's feed is checked when the socket opens and never again
  (`handler/ws.go:107`), so a removed participant's open socket goes on hearing;
* a ride created by a request that was accepted before its host's account was
  deleted stays scheduled with nobody to start or cancel it
  (`service/rides.go:131`); a deleted host's live ride becomes `cancelled`
  (`service/users.go:128`), which no other operation does.

Sessions:

* a rotation that has revoked its token and not yet inserted the next is not
  touched by the revocation after a reuse (`service/auth.go:142`), nor by the
  deletion of the account if it has read the account before
  (`service/auth.go:155`);
* the server may fail after it revoked the presented token and before it inserted
  the next (`service/auth.go:148`); the app keeps the revoked one for a retry
  (`api_client.dart:201`), which the server takes for theft;
* a refresh that times out clears the stored tokens (`api_client.dart:213`) while
  the notifier goes on showing its user as signed in (`auth_notifier.dart:82`);
* a refresh in flight at sign-out writes its tokens during `clear`'s removals or
  after them; if it is between the first and the last, or a profile request stores
  its user, the next start finds a stored session (`api_client.dart:211`,
  `token_store.dart:61`); so does a login that is saved while an older sign-out
  still removes; `SignedOutForGood` holds but for these;
* a request answered 401 during logout presents the token that logout revokes,
  which counts as reuse (`auth_notifier.dart:142`).

Friends and shares:

* two people who ask each other at once leave two pending requests, because
  `FOR UPDATE` locks no row that is not there (`service/friends.go:115`);
* a location is told after its share was stopped or the viewer's grant revoked, if
  the upload had read them before (`service/location.go:159`); `NobodyHearsLater`
  says that it goes to nobody who could not see the share when the upload arrived;
* a friendship that ends after `CreateShare` read it leaves the share granted to
  somebody who is no friend (`service/shares.go:53`); a `RequestFriend` that found
  a declined row deletes what others have made of the pair since.

Community:

* a deletion counts a like or comment that is taken back between its snapshot and
  its lock, and the counter is then too low (`service/users.go:118`);
* two avatars at once: one old file is deleted twice and the other's never
  (`service/users.go:61`);
* a COMMIT whose answer is lost: the handler deletes the files of a post that is
  there (`service/posts.go:125`);
* a write that fails midway, or an `os.Remove` that fails, leaves a file
  (`service/media.go:114`, `123`, `137`);
* a request that was accepted before the account was deleted posts, likes or
  comments for it afterwards.

The phone:

* with its clock more than five minutes ahead all points of a batch get one time,
  and the server keeps one of them;
* one failing read of the queue's file, when a fix is recorded or a batch
  acknowledged, and the whole queue is gone (`location_buffer.dart:57`), though the
  error may have been a passing one;
* a refusal drops all points of the ride or share, those recorded since included;
* a start during a stop takes the dying stream for its own, and the ride is then
  not tracked; two starts at once leave a stream that nothing cancels; a permission
  request that throws leaves the ride set and untracked
  (`background_location_service.dart:139`);
* points that are buffered at sign-out are posted with the next user's token.

## Not modelled, and why

* Rate limiter: one map under one mutex; that it turns requests away is a failure
  every caller's model has. Its window lets twice the limit through around a
  boundary, which is visible in its code.
* Migrations: one advisory lock around one loop.
* The live map and its socket client: a cache of what the ride's API and socket
  say. Its order of snapshot and connection misses events in between
  (`live_ride_map_screen.dart:74`); as a model it would be the product of
  `RideService`, `WsHub` and the screen, which is out of TLC's reach at bounds
  where those are of interest. So is a fix sent over another ride's socket
  (`background_location_service.dart:214`), whose buffered copy goes to the right
  one, and a friend who stays on the friends' map because a list is applied after
  the message that the share has ended.
* The drive recorder and the feed: state of one screen that no other part reads;
  their overlaps are listed as hazards.
* Screens, theme, routing and maps (no protocol state), text validation (pure and
  unit-tested), thumbnails and file formats, logging, configuration, the seed
  command.

Parts of modelled components that are left out are named in `PROJECT.json`; they
read, list or format and change no state.

## Running

    tlc -workers 2 -config MCRideService.cfg MCRideService
    tlapm RideServiceProofs.tla

`PROJECT.json` names the module and configuration of each run, the fault that
each property is checked against, and the source lines of each definition.
