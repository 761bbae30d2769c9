----------------------------- MODULE AppSession -----------------------------
(***************************************************************************)
(* The app's end of a session: ApiClient, which refreshes tokens when a    *)
(* request is answered 401, AuthNotifier, which signs in and out, and      *)
(* TokenStore, which survives a restart.  AuthService is the other end.    *)
(*                                                                         *)
(* A request other than the four modelled there only matters for its 401:  *)
(* it may start a refresh whenever the store holds an access token.        *)
(***************************************************************************)
EXTENDS AuthService

CONSTANT Uses  \* bound: what the app does besides login, of logout, deleteMe and profile

Devices == Callers

VARIABLES
    app,        \* per device, its stored tokens and what it is doing
    excused,    \* history: tokens that a device stores although they may be revoked
    overtaken   \* history: devices whose access token was written in spite of a sign-out

vars == <<serverVars, app, excused, overtaken>>

\* Who may be running TokenStore.clear: a refresh that failed, and two
\* sign-outs, the user's own and that of onSessionExpired (bound: while that one
\* runs, a second is the same).
SignOuts == {"ui", "late"}
Clearers == SignOuts \cup {"flight"}

\* clear removes one key after the other, each removal awaited.
After == [access |-> "refresh", refresh |-> "user", user |-> "done"]

\* access, refresh, user: what TokenStore holds.   status: of AuthNotifier.
\* flight: _refreshInFlight; got: the token it is writing.   ui: the user's own
\* operation; mine: the token that a login is saving.   profile: refreshProfile.
\* clear: per clear that runs, the key it removes next.
App == [access : BOOLEAN, refresh : Tokens \cup {NoToken}, user : BOOLEAN, status : {"in", "out"},
        flight : {"idle", "wait", "write", "rejected", "lost"}, got : Tokens \cup {NoToken},
        ui : {"idle", "login", "saveRefresh", "saveUser", "signIn", "logout", "deleteMe", "signOut"},
        mine : Tokens \cup {NoToken},
        profile : {"idle", "asked", "waiting", "again"},
        clear : [Clearers -> {"idle", "done"} \cup DOMAIN After]]

Fresh == [access |-> FALSE, refresh |-> NoToken, user |-> FALSE, status |-> "out",
          flight |-> "idle", got |-> NoToken, ui |-> "idle", mine |-> NoToken, profile |-> "idle",
          clear |-> [w \in Clearers |-> "idle"]]

AppTypeOK ==
    /\ app \in [Devices -> App]
    /\ excused \subseteq Tokens
    /\ overtaken \subseteq Devices

Init ==
    /\ ServerInit
    /\ app = [d \in Devices |-> Fresh]
    /\ excused = {}
    /\ overtaken = {}

-----------------------------------------------------------------------------
serverRest == <<token, deleted, root, stolen>>

\* Remembers that a stored token may be a revoked one, for a failure of the
\* server, the end of the app or a sign-out.
Excuse(t) == excused' = excused \cup ({t} \ {NoToken})

\* A device sends a request; it may get lost on the way and not be handled.
Send(d, kind, t) == \E r \in Requests : At(r, "free") /\ call' = Arrive(r, kind, t, d)

Pending(d, kind) == {r \in Requests : call[r].kind = kind /\ call[r].by = d}

\* The answer to a request is in, and its goroutine ends.
Answered(d, kind, r, reply) ==
    /\ r \in Pending(d, kind) /\ At(r, "done") /\ call[r].reply = reply
    /\ call' = [call EXCEPT ![r] = Free]

Remove(a, key) == [a EXCEPT !.access = @ /\ key # "access",
                            !.refresh = IF key = "refresh" THEN NoToken ELSE @,
                            !.user = @ /\ key # "user"]

\* The refresh is over; a profile request that waits for it is sent again or not.
Landed(a, ok) ==
    [a EXCEPT !.flight = "idle", !.got = NoToken, !.clear["flight"] = "idle",
              !.profile = IF @ = "waiting" THEN (IF ok THEN "again" ELSE "idle") ELSE @]

\* A login is writing its session.
Saving(a) == a.ui \in {"saveRefresh", "saveUser", "signIn"}

\* A sign-out has removed the access token and is not over.
SigningOut(a) == \E w \in SignOuts : a.clear[w] \in {"refresh", "user", "done"}

\* Fault: the notifier is signed out whatever its state, as a status of its own.
ExpiredStatus(a) == [a EXCEPT !.status = "expired"]

\* The refresh has failed: it clears the store, the access token at once.
Dropping(a, why) == [a EXCEPT !.flight = why, !.access = FALSE, !.clear["flight"] = "refresh"]

\* onSessionExpired
Expired(a) == [a EXCEPT !.clear["late"] = IF a.status = "in" /\ @ = "idle" THEN "access" ELSE @]

-----------------------------------------------------------------------------
\* Fault: a second 401 starts a second refresh.
RefreshStartAgain(d) ==
    /\ app[d].flight \in {"idle", "wait"} /\ app[d].access /\ app[d].refresh # NoToken
    /\ Send(d, "refresh", app[d].refresh)
    /\ app' = [app EXCEPT ![d].flight = "wait"]
    /\ UNCHANGED <<serverRest, excused, overtaken>>

\* _refreshTokens for the first request that is answered 401.
RefreshStart(d) ==
    /\ app[d].flight = "idle" /\ app[d].access
    /\ IF app[d].refresh = NoToken
          THEN /\ app' = [app EXCEPT ![d] = Dropping(@, "rejected")]
               /\ overtaken' = overtaken \ {d}
               /\ UNCHANGED call
          ELSE /\ Send(d, "refresh", app[d].refresh)
               /\ app' = [app EXCEPT ![d].flight = "wait"]
               /\ UNCHANGED overtaken
    /\ UNCHANGED <<serverRest, excused>>

\* Fault: only the access token is replaced.
RefreshWriteAccessOnly(d) ==
    /\ app[d].flight = "write"
    /\ app' = [app EXCEPT ![d] = Landed(@, TRUE)]
    /\ UNCHANGED <<serverRest, call, excused, overtaken>>

\* 2xx: the access token is written, and then the refresh token.
RefreshOk(d) ==
    /\ app[d].flight = "wait"
    /\ \E r \in Requests :
          /\ Answered(d, "refresh", r, "ok")
          /\ app' = [app EXCEPT ![d].flight = "write", ![d].access = TRUE, ![d].got = call[r].new]
    /\ overtaken' = IF app[d].status = "out" \/ SigningOut(app[d])
                       THEN overtaken \cup {d} ELSE overtaken
    /\ UNCHANGED <<serverRest, excused>>

RefreshWrite(d) ==
    /\ app[d].flight = "write"
    /\ app' = [app EXCEPT ![d] = Landed([@ EXCEPT !.refresh = app[d].got], TRUE)]
    /\ UNCHANGED <<serverRest, call, excused, overtaken>>

\* 401: the store is cleared, and then the notifier told.
RefreshRejected(d) ==
    /\ app[d].flight = "wait"
    /\ \E r \in Requests : Answered(d, "refresh", r, "unauthorized")
    /\ app' = [app EXCEPT ![d] = Dropping(@, "rejected")]
    /\ overtaken' = overtaken \ {d}
    /\ UNCHANGED <<serverRest, excused>>

\* 5xx: the tokens are kept, the one just presented among them.
RefreshHiccup(d) ==
    /\ app[d].flight = "wait"
    /\ \E r \in Requests :
          Answered(d, "refresh", r, "error") /\ Excuse(call[r].tok)
    /\ app' = [app EXCEPT ![d] = Landed(@, FALSE)]
    /\ UNCHANGED <<serverRest, overtaken>>

\* Timeout or no connection: the store is cleared and nobody told.
RefreshLost(d) ==
    /\ app[d].flight = "wait"
    /\ HangUp(Pending(d, "refresh"))
    /\ app' = [app EXCEPT ![d] = Dropping(@, "lost")]
    /\ overtaken' = overtaken \ {d}
    /\ UNCHANGED <<serverRest, excused>>

\* The store is clear, and the refresh over; the notifier is told of a rejected one.
RefreshCleared(d) ==
    /\ app[d].flight \in {"rejected", "lost"} /\ app[d].clear["flight"] = "done"
    /\ app' = [app EXCEPT ![d] = IF @.flight = "rejected" THEN Expired(Landed(@, FALSE))
                                 ELSE Landed(@, FALSE)]
    /\ UNCHANGED <<serverVars, excused, overtaken>>

\* The next removal of TokenStore.clear, whoever runs it.
Clear(d, w) ==
    LET key == app[d].clear[w]
    IN  /\ key \in DOMAIN After
        /\ app' = [app EXCEPT ![d] = [Remove(@, key) EXCEPT !.clear[w] = After[key]]]
        /\ overtaken' = IF key = "access" THEN overtaken \ {d} ELSE overtaken
        /\ UNCHANGED <<serverVars, excused>>

-----------------------------------------------------------------------------
LoginStart(d) ==
    /\ app[d].status = "out" /\ app[d].ui = "idle"
    /\ Send(d, "login", NoToken)
    /\ app' = [app EXCEPT ![d].ui = "login"]
    /\ UNCHANGED <<serverRest, excused, overtaken>>

\* saveSession writes the access token, the refresh token and the user, and
\* then the notifier signs in.
LoginOk(d) ==
    /\ app[d].ui = "login"
    /\ \E r \in Requests :
          /\ Answered(d, "login", r, "ok")
          /\ app' = [app EXCEPT ![d].access = TRUE, ![d].mine = call[r].new, ![d].ui = "saveRefresh"]
    /\ overtaken' = IF SigningOut(app[d]) THEN overtaken \cup {d} ELSE overtaken \ {d}
    /\ UNCHANGED <<serverRest, excused>>

LoginSave(d) ==
    /\ \/ /\ app[d].ui = "saveRefresh"
          /\ app' = [app EXCEPT ![d].refresh = app[d].mine, ![d].mine = NoToken, ![d].ui = "saveUser"]
       \/ /\ app[d].ui = "saveUser"
          /\ app' = [app EXCEPT ![d].user = TRUE, ![d].ui = "signIn"]
       \/ /\ app[d].ui = "signIn"
          /\ app' = [app EXCEPT ![d].status = "in", ![d].ui = "idle"]
    /\ UNCHANGED <<serverVars, excused, overtaken>>

\* The user's operation ends in _signOutLocally, which awaits stopAll before it clears.
Leaving(a) == [a EXCEPT !.ui = "signOut", !.clear["ui"] = "access"]

\* logout reads the refresh token and revokes it; without one it only signs out.
LogoutStart(d) ==
    /\ "logout" \in Uses
    /\ app[d].status = "in" /\ app[d].ui = "idle"
    /\ IF app[d].refresh = NoToken
          THEN /\ app' = [app EXCEPT ![d] = Leaving(@)]
               /\ UNCHANGED <<call, excused>>
          ELSE /\ Send(d, "logout", app[d].refresh)
               /\ Excuse(app[d].refresh)
               /\ app' = [app EXCEPT ![d].ui = "logout"]
    /\ UNCHANGED <<serverRest, overtaken>>

DeleteStart(d) ==
    /\ "deleteMe" \in Uses
    /\ app[d].status = "in" /\ app[d].access /\ app[d].ui = "idle"
    /\ Send(d, "deleteMe", NoToken)
    /\ app' = [app EXCEPT ![d].ui = "deleteMe"]
    /\ UNCHANGED <<serverRest, excused, overtaken>>

\* The operation's answer is in, or was not waited for.  logout goes on
\* whatever it is, deleteAccount only when it worked, a login failed.
Return(d) ==
    /\ app[d].ui \in {"login", "logout", "deleteMe"}
    /\ \/ /\ HangUp(Pending(d, app[d].ui))
          /\ app' = [app EXCEPT ![d] = IF @.ui = "logout" THEN Leaving(@) ELSE [@ EXCEPT !.ui = "idle"]]
       \/ \E r \in Requests, reply \in {"ok", "unauthorized", "error"} :
             /\ Answered(d, app[d].ui, r, reply)
             /\ ~ (app[d].ui = "login" /\ reply = "ok")
             /\ app' = [app EXCEPT ![d] =
                           IF @.ui = "logout" \/ (@.ui = "deleteMe" /\ reply = "ok")
                              THEN Leaving(@) ELSE [@ EXCEPT !.ui = "idle"]]
    /\ UNCHANGED <<serverRest, excused, overtaken>>

\* Fault: the notifier signs out without waiting for clear.
SignOutUnawaited(d) ==
    /\ \E w \in SignOuts :
          /\ app[d].clear[w] \in DOMAIN After
          /\ app' = [app EXCEPT ![d] = [@ EXCEPT !.status = "out", !.ui = IF w = "ui" THEN "idle" ELSE @]]
    /\ UNCHANGED <<serverVars, excused, overtaken>>

SignedOut(a, w) ==
    [a EXCEPT !.clear[w] = "idle", !.status = "out", !.ui = IF w = "ui" THEN "idle" ELSE @]

\* _signOutLocally, for the user or for onSessionExpired: the store is clear.
SignOut(d) ==
    /\ \E w \in SignOuts :
          /\ app[d].clear[w] = "done"
          /\ app' = [app EXCEPT ![d] = SignedOut(@, w)]
    /\ UNCHANGED <<serverVars, excused, overtaken>>

-----------------------------------------------------------------------------
\* refreshProfile, and whatever else ends in saveUser.
ProfileStart(d) ==
    /\ "profile" \in Uses
    /\ app[d].status = "in" /\ app[d].profile = "idle"
    /\ app' = [app EXCEPT ![d].profile = "asked"]
    /\ UNCHANGED <<serverVars, excused, overtaken>>

\* Answered 401 while a refresh is in flight: it waits for that one.
ProfileDenied(d) ==
    /\ app[d].profile = "asked" /\ app[d].flight # "idle" /\ app[d].access
    /\ app' = [app EXCEPT ![d].profile = "waiting"]
    /\ UNCHANGED <<serverVars, excused, overtaken>>

ProfileOk(d) ==
    /\ app[d].profile \in {"asked", "again"}
    /\ app' = [app EXCEPT ![d].profile = "idle", ![d].user = TRUE]
    /\ UNCHANGED <<serverVars, excused, overtaken>>

ProfileFail(d) ==
    /\ app[d].profile \in {"asked", "again"}
    /\ app' = [app EXCEPT ![d].profile = "idle"]
    /\ UNCHANGED <<serverVars, excused, overtaken>>

\* The app is killed and starts again: _bootstrap trusts what the store holds.
Kill(d) ==
    /\ LET signedIn == app[d].access /\ app[d].user
       IN  app' = [app EXCEPT ![d] = [Fresh EXCEPT
                      !.access = app[d].access, !.refresh = app[d].refresh, !.user = app[d].user,
                      !.status = IF signedIn THEN "in" ELSE "out",
                      !.profile = IF signedIn /\ "profile" \in Uses THEN "asked" ELSE "idle"]]
    /\ Excuse(IF app[d].flight = "idle" THEN NoToken ELSE app[d].refresh)
    /\ HangUp({r \in Requests : call[r].by = d})
    /\ UNCHANGED <<serverRest, overtaken>>

RefreshEnds(d) ==
    \/ RefreshWrite(d) \/ RefreshRejected(d) \/ RefreshHiccup(d) \/ RefreshLost(d)
    \/ RefreshCleared(d)

Device(d) ==
    \/ RefreshStart(d) \/ RefreshOk(d) \/ RefreshEnds(d)
    \/ LoginStart(d) \/ LoginOk(d) \/ LoginSave(d) \/ LogoutStart(d) \/ DeleteStart(d) \/ Return(d) \/ SignOut(d)
    \/ ProfileStart(d) \/ ProfileDenied(d) \/ ProfileOk(d) \/ ProfileFail(d)
    \/ \E w \in Clearers : Clear(d, w)
    \/ Kill(d)

Next ==
    \/ ServerNext /\ UNCHANGED <<app, excused, overtaken>>
    \/ \E d \in Devices : Device(d)

Spec == Init /\ [][Next]_vars

-----------------------------------------------------------------------------
\* The single flight of ApiClient is enough: however many requests are
\* answered 401 at once, the server only sees a revoked token, and revokes
\* every session for it, when an answer was lost to a failure of the server or
\* to the end of the app, or the user was signing out.
TheftHasACause == stolen # {} => deleted \/ excused # {}

\* A session survives on the device: a refresh token that is stored while no
\* refresh runs is not a revoked one, but for the same causes.
StoredTokenIsGood ==
    \A d \in Devices :
        LET t == app[d].refresh
        IN  t # NoToken /\ app[d].flight = "idle" /\ token[t] = "revoked"
                => deleted \/ t \in excused \/ root[t] \in stolen

\* Who signed out stays signed out when the app starts again: while the
\* notifier is signed out the store does not hold a session.  The removals of
\* clear are awaited one by one, so this has exceptions: a login is being saved;
\* or, after a sign-out removed the access token, a refresh in flight or a login
\* wrote another one, which nothing removed since.
SignedOutForGood ==
    \A d \in Devices :
        app[d].status = "out" /\ app[d].access /\ app[d].user
            => Saving(app[d]) \/ d \in overtaken
=============================================================================
