---------------------------- MODULE AuthService ----------------------------
(***************************************************************************)
(* The sessions of one account (service/auth.go): refresh tokens that are  *)
(* rotated on use, with several requests at once.  Every SQL statement is  *)
(* one step.  Presenting a token that was revoked counts as theft and      *)
(* revokes all the others.                                                 *)
(*                                                                         *)
(* Here any caller may present any token at any time; AppSession puts the  *)
(* mobile app in the callers' place.                                       *)
(***************************************************************************)
EXTENDS FiniteSets

CONSTANTS
    Tokens,    \* refresh tokens that may be issued
    Aging,     \* bound: those that get old enough to expire and to be deleted
    Requests,  \* handler goroutines that may run at the same time
    Callers,   \* whom a reply goes to
    Nobody,    \* a caller that hung up
    NoToken

ASSUME CallersAssumption == Nobody \notin Callers
ASSUME TokensAssumption == NoToken \notin Tokens
ASSUME AgingAssumption == Aging \subseteq Tokens

VARIABLES
    token,    \* refresh_tokens: per token, whether it is issued, live, expired, revoked or deleted
    deleted,  \* users.deleted_at is set
    call,     \* the requests in flight
    root,     \* history: the token the login of a token's session was given
    stolen    \* history: sessions that existed when a theft was handled

serverVars == <<token, deleted, call, root, stolen>>

Kinds == {"login", "refresh", "logout", "deleteMe"}
Locations == {"free", "login", "login.issue", "refresh", "refresh.theft", "refresh.rotate",
              "refresh.user", "refresh.issue", "logout", "deleteMe", "done"}
Replies == {"", "ok", "unauthorized", "error"}

\* A request: where it is, what it was, its refresh token, its caller, and in
\* the end the reply and the token that goes with it.
Request == [at : Locations, kind : Kinds \cup {""}, tok : Tokens \cup {NoToken},
            by : Callers \cup {Nobody}, reply : Replies, new : Tokens \cup {NoToken}]

Free == [at |-> "free", kind |-> "", tok |-> NoToken, by |-> Nobody, reply |-> "", new |-> NoToken]

ServerTypeOK ==
    /\ token \in [Tokens -> {"unissued", "live", "expired", "revoked", "gone"}]
    /\ deleted \in BOOLEAN
    /\ call \in [Requests -> Request]
    /\ root \in [Tokens -> Tokens \cup {NoToken}]
    /\ stolen \subseteq Tokens

ServerInit ==
    /\ token = [t \in Tokens |-> "unissued"]
    /\ deleted = FALSE
    /\ call = [r \in Requests |-> Free]
    /\ root = [t \in Tokens |-> NoToken]
    /\ stolen = {}

-----------------------------------------------------------------------------
At(r, location) == call[r].at = location
Goto(r, location) == [call EXCEPT ![r].at = location]

\* The answer, if anybody still waits for it.
Reply(r, reply, t) ==
    [call EXCEPT ![r] = IF @.by = Nobody THEN Free
                        ELSE [@ EXCEPT !.at = "done", !.reply = reply, !.new = t]]

\* A request of this kind arrives.
Arrive(r, kind, t, by) ==
    [call EXCEPT ![r] = [Free EXCEPT !.at = kind, !.kind = kind, !.tok = t, !.by = by]]

\* WHERE revoked_at IS NULL holds of a row, expired or not.
Unrevoked(t) == token[t] \in {"live", "expired"}

Revoke(S) == [t \in Tokens |-> IF t \in S /\ Unrevoked(t) THEN "revoked" ELSE token[t]]

\* issueTokens, for a session that began with token first, or with this one.
Issue(r, first) ==
    \E t \in Tokens :
        /\ token[t] = "unissued"
        /\ token' = [token EXCEPT ![t] = "live"]
        /\ root' = [root EXCEPT ![t] = IF first = NoToken THEN t ELSE first]
        /\ call' = Reply(r, "ok", t)
        /\ UNCHANGED <<deleted, stolen>>

\* The account is looked up, its deletion included; the password is right.
Login(r) ==
    /\ At(r, "login")
    /\ call' = IF deleted THEN Reply(r, "unauthorized", NoToken) ELSE Goto(r, "login.issue")
    /\ UNCHANGED <<token, deleted, root, stolen>>

LoginIssue(r) == At(r, "login.issue") /\ Issue(r, NoToken)

\* SELECT ... WHERE token_hash: what the row says decides how it goes on.
Refresh(r) ==
    /\ At(r, "refresh")
    /\ call' = CASE token[call[r].tok] = "revoked" -> Goto(r, "refresh.theft")
                 [] token[call[r].tok] = "live" -> Goto(r, "refresh.rotate")
                 [] OTHER -> Reply(r, "unauthorized", NoToken)
    /\ UNCHANGED <<token, deleted, root, stolen>>

\* Every token of the user is revoked.
RefreshTheft(r) ==
    /\ At(r, "refresh.theft")
    /\ token' = Revoke(Tokens)
    /\ stolen' = stolen \cup {root[t] : t \in {s \in Tokens : token[s] # "unissued"}}
    /\ call' = Reply(r, "unauthorized", NoToken)
    /\ UNCHANGED <<deleted, root>>

\* Fault: the UPDATE without AND revoked_at IS NULL.
RefreshRotateBlind(r) ==
    /\ At(r, "refresh.rotate")
    /\ token' = Revoke({call[r].tok})
    /\ call' = Goto(r, "refresh.user")
    /\ UNCHANGED <<deleted, root, stolen>>

\* Fault: the new token is issued before the old one is revoked.
RefreshRotateLater(r) ==
    /\ At(r, "refresh.rotate")
    /\ call' = Goto(r, "refresh.user")
    /\ UNCHANGED <<token, deleted, root, stolen>>

\* UPDATE ... WHERE id AND revoked_at IS NULL; 401 when no row matched.
RefreshRotate(r) ==
    /\ At(r, "refresh.rotate")
    /\ IF Unrevoked(call[r].tok)
          THEN token' = Revoke({call[r].tok}) /\ call' = Goto(r, "refresh.user")
          ELSE UNCHANGED token /\ call' = Reply(r, "unauthorized", NoToken)
    /\ UNCHANGED <<deleted, root, stolen>>

\* Fault: the account is not looked up again.
RefreshUserSkipped(r) ==
    /\ At(r, "refresh.user")
    /\ call' = Goto(r, "refresh.issue")
    /\ UNCHANGED <<token, deleted, root, stolen>>

RefreshUser(r) ==
    /\ At(r, "refresh.user")
    /\ call' = IF deleted THEN Reply(r, "unauthorized", NoToken) ELSE Goto(r, "refresh.issue")
    /\ UNCHANGED <<token, deleted, root, stolen>>

RefreshIssue(r) == At(r, "refresh.issue") /\ Issue(r, root[call[r].tok])

Logout(r) ==
    /\ At(r, "logout")
    /\ token' = Revoke({call[r].tok})
    /\ call' = Reply(r, "ok", NoToken)
    /\ UNCHANGED <<deleted, root, stolen>>

\* The transaction of DeleteMe; a second one finds no account.
DeleteMe(r) ==
    /\ At(r, "deleteMe")
    /\ IF deleted
          THEN UNCHANGED <<token, deleted>> /\ call' = Reply(r, "error", NoToken)
          ELSE /\ deleted' = TRUE
               /\ token' = Revoke(Tokens)
               /\ call' = Reply(r, "ok", NoToken)
    /\ UNCHANGED <<root, stolen>>

\* Fault: a refresh that cannot issue its token makes the old one usable again.
FailUndoing(r) ==
    /\ ~ At(r, "free") /\ ~ At(r, "done")
    /\ call' = Reply(r, "error", NoToken)
    /\ token' = IF At(r, "refresh.issue") THEN [token EXCEPT ![call[r].tok] = "live"] ELSE token
    /\ UNCHANGED <<deleted, root, stolen>>

\* A statement fails, or the caller's context is cancelled.  Refresh answers
\* that its token is bad when the account cannot be read, and ignores an
\* error of the revocation after a theft.
Fail(r) ==
    /\ ~ At(r, "free") /\ ~ At(r, "done")
    /\ call' = Reply(r, IF call[r].at \in {"refresh.theft", "refresh.user"}
                           THEN "unauthorized" ELSE "error", NoToken)
    /\ UNCHANGED <<token, deleted, root, stolen>>

-----------------------------------------------------------------------------
\* Time passes: a token expires, and the janitor deletes old rows.
Expire(t) ==
    /\ token[t] = "live"
    /\ token' = [token EXCEPT ![t] = "expired"]
    /\ UNCHANGED <<deleted, call, root, stolen>>

Purge(t) ==
    /\ token[t] \in {"expired", "revoked"}
    /\ token' = [token EXCEPT ![t] = "gone"]
    /\ UNCHANGED <<deleted, call, root, stolen>>

\* The server stops and starts again; requests under way get no answer.
Crash ==
    /\ call' = [r \in Requests |-> IF At(r, "done") THEN call[r] ELSE Free]
    /\ UNCHANGED <<token, deleted, root, stolen>>

Handler(r) ==
    \/ Login(r) \/ LoginIssue(r)
    \/ Refresh(r) \/ RefreshTheft(r) \/ RefreshRotate(r) \/ RefreshUser(r) \/ RefreshIssue(r)
    \/ Logout(r) \/ DeleteMe(r)

ServerNext ==
    \/ \E r \in Requests : Handler(r) \/ Fail(r)
    \/ \E t \in Aging : Expire(t) \/ Purge(t)
    \/ Crash

-----------------------------------------------------------------------------
\* Whoever calls: any request, with any token ever issued.
AnyArrival(r) ==
    /\ At(r, "free")
    /\ \E kind \in Kinds, by \in Callers :
          \E t \in IF kind \in {"refresh", "logout"}
                      THEN {s \in Tokens : token[s] # "unissued"} ELSE {NoToken} :
              call' = Arrive(r, kind, t, by)
    /\ UNCHANGED <<token, deleted, root, stolen>>

Collect(r) ==
    /\ At(r, "done")
    /\ call' = [call EXCEPT ![r] = Free]
    /\ UNCHANGED <<token, deleted, root, stolen>>

\* Callers stop waiting (timeout, lost connection, killed); the handlers go on.
HangUp(S) ==
    call' = [r \in Requests |-> IF r \notin S THEN call[r]
                                ELSE IF At(r, "done") THEN Free ELSE [call[r] EXCEPT !.by = Nobody]]

Anything ==
    \/ ServerNext
    \/ \E r \in Requests : AnyArrival(r) \/ Collect(r)
    \/ \E S \in SUBSET Requests : HangUp(S) /\ UNCHANGED <<token, deleted, root, stolen>>

ServerSpec == ServerInit /\ [][Anything]_serverVars

-----------------------------------------------------------------------------
\* A session is one chain of tokens: however often a token is presented and by
\* whomever, of the tokens that descend from one login at most one is live or
\* about to be issued (the conditional UPDATE of Refresh, before the INSERT).
Heirs(first) ==
    {t \in Tokens : root[t] = first /\ token[t] = "live"}
        \cup {r \in Requests : call[r].at \in {"refresh.user", "refresh.issue"}
                                /\ root[call[r].tok] = first}
OneHeirPerSession == \A first \in Tokens : \A x, y \in Heirs(first) : x = y

\* A revoked token is never honoured again: nothing makes its row usable.
RevokedForGood ==
    [][\A t \in Tokens : token[t] \in {"revoked", "gone"} => token'[t] \in {"revoked", "gone"}]_token

\* Deletion ends the account: after it no request reaches the point where it
\* issues a token, neither a login nor a refresh of a token issued late; what is
\* left is the requests that were there already.
NoSessionAfterDeletion ==
    [][\A r \in Requests :
          deleted /\ call'[r].at \in {"login.issue", "refresh.issue"}
              => call[r].at \in {"login.issue", "refresh.issue"}]_call
=============================================================================
