-------------------------- MODULE AppSessionProofs --------------------------
(***************************************************************************)
(* AppSession for any number of devices, tokens and requests: the app's    *)
(* single flight of refreshes against the server's detection of theft.     *)
(***************************************************************************)
EXTENDS AppSession, AuthServiceProofs

-----------------------------------------------------------------------------
(* Types                                                                   *)

\* What one device's step does to it.
LEMMA OneDevice ==
    ASSUME AppTypeOK, NEW d \in Devices, NEW a, app' = [app EXCEPT ![d] = a]
    PROVE  /\ app'[d] = a /\ \A e \in Devices \ {d} : app'[e] = app[e]
           /\ a \in App => app' \in [Devices -> App]
  BY DEF AppTypeOK

LEMMA AfterFacts ==
    /\ DOMAIN After = {"access", "refresh", "user"}
    /\ After["access"] = "refresh" /\ After["refresh"] = "user" /\ After["user"] = "done"
  BY DEF After

Progress == {"idle", "done", "access", "refresh", "user"}

LEMMA AppFields ==
    ASSUME NEW a \in App
    PROVE  /\ a.access \in BOOLEAN /\ a.user \in BOOLEAN /\ a.refresh \in Tokens \cup {NoToken}
           /\ a.got \in Tokens \cup {NoToken} /\ a.mine \in Tokens \cup {NoToken}
           /\ a.clear \in [Clearers -> Progress]
  BY AfterFacts DEF App, Progress

LEMMA ClearersFacts == "flight" \in Clearers /\ "late" \in Clearers /\ "ui" \in Clearers
  BY DEF Clearers, SignOuts

\* The clear of w is at this key.
Cleared(a, w, key) == [a EXCEPT !.clear[w] = key]

LEMMA ClearedFields ==
    ASSUME NEW a \in App, NEW w \in Clearers, NEW key \in Progress
    PROVE  /\ Cleared(a, w, key) \in App
           /\ \A v \in Clearers : Cleared(a, w, key).clear[v] = IF v = w THEN key ELSE a.clear[v]
           /\ Cleared(a, w, key).access = a.access /\ Cleared(a, w, key).user = a.user
           /\ Cleared(a, w, key).refresh = a.refresh /\ Cleared(a, w, key).got = a.got
           /\ Cleared(a, w, key).mine = a.mine /\ Cleared(a, w, key).status = a.status
           /\ Cleared(a, w, key).flight = a.flight /\ Cleared(a, w, key).ui = a.ui
           /\ Cleared(a, w, key).profile = a.profile
<1>1. a.clear \in [Clearers -> Progress] /\ Progress = {"idle", "done"} \cup DOMAIN After
  BY AppFields, AfterFacts DEF Progress
<1>. QED  BY <1>1 DEF Cleared, App

\* Nothing but what the user sees, and what the clears have left, may differ.
SameTokens(a, b) == b.refresh = a.refresh /\ b.got = a.got /\ b.mine = a.mine

\* What the user sees does not change.
SameView(a, b) ==
    b.access = a.access /\ b.user = a.user /\ b.status = a.status /\ b.profile = a.profile

LEMMA RemoveFields ==
    ASSUME NEW a \in App, NEW key \in DOMAIN After
    PROVE  LET b == Remove(a, key)
           IN  /\ b \in App /\ b.clear = a.clear /\ b.status = a.status /\ b.flight = a.flight
               /\ b.got = a.got /\ b.mine = a.mine /\ b.ui = a.ui /\ b.profile = a.profile
               /\ b.access => a.access /\ key # "access"
               /\ b.user => a.user
               /\ b.refresh \in {a.refresh, NoToken} /\ (key = "refresh" => b.refresh = NoToken)
  BY DEF Remove, App

LEMMA LandedFields ==
    ASSUME NEW a \in App, NEW ok \in BOOLEAN
    PROVE  LET b == Landed(a, ok)
           IN  /\ b \in App /\ b.flight = "idle" /\ b.got = NoToken
               /\ b.refresh = a.refresh /\ b.mine = a.mine /\ b.access = a.access
               /\ b.user = a.user /\ b.status = a.status /\ b.ui = a.ui
               /\ b.profile # "idle" => a.profile # "idle"
               /\ \A w \in SignOuts : b.clear[w] = a.clear[w]
<1> DEFINE c == Cleared(a, "flight", "idle")
           s == IF a.profile = "waiting" THEN (IF ok THEN "again" ELSE "idle") ELSE a.profile
           b == [c EXCEPT !.flight = "idle", !.got = NoToken, !.profile = s]
<1>1. /\ c \in App /\ c.access = a.access /\ c.user = a.user /\ c.refresh = a.refresh
      /\ c.mine = a.mine /\ c.status = a.status /\ c.ui = a.ui
      /\ \A w \in SignOuts : c.clear[w] = a.clear[w]
  BY ClearersFacts, ClearedFields DEF Progress, Clearers, SignOuts
<1>2. Landed(a, ok) = b
  BY DEF Landed, Cleared, App
<1>3. s \in {"idle", "asked", "waiting", "again"} /\ (s # "idle" => a.profile # "idle")
  BY DEF App
<1> HIDE DEF c, s
<1>4. b \in App
  <2>1. PICK y \in App : y = [c EXCEPT !.flight = "idle", !.got = NoToken]
    BY <1>1 DEF App
  <2>2. [y EXCEPT !.profile = s] \in App
    BY <1>3 DEF App
  <2>3. [y EXCEPT !.profile = s] = b
    BY <2>1
  <2>. QED  BY <2>2, <2>3
<1>6. b.clear = c.clear
  BY <1>1 DEF App
<1>5. /\ b.flight = "idle" /\ b.got = NoToken /\ b.profile = s
      /\ b.refresh = c.refresh /\ b.mine = c.mine /\ b.access = c.access
      /\ b.user = c.user /\ b.status = c.status /\ b.ui = c.ui
  BY <1>1 DEF App
<1> HIDE DEF b
<1>. QED  BY <1>1, <1>2, <1>3, <1>4, <1>5, <1>6

LEMMA ExpiredFields ==
    ASSUME NEW a \in App
    PROVE  LET b == Expired(a)
           IN  /\ b \in App /\ SameView(a, b) /\ SameTokens(a, b) /\ b.flight = a.flight /\ b.ui = a.ui
               /\ b.clear["flight"] = a.clear["flight"] /\ b.clear["ui"] = a.clear["ui"]
               /\ b.clear["late"] \in {a.clear["late"], "access"}
<1> DEFINE key == IF a.status = "in" /\ a.clear["late"] = "idle" THEN "access" ELSE a.clear["late"]
<1>1. key \in Progress /\ key \in {a.clear["late"], "access"}
  BY AppFields, ClearersFacts DEF Progress
<1>2. Expired(a) = Cleared(a, "late", key)
  BY DEF Expired, Cleared
<1> HIDE DEF key
<1>. QED  BY <1>1, <1>2, ClearedFields, ClearersFacts DEF SameView, SameTokens

LEMMA DroppingFields ==
    ASSUME NEW a \in App, NEW why \in {"rejected", "lost"}
    PROVE  LET b == Dropping(a, why)
           IN  /\ b \in App /\ b.access = FALSE /\ b.flight = why /\ SameTokens(a, b)
               /\ b.clear["flight"] = "refresh" /\ \A w \in SignOuts : b.clear[w] = a.clear[w]
<1> DEFINE c == Cleared(a, "flight", "refresh")
           b == [c EXCEPT !.flight = why, !.access = FALSE]
<1>1. /\ c \in App /\ SameTokens(a, c) /\ c.clear["flight"] = "refresh"
      /\ \A w \in SignOuts : c.clear[w] = a.clear[w]
  BY ClearersFacts, ClearedFields DEF Progress, Clearers, SignOuts, SameTokens
<1>2. Dropping(a, why) = b
  BY DEF Dropping, Cleared, App
<1> HIDE DEF c
<1>3. b \in App /\ b.clear = c.clear /\ b.access = FALSE /\ b.flight = why /\ SameTokens(c, b)
  BY <1>1 DEF App, SameTokens
<1> HIDE DEF b
<1>. QED  BY <1>1, <1>2, <1>3 DEF SameTokens

LEMMA LeavingFields ==
    ASSUME NEW a \in App
    PROVE  LET b == Leaving(a)
           IN  /\ b \in App /\ SameView(a, b) /\ SameTokens(a, b) /\ b.flight = a.flight
               /\ b.ui = "signOut" /\ b.clear["ui"] = "access"
               /\ b.clear["flight"] = a.clear["flight"] /\ b.clear["late"] = a.clear["late"]
<1> DEFINE c == Cleared(a, "ui", "access")
           b == [c EXCEPT !.ui = "signOut"]
<1>1. /\ c \in App /\ SameView(a, c) /\ SameTokens(a, c) /\ c.flight = a.flight
      /\ c.clear["ui"] = "access"
      /\ c.clear["flight"] = a.clear["flight"] /\ c.clear["late"] = a.clear["late"]
  <2>1. "access" \in Progress
    BY DEF Progress
  <2>2. c \in App /\ SameView(a, c) /\ SameTokens(a, c) /\ c.flight = a.flight
    BY <2>1, ClearersFacts, ClearedFields DEF SameView, SameTokens
  <2>3. \A v \in Clearers : c.clear[v] = IF v = "ui" THEN "access" ELSE a.clear[v]
    BY <2>1, ClearersFacts, ClearedFields
  <2> HIDE DEF c
  <2>. QED  BY <2>2, <2>3, ClearersFacts
<1>2. Leaving(a) = b
  BY DEF Leaving, Cleared, App
<1> HIDE DEF c
<1>3. b \in App /\ b.clear = c.clear /\ b.ui = "signOut" /\ b.flight = c.flight
      /\ SameView(c, b) /\ SameTokens(c, b)
  BY <1>1 DEF App, SameTokens, SameView
<1> HIDE DEF b
<1>. QED  BY <1>1, <1>2, <1>3 DEF SameTokens, SameView

\* The record of a device whose notifier signs out.
LEMMA SignedOutFields ==
    ASSUME NEW a \in App, NEW w \in SignOuts
    PROVE  LET b == SignedOut(a, w)
           IN  /\ b \in App /\ SameTokens(a, b) /\ b.flight = a.flight /\ b.status = "out"
               /\ b.access = a.access /\ b.user = a.user /\ b.profile = a.profile
               /\ b.clear["flight"] = a.clear["flight"]
               /\ \A v \in SignOuts : b.clear[v] \in {a.clear[v], "idle"}
<1> DEFINE c == Cleared(a, w, "idle")
           u == IF w = "ui" THEN "idle" ELSE a.ui
           b == [c EXCEPT !.status = "out", !.ui = u]
<1>1. w \in Clearers /\ w # "flight" /\ "idle" \in Progress
  BY DEF Clearers, SignOuts, Progress
<1>2. /\ c \in App /\ SameTokens(a, c) /\ c.flight = a.flight /\ c.ui = a.ui
      /\ c.access = a.access /\ c.user = a.user /\ c.profile = a.profile
  BY <1>1, ClearedFields DEF SameTokens
<1>3. \A v \in Clearers : c.clear[v] = IF v = w THEN "idle" ELSE a.clear[v]
  BY <1>1, ClearedFields
<1>4. SignedOut(a, w) = b
  BY DEF SignedOut, Cleared, App
<1>7. u \in {"idle", a.ui}
  OBVIOUS
<1> HIDE DEF c, u
<1>8. u \in {"idle", "login", "saveRefresh", "saveUser", "signIn", "logout", "deleteMe", "signOut"}
  BY <1>7 DEF App
<1>9. b \in App
  <2> DEFINE e == [c EXCEPT !.status = "out"]
  <2>1. c \in App
    BY <1>2
  <2>2. e \in App
    BY <2>1 DEF App
  <2>3. b = [e EXCEPT !.ui = u]
    BY <2>1 DEF App
  <2> HIDE DEF b, e
  <2>. QED  BY <1>8, <2>2, <2>3 DEF App
<1>5. /\ b.clear = c.clear /\ b.status = "out" /\ b.flight = c.flight /\ SameTokens(c, b)
      /\ b.access = c.access /\ b.user = c.user /\ b.profile = c.profile
  BY <1>2 DEF App, SameTokens
<1> HIDE DEF b
<1>6. b.clear["flight"] = a.clear["flight"] /\ \A v \in SignOuts : b.clear[v] \in {a.clear[v], "idle"}
  BY <1>1, <1>3, <1>5, ClearersFacts DEF Clearers
<1>. QED  BY <1>2, <1>4, <1>5, <1>6, <1>9 DEF SameTokens

LEMMA FreshFields ==
    /\ Fresh \in App /\ Fresh.refresh = NoToken /\ Fresh.got = NoToken /\ Fresh.mine = NoToken
    /\ Fresh.flight = "idle" /\ \A w \in Clearers : Fresh.clear[w] = "idle"
  BY DEF Fresh, App

-----------------------------------------------------------------------------
(* The inductive invariant                                                 *)

\* The token or its session is one that the server may hold against a device
\* that did no wrong.
Bad(t) == deleted \/ t \in excused \/ root[t] \in stolen

\* Where the app or an answer on its way to it holds a token, and which.
Place == (Devices \X {"refresh", "got", "mine"}) \cup (Requests \X {"new"})

Held(p) ==
    CASE p[2] = "refresh" -> app[p[1]].refresh
      [] p[2] = "got" -> app[p[1]].got
      [] p[2] = "mine" -> app[p[1]].mine
      [] OTHER -> call[p[1]].new

\* What a device stores will be presented as it is: no refresh is under way
\* that would replace or remove it, or that has shown it to the server.
Kept(d) ==
    \/ app[d].flight = "idle"
    \/ app[d].flight = "wait" /\ \E r \in Pending(d, "refresh") : call[r].tok # app[d].refresh
    \/ app[d].flight \in {"rejected", "lost"} /\ app[d].clear["flight"] \in {"user", "done"}

Rests(p) == p[2] = "refresh" => Kept(p[1])

Refreshing == {"refresh", "refresh.theft", "refresh.rotate", "refresh.user", "refresh.issue"}

KindsRight ==
    \A r \in Requests :
        /\ call[r].at \in Refreshing => call[r].kind = "refresh"
        /\ call[r].at = "logout" => call[r].kind = "logout"
        /\ call[r].new # NoToken => call[r].at = "done"
        /\ call[r].kind = "refresh" => call[r].tok \in Tokens

Issued ==
    /\ \A r \in Requests : call[r].tok # NoToken => token[call[r].tok] # "unissued"
    /\ \A p \in Place : Held(p) # NoToken => token[Held(p)] # "unissued"

LogoutsExcused ==
    \A r \in Requests : call[r].kind = "logout" /\ call[r].tok # NoToken => call[r].tok \in excused

\* No token is in two places.
Exclusive == \A p, q \in Place : Held(p) = Held(q) /\ Held(p) # NoToken => p = q

\* _refreshInFlight: a device waits for one refresh at most.
OneFlight ==
    \A d \in Devices : \A r \in Pending(d, "refresh") :
        app[d].flight = "wait" /\ \A q \in Pending(d, "refresh") : q = r

\* A token that rests is good, and nobody has shown it.
UnspentAt(p) ==
    Rests(p) /\ Held(p) # NoToken /\ ~Bad(Held(p)) =>
        /\ token[Held(p)] # "revoked"
        /\ \A r \in Requests : call[r].kind = "refresh" => call[r].tok # Held(p)
Unspent == \A p \in Place : UnspentAt(p)

\* A token is shown once, and is good when it is.
ShownAt(r) ==
    call[r].kind = "refresh" /\ ~Bad(call[r].tok) =>
        /\ call[r].at = "refresh" => token[call[r].tok] # "revoked"
        /\ call[r].at # "refresh.theft"
        /\ \A q \in Requests : call[q].kind = "refresh" /\ call[q].tok = call[r].tok => q = r
OnceShown == \A r \in Requests : ShownAt(r)

AppInv ==
    /\ AppTypeOK /\ KindsRight /\ Issued /\ LogoutsExcused /\ Exclusive /\ OneFlight
    /\ Unspent /\ OnceShown /\ TheftHasACause

LEMMA PlaceCases ==
    ASSUME NEW p \in Place
    PROVE  \/ \E d \in Devices : p = <<d, "refresh">> /\ Held(p) = app[d].refresh
           \/ \E d \in Devices : p = <<d, "got">> /\ Held(p) = app[d].got
           \/ \E d \in Devices : p = <<d, "mine">> /\ Held(p) = app[d].mine
           \/ \E r \in Requests : p = <<r, "new">> /\ Held(p) = call[r].new
  BY DEF Place, Held

LEMMA Places ==
    /\ \A d \in Devices : <<d, "refresh">> \in Place /\ <<d, "got">> \in Place /\ <<d, "mine">> \in Place
    /\ \A r \in Requests : <<r, "new">> \in Place
    /\ \A d \in Devices : /\ Held(<<d, "refresh">>) = app[d].refresh /\ Held(<<d, "got">>) = app[d].got
                          /\ Held(<<d, "mine">>) = app[d].mine
    /\ \A r \in Requests : Held(<<r, "new">>) = call[r].new
    /\ \A d : (Rests(<<d, "refresh">>) <=> Kept(d)) /\ Rests(<<d, "got">>) /\ Rests(<<d, "mine">>)
    /\ \A r : Rests(<<r, "new">>)
  BY DEF Place, Held, Rests

LEMMA PlacesNext ==
    /\ \A d \in Devices : /\ Held(<<d, "refresh">>)' = app'[d].refresh /\ Held(<<d, "got">>)' = app'[d].got
                          /\ Held(<<d, "mine">>)' = app'[d].mine
    /\ \A r \in Requests : Held(<<r, "new">>)' = call'[r].new
    /\ \A d : (Rests(<<d, "refresh">>)' <=> Kept(d)') /\ Rests(<<d, "got">>)' /\ Rests(<<d, "mine">>)'
    /\ \A r : Rests(<<r, "new">>)'
  BY DEF Held, Rests

LEMMA HeldTyped ==
    ASSUME ServerTypeOK, AppTypeOK, NEW p \in Place
    PROVE  Held(p) \in Tokens \cup {NoToken}
  BY PlaceCases DEF ServerTypeOK, AppTypeOK, App, Request

-----------------------------------------------------------------------------
(* Steps of the server                                                     *)

LEMMA ReplyCall ==
    ASSUME ServerTypeOK, NEW r \in Requests, NEW answer, NEW t, call' = Reply(r, answer, t)
    PROVE  /\ \A q \in Requests \ {r} : call'[q] = call[q]
           /\ \/ call'[r] = Free
              \/ /\ call'[r].kind = call[r].kind /\ call'[r].tok = call[r].tok /\ call'[r].by = call[r].by
                 /\ call'[r].at = "done" /\ call'[r].new = t
  BY DEF ServerTypeOK, Reply, Request

LEMMA GotoCall ==
    ASSUME ServerTypeOK, NEW r \in Requests, NEW l, call' = Goto(r, l)
    PROVE  /\ \A q \in Requests \ {r} : call'[q] = call[q]
           /\ call'[r].kind = call[r].kind /\ call'[r].tok = call[r].tok /\ call'[r].by = call[r].by
           /\ call'[r].at = l /\ call'[r].new = call[r].new
  BY DEF ServerTypeOK, Goto, Request

\* What a step of the server does to a request.
Handled(q) ==
    \/ call'[q] = Free
    \/ call'[q] = call[q]
    \/ /\ call'[q].kind = call[q].kind /\ call'[q].tok = call[q].tok /\ call'[q].by = call[q].by
       /\ call'[q].at \in Refreshing => call[q].at \in Refreshing
       /\ call'[q].at \notin {"refresh", "logout"}
       /\ call'[q].at = "refresh.theft" => call[q].at = "refresh" /\ token[call[q].tok] = "revoked"
       /\ call'[q].new # NoToken =>
              /\ call'[q].at = "done" /\ call'[q].new \in Tokens
              /\ token[call'[q].new] = "unissued" /\ token'[call'[q].new] = "live"

\* Why a step of the server revokes a token.
Revoked(t) ==
    \/ deleted' \/ root'[t] \in stolen'
    \/ \E q \in Requests : /\ call[q].tok = t
                           /\ \/ call[q].at = "logout"
                              \/ call[q].at = "refresh.rotate" /\ call'[q].at = "refresh.user"

ServerMoves ==
    /\ \A q \in Requests : Handled(q)
    /\ \E r : \A q \in Requests \ {r} : call'[q] = Free \/ call'[q] = call[q]
    /\ \A t \in Tokens : token[t] # "revoked" /\ token'[t] = "revoked" => Revoked(t)
    /\ \A t \in Tokens : token[t] # "unissued" => token'[t] # "unissued" /\ root'[t] = root[t]
    /\ deleted => deleted'
    /\ stolen \subseteq stolen'
    /\ stolen' # stolen => \E q \in Requests : call[q].at = "refresh.theft"

LEMMA FreeCall == Free.kind = "" /\ Free.tok = NoToken /\ Free.by = Nobody /\ Free.at = "free" /\ Free.new = NoToken
  BY DEF Free

LEMMA TheftRevokes ==
    ASSUME Inv, NEW r \in Requests, RefreshTheft(r), NEW t \in Tokens, token[t] # "revoked", token'[t] = "revoked"
    PROVE  root'[t] \in stolen'
<1>1. token[t] # "unissued"
  <2>1. ServerTypeOK /\ token' = Revoke(Tokens)
    BY DEF Inv, RefreshTheft
  <2>. QED  BY <2>1, RevokeFacts
<1>. QED  BY <1>1 DEF RefreshTheft

\* A handler replies to r; the tokens change as its UPDATE says.
LEMMA RepliesMove ==
    ASSUME Inv, KindsRight, NEW r \in Requests, NEW answer, call' = Reply(r, answer, NoToken),
           root' = root, deleted => deleted', stolen \subseteq stolen',
           stolen' # stolen => call[r].at = "refresh.theft",
           token' = token \/ \E S : token' = Revoke(S),
           \A t \in Tokens : token[t] # "revoked" /\ token'[t] = "revoked" => Revoked(t)
    PROVE  ServerMoves
<1>1. ServerTypeOK
  BY DEF Inv
<1>2. /\ \A q \in Requests \ {r} : call'[q] = call[q]
      /\ \/ call'[r] = Free
         \/ /\ call'[r].kind = call[r].kind /\ call'[r].tok = call[r].tok /\ call'[r].by = call[r].by
            /\ call'[r].at = "done" /\ call'[r].new = NoToken
  BY <1>1, ReplyCall
<1>3. \A q \in Requests : Handled(q)
  BY <1>2 DEF Handled, Refreshing
<1>4. \A t \in Tokens : token[t] # "unissued" => token'[t] # "unissued"
  BY <1>1, RevokeFacts
<1>. QED  BY <1>2, <1>3, <1>4 DEF ServerMoves

LEMMA GoesMove ==
    ASSUME Inv, KindsRight, NEW r \in Requests, NEW l \in Locations \ {"refresh", "logout"}, call' = Goto(r, l),
           UNCHANGED <<root, deleted, stolen>>, call[r].at # "done",
           l \in Refreshing => call[r].at \in Refreshing,
           l = "refresh.theft" => call[r].at = "refresh" /\ token[call[r].tok] = "revoked",
           token' = token \/ \E S : token' = Revoke(S),
           \A t \in Tokens : token[t] # "revoked" /\ token'[t] = "revoked" => Revoked(t)
    PROVE  ServerMoves
<1>1. ServerTypeOK /\ call[r].new = NoToken
  BY DEF Inv, KindsRight
<1>2. /\ \A q \in Requests \ {r} : call'[q] = call[q]
      /\ call'[r].kind = call[r].kind /\ call'[r].tok = call[r].tok /\ call'[r].by = call[r].by
      /\ call'[r].at = l /\ call'[r].new = NoToken
  BY <1>1, GotoCall
<1>3. \A q \in Requests : Handled(q)
  BY <1>2 DEF Handled
<1>4. \A t \in Tokens : token[t] # "unissued" => token'[t] # "unissued"
  BY <1>1, RevokeFacts
<1>. QED  BY <1>2, <1>3, <1>4 DEF ServerMoves

LEMMA IssuesMove ==
    ASSUME Inv, KindsRight, NEW r \in Requests, NEW first, Issue(r, first)
    PROVE  ServerMoves
<1>1. ServerTypeOK
  BY DEF Inv
<1>2. PICK t \in Tokens :
        /\ token[t] = "unissued"
        /\ token' = [token EXCEPT ![t] = "live"]
        /\ root' = [root EXCEPT ![t] = IF first = NoToken THEN t ELSE first]
        /\ call' = Reply(r, "ok", t)
        /\ UNCHANGED <<deleted, stolen>>
  BY DEF Issue
<1>3. /\ \A q \in Requests \ {r} : call'[q] = call[q]
      /\ \/ call'[r] = Free
         \/ /\ call'[r].kind = call[r].kind /\ call'[r].tok = call[r].tok /\ call'[r].by = call[r].by
            /\ call'[r].at = "done" /\ call'[r].new = t
  BY <1>1, <1>2, ReplyCall
<1>4. token'[t] = "live" /\ \A s \in Tokens \ {t} : token'[s] = token[s] /\ root'[s] = root[s]
  BY <1>1, <1>2 DEF ServerTypeOK
<1>5. \A q \in Requests : Handled(q)
  BY <1>2, <1>3, <1>4 DEF Handled, Refreshing
<1>. QED  BY <1>2, <1>3, <1>4, <1>5 DEF ServerMoves

LEMMA ServerStep ==
    ASSUME Inv, KindsRight, ServerNext
    PROVE  ServerMoves
<1>0. ServerTypeOK
  BY DEF Inv
<1>1. ASSUME NEW r \in Requests, Handler(r) PROVE ServerMoves
  <2>1. CASE Login(r)
    <3>1. CASE deleted
      BY <2>1, <3>1, RepliesMove DEF Login
    <3>2. CASE ~deleted
      BY <2>1, <3>2, GoesMove DEF Login, At, Locations, Refreshing
    <3>. QED  BY <3>1, <3>2
  <2>2. CASE LoginIssue(r) \/ RefreshIssue(r)
    BY <2>2, IssuesMove DEF LoginIssue, RefreshIssue
  <2>3. CASE Refresh(r)
    <3>1. CASE call' = Reply(r, "unauthorized", NoToken)
      BY <2>3, <3>1, RepliesMove DEF Refresh
    <3>2. CASE call' = Goto(r, "refresh.theft") /\ token[call[r].tok] = "revoked"
      BY <2>3, <3>2, GoesMove DEF Refresh, At, Locations, Refreshing
    <3>3. CASE call' = Goto(r, "refresh.rotate")
      BY <2>3, <3>3, GoesMove DEF Refresh, At, Locations, Refreshing
    <3>. QED  BY <2>3, <3>1, <3>2, <3>3 DEF Refresh
  <2>4. CASE RefreshTheft(r)
    <3>1. \A t \in Tokens : token[t] # "revoked" /\ token'[t] = "revoked" => Revoked(t)
      BY <2>4, TheftRevokes DEF Revoked
    <3>. QED  BY <2>4, <3>1, RepliesMove DEF RefreshTheft, At
  <2>5. CASE RefreshRotate(r)
    <3>1. CASE Unrevoked(call[r].tok)
      <4>1. token' = Revoke({call[r].tok}) /\ call' = Goto(r, "refresh.user")
            /\ UNCHANGED <<root, deleted, stolen>> /\ call[r].at = "refresh.rotate"
        BY <2>5, <3>1 DEF RefreshRotate, At
      <4>2. call'[r].at = "refresh.user"
        BY <1>0, <4>1, GotoCall
      <4>3. \A t \in Tokens : token[t] # "revoked" /\ token'[t] = "revoked" => t = call[r].tok
        BY <4>1 DEF Revoke
      <4>4. \A t \in Tokens : token[t] # "revoked" /\ token'[t] = "revoked" => Revoked(t)
        BY <4>1, <4>2, <4>3 DEF Revoked
      <4>. QED  BY <4>1, <4>4, GoesMove DEF Locations, Refreshing
    <3>2. CASE ~Unrevoked(call[r].tok)
      BY <2>5, <3>2, RepliesMove DEF RefreshRotate
    <3>. QED  BY <3>1, <3>2
  <2>6. CASE RefreshUser(r)
    <3>1. CASE deleted
      BY <2>6, <3>1, RepliesMove DEF RefreshUser
    <3>2. CASE ~deleted
      BY <2>6, <3>2, GoesMove DEF RefreshUser, At, Locations, Refreshing
    <3>. QED  BY <3>1, <3>2
  <2>7. CASE Logout(r)
    <3>1. token' = Revoke({call[r].tok}) /\ call[r].at = "logout"
      BY <2>7 DEF Logout, At
    <3>2. \A t \in Tokens : token[t] # "revoked" /\ token'[t] = "revoked" => Revoked(t)
      BY <3>1 DEF Revoke, Revoked
    <3>. QED  BY <2>7, <3>2, RepliesMove DEF Logout
  <2>8. CASE DeleteMe(r)
    <3>1. CASE deleted
      BY <2>8, <3>1, RepliesMove DEF DeleteMe
    <3>2. CASE ~deleted
      BY <2>8, <3>2, RepliesMove DEF DeleteMe, Revoked
    <3>. QED  BY <3>1, <3>2
  <2>. QED  BY <1>1, <2>1, <2>2, <2>3, <2>4, <2>5, <2>6, <2>7, <2>8 DEF Handler
<1>2. ASSUME NEW r \in Requests, Fail(r) PROVE ServerMoves
  BY <1>2, RepliesMove DEF Fail
<1>3. ASSUME NEW t \in Tokens, Expire(t) \/ Purge(t) PROVE ServerMoves
  <2>1. UNCHANGED <<deleted, call, root, stolen>>
    BY <1>3 DEF Expire, Purge
  <2>2. \A s \in Tokens : /\ token'[s] = "revoked" => token[s] = "revoked"
                          /\ token[s] # "unissued" => token'[s] # "unissued"
    BY <1>0, <1>3 DEF Expire, Purge, ServerTypeOK
  <2>3. \A q \in Requests : Handled(q)
    BY <2>1 DEF Handled
  <2>. QED  BY <2>1, <2>2, <2>3 DEF ServerMoves
<1>4. ASSUME Crash PROVE ServerMoves
  <2>1. \A q \in Requests : call'[q] = Free \/ call'[q] = call[q]
    BY <1>0, <1>4 DEF Crash, ServerTypeOK
  <2>2. \A q \in Requests : Handled(q)
    BY <2>1 DEF Handled
  <2>. QED  BY <1>4, <2>1, <2>2 DEF Crash, ServerMoves
<1>. QED  BY <1>1, <1>2, <1>3, <1>4, AgingAssumption DEF ServerNext

\* What was bad stays so, for what was issued.
LEMMA BadStays ==
    ASSUME NEW t, root'[t] = root[t], deleted => deleted', stolen \subseteq stolen', excused \subseteq excused'
    PROVE  Bad(t) => Bad(t)'
  BY DEF Bad

LEMMA ServerKeeps ==
    ASSUME Inv, AppInv, ServerMoves, ServerTypeOK', UNCHANGED <<app, excused, overtaken>>
    PROVE  AppInv'
<1>0. /\ ServerTypeOK /\ AppTypeOK /\ KindsRight /\ Issued /\ LogoutsExcused /\ Exclusive /\ OneFlight
      /\ Unspent /\ OnceShown /\ TheftHasACause /\ PresentedIssued
  BY DEF AppInv, Inv
<1>1. AppTypeOK'
  BY <1>0 DEF AppTypeOK
<1>2. \A q \in Requests : Handled(q)
  BY DEF ServerMoves
<1>3. KindsRight'
  BY <1>0, <1>2, FreeCall DEF KindsRight, Handled, Refreshing
<1>4. \A t \in Tokens : token[t] # "unissued" => token'[t] # "unissued" /\ root'[t] = root[t]
  BY DEF ServerMoves
<1>5. \A q \in Requests : /\ call[q].tok \in Tokens \cup {NoToken}
                          /\ call'[q] = Free \/ (/\ call'[q].tok = call[q].tok /\ call'[q].kind = call[q].kind
                                                 /\ call'[q].by = call[q].by)
  BY <1>0, <1>2 DEF Handled, ServerTypeOK, Request
<1>6. ASSUME NEW p \in Place
      PROVE  \/ Held(p)' \in {Held(p), NoToken}
             \/ Held(p)' \in Tokens /\ token[Held(p)'] = "unissued" /\ token'[Held(p)'] = "live"
  <2>1. CASE \E d \in Devices : p \in {<<d, "refresh">>, <<d, "got">>, <<d, "mine">>}
    BY <2>1, Places, PlacesNext
  <2>2. CASE \E r \in Requests : p = <<r, "new">>
    <3>1. PICK r \in Requests : p = <<r, "new">>
      BY <2>2
    <3>2. Held(p) = call[r].new /\ Held(p)' = call'[r].new
      BY <3>1, Places, PlacesNext
    <3>. QED  BY <1>2, <3>2, FreeCall DEF Handled
  <2>. QED  BY <2>1, <2>2, PlaceCases
<1>7. \A p \in Place : Held(p) \in Tokens \cup {NoToken}
  BY <1>0, HeldTyped
<1>8. Issued'
  <2>1. \A r \in Requests : call'[r].tok # NoToken => token'[call'[r].tok] # "unissued"
    BY <1>0, <1>4, <1>5, FreeCall DEF Issued
  <2>2. \A p \in Place : Held(p)' # NoToken => token'[Held(p)'] # "unissued"
    BY <1>0, <1>4, <1>6, <1>7 DEF Issued
  <2>. QED  BY <2>1, <2>2 DEF Issued
<1>9. LogoutsExcused'
  BY <1>0, <1>5, FreeCall DEF LogoutsExcused
<1>10. Exclusive'
  <2>1. PICK r : \A q \in Requests \ {r} : call'[q] = Free \/ call'[q] = call[q]
    BY DEF ServerMoves
  <2>2. ASSUME NEW p \in Place, p # <<r, "new">> PROVE Held(p)' \in {Held(p), NoToken}
    <3>1. CASE \E d \in Devices : p \in {<<d, "refresh">>, <<d, "got">>, <<d, "mine">>}
      BY <3>1, Places, PlacesNext
    <3>2. CASE \E q \in Requests : p = <<q, "new">>
      BY <2>1, <2>2, <3>2, FreeCall, Places, PlacesNext
    <3>. QED  BY <3>1, <3>2, PlaceCases
  <2>3. ASSUME NEW p \in Place, NEW q \in Place, Held(p)' = Held(q)', Held(p)' # NoToken, p # <<r, "new">>
        PROVE  p = q
    <3>1. Held(p)' = Held(p) /\ token[Held(p)] # "unissued"
      BY <1>0, <2>2, <2>3 DEF Issued
    <3>2. Held(q)' = Held(q)
      BY <1>6, <2>3, <3>1
    <3>. QED  BY <1>0, <2>3, <3>1, <3>2 DEF Exclusive
  <2>4. ASSUME NEW p \in Place, NEW q \in Place, Held(p)' = Held(q)', Held(p)' # NoToken
        PROVE  p = q
    BY <2>3, <2>4
  <2>. QED  BY <2>4 DEF Exclusive
<1>11. \A d \in Devices : Pending(d, "refresh")' \subseteq Pending(d, "refresh")
  BY <1>5, FreeCall DEF Pending
<1>12. OneFlight'
  BY <1>0, <1>11 DEF OneFlight
<1>13. ASSUME NEW p \in Place, Rests(p)' PROVE Rests(p)
  <2>1. CASE \E d \in Devices : p = <<d, "refresh">>
    <3>1. PICK d \in Devices : p = <<d, "refresh">>
      BY <2>1
    <3>2. Kept(d)'
      BY <1>13, <3>1, PlacesNext
    <3>3. \A r \in Pending(d, "refresh")' : call'[r].tok = call[r].tok
      BY <1>5, FreeCall DEF Pending
    <3>4. Kept(d)
      BY <1>11, <3>2, <3>3 DEF Kept
    <3>. QED  BY <3>1, <3>4, Places
  <2>2. CASE \E d : p \in {<<d, "got">>, <<d, "mine">>, <<d, "new">>}
    BY <2>2, Places
  <2>. QED  BY <2>1, <2>2, PlaceCases
<1>14. ASSUME NEW t \in Tokens, token[t] # "unissued", ~Bad(t)'
       PROVE  ~Bad(t) /\ t \notin excused /\ ~deleted' /\ root'[t] \notin stolen'
  <2>1. root'[t] = root[t]
    BY <1>4, <1>14
  <2>. QED  BY <1>14, <2>1 DEF Bad, ServerMoves
<1>15. ASSUME NEW t \in Tokens, token[t] # "unissued", ~Bad(t)', token[t] # "revoked", token'[t] = "revoked"
       PROVE  \E q \in Requests : /\ call[q].kind = "refresh" /\ call[q].tok = t
                                  /\ call[q].at = "refresh.rotate" /\ call'[q].at = "refresh.user"
  <2>1. PICK q \in Requests : /\ call[q].tok = t
                              /\ \/ call[q].at = "logout"
                                 \/ call[q].at = "refresh.rotate" /\ call'[q].at = "refresh.user"
    BY <1>14, <1>15 DEF ServerMoves, Revoked
  <2>2. call[q].at # "logout"
    BY <1>0, <1>14, <1>15, <2>1, TokensAssumption DEF KindsRight, LogoutsExcused
  <2>. QED  BY <1>0, <2>1, <2>2 DEF KindsRight, Refreshing
<1>16. Unspent'
  <2>1. SUFFICES ASSUME NEW p \in Place, Rests(p)', Held(p)' # NoToken, ~Bad(Held(p))'
                 PROVE  /\ token'[Held(p)'] # "revoked"
                        /\ \A r \in Requests : call'[r].kind = "refresh" => call'[r].tok # Held(p)'
    BY DEF Unspent, UnspentAt
  <2>2. CASE Held(p)' = Held(p)
    <3>1. PICK t \in Tokens : t = Held(p) /\ t = Held(p)'
      BY <1>7, <2>1, <2>2
    <3>2. token[t] # "unissued" /\ Rests(p) /\ t # NoToken
      BY <1>0, <1>13, <2>1, <3>1 DEF Issued
    <3>3. ~Bad(t)'
      BY <2>1, <3>1 DEF Bad
    <3>4. ~Bad(t)
      BY <1>14, <3>2, <3>3
    <3>5. /\ token[t] # "revoked"
          /\ \A r \in Requests : call[r].kind = "refresh" => call[r].tok # t
      BY <1>0, <3>1, <3>2, <3>4 DEF Unspent, UnspentAt
    <3>6. \A r \in Requests : call'[r].kind = "refresh" => call'[r].tok # t
      BY <1>5, <3>2, <3>5, FreeCall
    <3>7. token'[t] # "revoked"
      BY <1>15, <3>2, <3>3, <3>5
    <3>. QED  BY <3>1, <3>6, <3>7
  <2>3. CASE Held(p)' # Held(p)
    <3>1. Held(p)' \in Tokens /\ token[Held(p)'] = "unissued" /\ token'[Held(p)'] = "live"
      BY <1>6, <2>1, <2>3
    <3>2. \A r \in Requests : call'[r].tok # Held(p)'
      BY <1>0, <1>5, <3>1, FreeCall, TokensAssumption DEF Issued
    <3>. QED  BY <3>1, <3>2
  <2>. QED  BY <2>2, <2>3
<1>17. OnceShown'
  <2>1. SUFFICES ASSUME NEW r \in Requests PROVE ShownAt(r)'
    BY DEF OnceShown
  <2>2. CASE call'[r].kind # "refresh"
    BY <2>2 DEF ShownAt
  <2>3. CASE call'[r].kind = "refresh"
    <3>1. call'[r].tok = call[r].tok /\ call[r].kind = "refresh"
      BY <1>5, <2>3, FreeCall
    <3>2. PICK t \in Tokens : t = call[r].tok /\ t = call'[r].tok
      BY <1>0, <3>1 DEF KindsRight
    <3>3. token[t] # "unissued"
      BY <1>0, <3>2, TokensAssumption DEF Issued
    <3>4. CASE Bad(t)'
      BY <3>2, <3>4 DEF ShownAt, Bad
    <3>5. CASE ~Bad(t)'
      <4>1. ~Bad(t)
        BY <1>14, <3>3, <3>5
      <4>2. /\ call[r].at = "refresh" => token[t] # "revoked"
            /\ call[r].at # "refresh.theft"
            /\ \A q \in Requests : call[q].kind = "refresh" /\ call[q].tok = t => q = r
        BY <1>0, <3>1, <3>2, <4>1 DEF OnceShown, ShownAt
      <4>3. call'[r].at = "refresh" => call[r].at = "refresh"
        BY <1>2, <2>3, FreeCall DEF Handled
      <4>4. call'[r].at # "refresh.theft"
        BY <1>2, <2>3, <3>2, <4>2, FreeCall DEF Handled
      <4>5. call[r].at = "refresh" => token'[t] # "revoked"
        BY <1>15, <3>3, <3>5, <4>2
      <4>6. \A q \in Requests : call'[q].kind = "refresh" /\ call'[q].tok = t => q = r
        BY <1>5, <4>2, FreeCall
      <4>. QED  BY <3>2, <4>3, <4>4, <4>5, <4>6 DEF ShownAt
    <3>. QED  BY <3>4, <3>5
  <2>. QED  BY <2>2, <2>3
<1>18. TheftHasACause'
  <2>1. CASE stolen' = stolen
    BY <1>0, <2>1 DEF TheftHasACause, ServerMoves
  <2>2. CASE stolen' # stolen
    <3>1. PICK q \in Requests : call[q].at = "refresh.theft"
      BY <2>2 DEF ServerMoves
    <3>2. Bad(call[q].tok)
      BY <1>0, <3>1 DEF OnceShown, ShownAt, KindsRight, Refreshing
    <3>3. deleted \/ excused # {}
      BY <1>0, <3>2 DEF Bad, TheftHasACause
    <3>. QED  BY <3>3 DEF TheftHasACause, ServerMoves
  <2>. QED  BY <2>1, <2>2
<1>. QED  BY <1>1, <1>3, <1>8, <1>9, <1>10, <1>12, <1>16, <1>17, <1>18 DEF AppInv

-----------------------------------------------------------------------------
(* Steps of a device                                                       *)

\* The request is as it was, gone, or no longer waited for.
Released(q) ==
    \/ call'[q] = Free
    \/ /\ call'[q].at = call[q].at /\ call'[q].kind = call[q].kind /\ call'[q].tok = call[q].tok
       /\ call'[q].new = call[q].new /\ call'[q].by \in {call[q].by, Nobody}

Releases == call' \in [Requests -> Request] /\ \A q \in Requests : Released(q)

LEMMA AnsweredReleases ==
    ASSUME ServerTypeOK, NEW d, NEW kind, NEW r, NEW reply, Answered(d, kind, r, reply)
    PROVE  /\ Releases /\ r \in Requests /\ call[r].kind = kind /\ call[r].by = d /\ call[r].at = "done"
           /\ call'[r] = Free
<1>1. r \in Requests /\ call[r].kind = kind /\ call[r].by = d /\ call[r].at = "done"
      /\ call' = [call EXCEPT ![r] = Free]
  BY DEF Answered, Pending, At
<1>2. call' \in [Requests -> Request] /\ call'[r] = Free /\ \A q \in Requests \ {r} : call'[q] = call[q]
  BY <1>1, FreeFacts DEF ServerTypeOK
<1>. QED  BY <1>1, <1>2 DEF Releases, Released

LEMMA HangUpReleases ==
    ASSUME ServerTypeOK, NEW S, HangUp(S)
    PROVE  /\ Releases
           /\ \A q \in Requests : q \in S => call'[q].by = Nobody
<1>1. call' = [q \in Requests |-> IF q \notin S THEN call[q]
                                  ELSE IF At(q, "done") THEN Free ELSE [call[q] EXCEPT !.by = Nobody]]
  BY DEF HangUp
<1>2. \A q \in Requests : call[q] \in Request /\ [call[q] EXCEPT !.by = Nobody] \in Request
  BY DEF ServerTypeOK, Request
<1>3. call' \in [Requests -> Request]
  BY <1>1, <1>2, FreeFacts
<1>4. ASSUME NEW q \in Requests
      PROVE  Released(q) /\ (q \in S => call'[q].by = Nobody)
  <2>1. CASE q \notin S
    BY <1>1, <2>1 DEF Released
  <2>2. CASE q \in S /\ At(q, "done")
    BY <1>1, <2>2, FreeCall DEF Released
  <2>3. CASE q \in S /\ ~At(q, "done")
    <3>1. call'[q] = [call[q] EXCEPT !.by = Nobody] /\ call[q] \in Request
      BY <1>1, <1>2, <2>3
    <3>. QED  BY <3>1 DEF Released, Request
  <2>. QED  BY <2>1, <2>2, <2>3
<1>. QED  BY <1>3, <1>4 DEF Releases

LEMMA SameReleases ==
    ASSUME ServerTypeOK, call' = call
    PROVE  Releases
  BY DEF ServerTypeOK, Releases, Released

\* The device's step leaves the server in order.
LEMMA ReleasesKeep ==
    ASSUME Inv, Releases, UNCHANGED serverRest
    PROVE  Inv' /\ ServerTypeOK'
<1>1. ServerTypeOK'
  BY DEF Inv, ServerTypeOK, Releases, serverRest
<1>2. \A q \in Requests : call'[q].at = "free" \/ (call'[q].at = call[q].at /\ call'[q].tok = call[q].tok)
  BY FreeCall DEF Releases, Released
<1>3. \A q \in Requests : Rotating(call'[q]) => Rotating(call[q]) /\ call'[q].tok = call[q].tok
  BY <1>2 DEF Rotating
<1>4. \A q \in Requests : call'[q].at \in Presenting => call'[q].tok \in Tokens /\ token[call'[q].tok] # "unissued"
  BY <1>2 DEF Presenting, Inv, PresentedIssued
<1>5. Quiet
  BY <1>3, <1>4 DEF Quiet, serverRest, Unrevoked
<1>. QED  BY <1>1, <1>5, QuietKeeps

\* A device's step moves no token, or the one of place a to place b; what comes
\* to rest had rested, or is excused.
LEMMA MoveKeeps ==
    ASSUME AppInv, ServerTypeOK, UNCHANGED serverRest, Releases, AppTypeOK', excused \subseteq excused',
           NEW a \in Place, NEW b \in Place,
           a = b \/ Held(a)' = NoToken,
           Held(b)' \in {Held(a), NoToken},
           \A p \in Place \ {b} : Held(p)' \in {Held(p), NoToken},
           Rests(b)' /\ Held(b)' # NoToken => Rests(a) \/ Held(b)' \in excused',
           \A p \in Place \ {b} : Rests(p)' /\ Held(p)' # NoToken => Rests(p) \/ Held(p)' \in excused',
           \A d \in Devices : app[d].flight = "wait" =>
               app'[d].flight = "wait" \/ \A r \in Requests : ~(call'[r].kind = "refresh" /\ call'[r].by = d)
    PROVE  AppInv'
<1>0. /\ AppTypeOK /\ KindsRight /\ Issued /\ LogoutsExcused /\ Exclusive /\ OneFlight
      /\ Unspent /\ OnceShown /\ TheftHasACause
  BY DEF AppInv
<1>1. /\ UNCHANGED <<token, deleted, root, stolen>>
      /\ \A q \in Requests : Released(q)
  BY DEF serverRest, Releases
<1>2. \A q \in Requests :
        /\ call[q].tok \in Tokens \cup {NoToken}
        /\ \/ call'[q] = Free
           \/ /\ call'[q].at = call[q].at /\ call'[q].kind = call[q].kind /\ call'[q].tok = call[q].tok
              /\ call'[q].new = call[q].new /\ call'[q].by \in {call[q].by, Nobody}
  BY <1>1 DEF Released, ServerTypeOK, Request
<1>3. KindsRight'
  BY <1>0, <1>2, FreeCall DEF KindsRight, Refreshing
<1>4. ASSUME NEW p \in Place, Held(p)' # NoToken
      PROVE  \E s \in Place : /\ Held(s) = Held(p)' /\ s = (IF p = b THEN a ELSE p)
                              /\ Rests(p)' => Rests(s) \/ Held(p)' \in excused'
  BY <1>4
<1>5. \A p \in Place : Held(p) \in Tokens \cup {NoToken}
  BY <1>0, HeldTyped
<1>6. Issued'
  <2>1. \A r \in Requests : call'[r].tok # NoToken => token'[call'[r].tok] # "unissued"
    BY <1>0, <1>1, <1>2, FreeCall DEF Issued
  <2>2. \A p \in Place : Held(p)' # NoToken => token'[Held(p)'] # "unissued"
    BY <1>0, <1>1, <1>4 DEF Issued
  <2>. QED  BY <2>1, <2>2 DEF Issued
<1>7. LogoutsExcused'
  BY <1>0, <1>2, FreeCall DEF LogoutsExcused
<1>8. Exclusive'
  <2>1. SUFFICES ASSUME NEW p \in Place, NEW q \in Place, Held(p)' = Held(q)', Held(p)' # NoToken
                 PROVE  p = q
    BY DEF Exclusive
  <2>2. (IF p = b THEN a ELSE p) = (IF q = b THEN a ELSE q)
    BY <1>0, <1>4, <2>1 DEF Exclusive
  <2>3. CASE p = b /\ q # b
    BY <2>1, <2>2, <2>3
  <2>4. CASE p # b /\ q = b
    BY <2>1, <2>2, <2>4
  <2>. QED  BY <2>2, <2>3, <2>4
<1>9. OneFlight'
  <2>1. SUFFICES ASSUME NEW d \in Devices, NEW r \in Requests, call'[r].kind = "refresh", call'[r].by = d
                 PROVE  /\ app'[d].flight = "wait"
                        /\ \A q \in Requests : call'[q].kind = "refresh" /\ call'[q].by = d => q = r
    BY DEF OneFlight, Pending
  <2>2. \A q \in Requests : call'[q].kind = "refresh" /\ call'[q].by = d => q \in Pending(d, "refresh")
    BY <1>2, FreeCall, CallersAssumption DEF Pending, Devices
  <2>3. app[d].flight = "wait" /\ \A q \in Pending(d, "refresh") : q = r
    BY <1>0, <2>1, <2>2 DEF OneFlight
  <2>. QED  BY <2>1, <2>2, <2>3
<1>10. ASSUME NEW t, ~Bad(t)' PROVE ~Bad(t) /\ t \notin excused'
  BY <1>1, <1>10, BadStays DEF Bad
<1>11. Unspent'
  <2>1. SUFFICES ASSUME NEW p \in Place, Rests(p)', Held(p)' # NoToken, ~Bad(Held(p))'
                 PROVE  /\ token'[Held(p)'] # "revoked"
                        /\ \A r \in Requests : call'[r].kind = "refresh" => call'[r].tok # Held(p)'
    BY DEF Unspent, UnspentAt
  <2>2. PICK s \in Place : /\ Held(s) = Held(p)'
                           /\ Rests(p)' => Rests(s) \/ Held(p)' \in excused'
    BY <1>4, <2>1
  <2>3. PICK t \in Tokens : t = Held(s) /\ t = Held(p)'
    BY <1>5, <2>1, <2>2
  <2>4. ~Bad(t)'
    BY <2>1, <2>3 DEF Bad
  <2>5. ~Bad(t) /\ Rests(s) /\ t # NoToken
    BY <1>10, <2>1, <2>2, <2>3, <2>4
  <2>6. token[t] # "revoked" /\ \A r \in Requests : call[r].kind = "refresh" => call[r].tok # t
    BY <1>0, <2>3, <2>5 DEF Unspent, UnspentAt
  <2>7. \A r \in Requests : call'[r].kind = "refresh" => call'[r].tok # t
    BY <1>2, <2>6, FreeCall
  <2>. QED  BY <1>1, <2>3, <2>6, <2>7
<1>12. OnceShown'
  <2>1. SUFFICES ASSUME NEW r \in Requests PROVE ShownAt(r)'
    BY DEF OnceShown
  <2>2. CASE call'[r].kind # "refresh"
    BY <2>2 DEF ShownAt
  <2>3. CASE call'[r].kind = "refresh"
    <3>1. call'[r].tok = call[r].tok /\ call[r].kind = "refresh" /\ call'[r].at = call[r].at
      BY <1>2, <2>3, FreeCall
    <3>2. PICK t \in Tokens : t = call[r].tok /\ t = call'[r].tok
      BY <1>0, <3>1 DEF KindsRight
    <3>3. CASE Bad(t)'
      BY <3>2, <3>3 DEF ShownAt, Bad
    <3>4. CASE ~Bad(t)'
      <4>1. ~Bad(t)
        BY <1>10, <3>4
      <4>2. /\ call[r].at = "refresh" => token[t] # "revoked"
            /\ call[r].at # "refresh.theft"
            /\ \A q \in Requests : call[q].kind = "refresh" /\ call[q].tok = t => q = r
        BY <1>0, <3>1, <3>2, <4>1 DEF OnceShown, ShownAt
      <4>3. \A q \in Requests : call'[q].kind = "refresh" /\ call'[q].tok = t => q = r
        BY <1>2, <4>2, FreeCall
      <4>. QED  BY <1>1, <3>1, <3>2, <4>2, <4>3 DEF ShownAt
    <3>. QED  BY <3>3, <3>4
  <2>. QED  BY <2>2, <2>3
<1>13. TheftHasACause'
  BY <1>0, <1>1 DEF TheftHasACause
<1>. QED  BY <1>3, <1>6, <1>7, <1>8, <1>9, <1>11, <1>12, <1>13 DEF AppInv

LEMMA SendCall ==
    ASSUME ServerTypeOK, NEW d \in Devices, NEW kind \in Kinds, NEW t \in Tokens \cup {NoToken}, Send(d, kind, t)
    PROVE  \E r \in Requests :
              /\ call[r].at = "free"
              /\ call' = Arrive(r, kind, t, d)
              /\ \A q \in Requests \ {r} : call'[q] = call[q]
              /\ call'[r].at = kind /\ call'[r].kind = kind /\ call'[r].tok = t /\ call'[r].by = d
              /\ call'[r].new = NoToken
<1>1. PICK r \in Requests : call[r].at = "free" /\ call' = Arrive(r, kind, t, d)
  BY DEF Send, At
<1>2. \A q \in Requests \ {r} : call'[q] = call[q]
  BY <1>1 DEF Arrive, ServerTypeOK
<1>3. /\ call'[r].at = kind /\ call'[r].kind = kind /\ call'[r].tok = t /\ call'[r].by = d
      /\ call'[r].new = NoToken
  BY <1>1 DEF Arrive, ServerTypeOK, Free
<1>. QED  BY <1>1, <1>2, <1>3

\* The device sends a request with the token it stores, or without one.
LEMMA SendKeeps ==
    ASSUME Inv, AppInv, NEW d \in Devices, NEW kind \in Kinds, NEW t \in Tokens \cup {NoToken},
           Send(d, kind, t), UNCHANGED serverRest, AppTypeOK', excused \subseteq excused',
           \A e \in Devices : SameTokens(app[e], app'[e]) /\ app'[e].clear["flight"] = app[e].clear["flight"],
           \A e \in Devices \ {d} : app'[e].flight = app[e].flight,
           kind \in {"refresh", "logout"} => t = app[d].refresh /\ t # NoToken,
           kind \notin {"refresh", "logout"} => t = NoToken,
           kind = "logout" => t \in excused',
           kind = "refresh" => app[d].flight = "idle" /\ app'[d].flight = "wait",
           kind # "refresh" => app'[d].flight = app[d].flight
    PROVE  Inv' /\ AppInv'
<1>0. /\ AppTypeOK /\ KindsRight /\ Issued /\ LogoutsExcused /\ Exclusive /\ OneFlight
      /\ Unspent /\ OnceShown /\ TheftHasACause /\ ServerTypeOK
      /\ UNCHANGED <<token, deleted, root, stolen>>
  BY DEF AppInv, Inv, serverRest
<1>. \A e \in Devices : /\ app'[e].refresh = app[e].refresh /\ app'[e].got = app[e].got
                         /\ app'[e].mine = app[e].mine
  BY DEF SameTokens
<1>1. PICK r \in Requests :
        /\ call[r].at = "free"
        /\ call' = Arrive(r, kind, t, d)
        /\ \A q \in Requests \ {r} : call'[q] = call[q]
        /\ call'[r].at = kind /\ call'[r].kind = kind /\ call'[r].tok = t /\ call'[r].by = d
        /\ call'[r].new = NoToken
  BY <1>0, SendCall
<1>2. kind \in {"refresh", "logout"} => t \in Tokens /\ token[t] # "unissued"
  BY <1>0, Places DEF Issued
<1>3. Inv'
  <2>1. AnyArrival(r)
    BY <1>0, <1>1, <1>2 DEF AnyArrival, At, Devices
  <2>. QED  BY <2>1, ArrivalKeeps
<1>4. ASSUME NEW p \in Place
      PROVE  Held(p)' = Held(p) /\ Held(p) \in Tokens \cup {NoToken}
  <2>1. Held(p) \in Tokens \cup {NoToken}
    BY <1>0, HeldTyped
  <2>2. CASE \E e \in Devices : p \in {<<e, "refresh">>, <<e, "got">>, <<e, "mine">>}
    <3>1. PICK e \in Devices : p = <<e, "refresh">> \/ p = <<e, "got">> \/ p = <<e, "mine">>
      BY <2>2
    <3>2. app'[e].refresh = app[e].refresh /\ app'[e].got = app[e].got /\ app'[e].mine = app[e].mine
      BY <3>1
    <3>3. CASE p = <<e, "refresh">>
      BY <2>1, <3>2, <3>3, Places, PlacesNext
    <3>4. CASE p = <<e, "got">>
      BY <2>1, <3>2, <3>4, Places, PlacesNext
    <3>5. CASE p = <<e, "mine">>
      BY <2>1, <3>2, <3>5, Places, PlacesNext
    <3>. QED  BY <3>1, <3>3, <3>4, <3>5
  <2>3. CASE \E q \in Requests : p = <<q, "new">>
    <3>1. PICK q \in Requests : p = <<q, "new">>
      BY <2>3
    <3>2. call'[q].new = call[q].new
      BY <1>0, <1>1 DEF KindsRight
    <3>. QED  BY <2>1, <3>1, <3>2, Places, PlacesNext
  <2>. QED  BY <2>2, <2>3, PlaceCases
<1>5. KindsRight'
  BY <1>0, <1>1, <1>2 DEF KindsRight, Refreshing, Kinds
<1>6. Issued'
  <2>1. \A q \in Requests : call'[q].tok # NoToken => token'[call'[q].tok] # "unissued"
    BY <1>0, <1>1, <1>2 DEF Issued, Kinds
  <2>2. \A p \in Place : Held(p)' # NoToken => token'[Held(p)'] # "unissued"
    BY <1>0, <1>4 DEF Issued
  <2>. QED  BY <2>1, <2>2 DEF Issued
<1>7. LogoutsExcused'
  BY <1>0, <1>1 DEF LogoutsExcused
<1>8. Exclusive'
  BY <1>0, <1>4 DEF Exclusive
<1>9. \A e \in Devices : \A q \in Requests :
        q \in Pending(e, "refresh")' <=>
            \/ q # r /\ q \in Pending(e, "refresh")
            \/ q = r /\ e = d /\ kind = "refresh"
  BY <1>1 DEF Pending
<1>10. OneFlight'
  <2>1. SUFFICES ASSUME NEW e \in Devices, NEW q \in Requests, q \in Pending(e, "refresh")'
                 PROVE  /\ app'[e].flight = "wait"
                        /\ \A x \in Requests : x \in Pending(e, "refresh")' => x = q
    BY DEF OneFlight, Pending
  <2>2. CASE kind = "refresh" /\ e = d
    <3>1. \A x \in Requests : x \notin Pending(d, "refresh")
      BY <1>0, <2>2 DEF OneFlight
    <3>. QED  BY <1>9, <2>1, <2>2, <3>1
  <2>3. CASE ~(kind = "refresh" /\ e = d)
    BY <1>0, <1>9, <2>1, <2>3 DEF OneFlight
  <2>. QED  BY <2>2, <2>3
<1>11. ASSUME NEW x, ~Bad(x)' PROVE ~Bad(x)
  BY <1>0, <1>11, BadStays
<1>12. ASSUME NEW p \in Place, Rests(p)' PROVE Rests(p)
  <2>1. CASE \E e \in Devices : p = <<e, "refresh">>
    <3>1. PICK e \in Devices : p = <<e, "refresh">>
      BY <2>1
    <3>2. Kept(e)'
      BY <1>12, <3>1, PlacesNext
    <3>3. CASE kind = "refresh" /\ e = d
      BY <3>1, <3>3, Places DEF Kept
    <3>4. CASE ~(kind = "refresh" /\ e = d)
      <4>1. \A q \in Requests : q \in Pending(e, "refresh")' => q \in Pending(e, "refresh") /\ call'[q].tok = call[q].tok
        BY <1>1, <1>9, <3>4
      <4>2. Pending(e, "refresh")' \subseteq Requests
        BY DEF Pending
      <4>3. /\ app'[e].flight = app[e].flight /\ app'[e].refresh = app[e].refresh
            /\ app'[e].clear["flight"] = app[e].clear["flight"]
        BY <3>4
      <4>4. Kept(e)
        BY <3>2, <4>1, <4>2, <4>3 DEF Kept
      <4>. QED  BY <3>1, <4>4, Places
    <3>. QED  BY <3>3, <3>4
  <2>2. CASE \E e : p \in {<<e, "got">>, <<e, "mine">>, <<e, "new">>}
    BY <2>2, Places
  <2>. QED  BY <2>1, <2>2, PlaceCases
\* A token that is shown had rested until then.
<1>13. ASSUME kind = "refresh", ~Bad(t)
       PROVE  token[t] # "revoked" /\ \A q \in Requests : call[q].kind = "refresh" => call[q].tok # t
  <2>1. <<d, "refresh">> \in Place /\ Rests(<<d, "refresh">>) /\ Held(<<d, "refresh">>) = t
    BY <1>13, Places DEF Kept
  <2>. QED  BY <1>0, <1>13, <2>1 DEF Unspent, UnspentAt
<1>14. Unspent'
  <2>1. SUFFICES ASSUME NEW p \in Place, Rests(p)', Held(p)' # NoToken, ~Bad(Held(p))'
                 PROVE  /\ token'[Held(p)'] # "revoked"
                        /\ \A q \in Requests : call'[q].kind = "refresh" => call'[q].tok # Held(p)'
    BY DEF Unspent, UnspentAt
  <2>2. PICK h \in Tokens : h = Held(p) /\ h = Held(p)'
    BY <1>4, <2>1
  <2>3. ~Bad(h)'
    BY <2>1, <2>2 DEF Bad
  <2>4. ~Bad(h) /\ Rests(p) /\ h # NoToken
    BY <1>11, <1>12, <2>1, <2>2, <2>3
  <2>5. token[h] # "revoked" /\ \A q \in Requests : call[q].kind = "refresh" => call[q].tok # h
    BY <1>0, <2>2, <2>4 DEF Unspent, UnspentAt
  <2>6. ASSUME kind = "refresh", t = h PROVE FALSE
    <3>1. p = <<d, "refresh">>
      BY <1>0, <2>2, <2>4, <2>6, Places DEF Exclusive
    <3>2. Kept(d)'
      BY <2>1, <3>1, PlacesNext
    <3>3. PICK q \in Requests : q \in Pending(d, "refresh")' /\ call'[q].tok # app'[d].refresh
      BY <2>6, <3>2 DEF Kept, Pending
    <3>4. q = r
      BY <1>0, <1>9, <2>6, <3>3 DEF OneFlight
    <3>. QED  BY <1>1, <2>6, <3>3, <3>4
  <2>7. \A q \in Requests : call'[q].kind = "refresh" => call'[q].tok # h
    BY <1>1, <2>5, <2>6
  <2>. QED  BY <1>0, <2>2, <2>5, <2>7
<1>15. OnceShown'
  <2>1. SUFFICES ASSUME NEW q \in Requests PROVE ShownAt(q)'
    BY DEF OnceShown
  <2>2. CASE call'[q].kind # "refresh"
    BY <2>2 DEF ShownAt
  <2>3. CASE call'[q].kind = "refresh"
    <3>1. PICK x \in Tokens : x = call'[q].tok
      BY <1>5, <2>3 DEF KindsRight
    <3>2. CASE Bad(x)'
      BY <3>1, <3>2 DEF ShownAt, Bad
    <3>3. CASE ~Bad(x)'
      <4>1. ~Bad(x)
        BY <1>11, <3>3
      <4>2. CASE q = r
        BY <1>0, <1>1, <1>13, <2>3, <3>1, <4>1, <4>2 DEF ShownAt
      <4>3. CASE q # r
        <5>1. call'[q] = call[q]
          BY <1>1, <4>3
        <5>2. /\ call[q].at = "refresh" => token[x] # "revoked"
              /\ call[q].at # "refresh.theft"
              /\ \A y \in Requests : call[y].kind = "refresh" /\ call[y].tok = x => y = q
          BY <1>0, <2>3, <3>1, <4>1, <5>1 DEF OnceShown, ShownAt
        <5>3. ~(kind = "refresh" /\ t = x)
          BY <1>13, <2>3, <3>1, <4>1, <5>1
        <5>. QED  BY <1>0, <1>1, <3>1, <5>1, <5>2, <5>3 DEF ShownAt
      <4>. QED  BY <4>2, <4>3
    <3>. QED  BY <3>2, <3>3
  <2>. QED  BY <2>2, <2>3
<1>16. TheftHasACause'
  BY <1>0 DEF TheftHasACause
<1>. QED
  BY <1>3, <1>5, <1>6, <1>7, <1>8, <1>10, <1>14, <1>15, <1>16 DEF AppInv

LEMMA KeptBack ==
    ASSUME Releases, NEW d \in Devices, app'[d].flight = app[d].flight, app'[d].refresh = app[d].refresh,
           app'[d].clear["flight"] = app[d].clear["flight"], Kept(d)'
    PROVE  Kept(d)
<1>1. \A r \in Requests : r \in Pending(d, "refresh")' => r \in Pending(d, "refresh") /\ call'[r].tok = call[r].tok
  BY FreeCall, CallersAssumption DEF Pending, Devices, Releases, Released
<1>2. Pending(d, "refresh")' \subseteq Requests
  BY DEF Pending
<1>. QED  BY <1>1, <1>2 DEF Kept

NonePending(d) == \A r \in Requests : ~(call'[r].kind = "refresh" /\ call'[r].by = d)

LEMMA AnsweredNone ==
    ASSUME ServerTypeOK, OneFlight, NEW d \in Devices, NEW r, NEW reply, Answered(d, "refresh", r, reply)
    PROVE  NonePending(d)
<1>1. Releases /\ r \in Pending(d, "refresh") /\ call'[r] = Free
  BY AnsweredReleases DEF Pending
<1>2. \A q \in Requests : call'[q].kind = "refresh" /\ call'[q].by = d => q \in Pending(d, "refresh")
  BY <1>1, FreeCall, CallersAssumption DEF Pending, Devices, Releases, Released
<1>. QED  BY <1>1, <1>2, FreeCall DEF OneFlight, NonePending

LEMMA HangUpNone ==
    ASSUME ServerTypeOK, NEW d \in Devices, NEW S, HangUp(S), Pending(d, "refresh") \subseteq S
    PROVE  NonePending(d)
<1>1. Releases /\ \A q \in Requests : q \in S => call'[q].by = Nobody
  BY HangUpReleases
<1>2. \A q \in Requests : call'[q].kind = "refresh" /\ call'[q].by = d => q \in Pending(d, "refresh")
  BY <1>1, FreeCall, CallersAssumption DEF Pending, Devices, Releases, Released
<1>. QED  BY <1>1, <1>2, CallersAssumption DEF NonePending, Devices

\* A device's step that moves no token: some are forgotten, and a refresh may be.
LEMMA DropKeeps ==
    ASSUME Inv, AppInv, UNCHANGED serverRest, Releases, excused \subseteq excused', excused' \subseteq Tokens,
           overtaken' \subseteq Devices, NEW d \in Devices, NEW x \in App, app' = [app EXCEPT ![d] = x],
           x.refresh \in {app[d].refresh, NoToken}, x.got \in {app[d].got, NoToken},
           x.mine \in {app[d].mine, NoToken},
           app[d].flight = "wait" => x.flight = "wait" \/ NonePending(d),
           Kept(d)' /\ x.refresh # NoToken => Kept(d) \/ x.refresh \in excused'
    PROVE  Inv' /\ AppInv'
<1>0. AppTypeOK /\ ServerTypeOK
  BY DEF AppInv, Inv
<1>1. Inv'
  BY ReleasesKeep
<1>2. app'[d] = x /\ \A e \in Devices \ {d} : app'[e] = app[e]
  BY <1>0, OneDevice
<1>3. AppTypeOK'
  BY <1>0, OneDevice DEF AppTypeOK
<1>4. ASSUME NEW p \in Place PROVE Held(p)' \in {Held(p), NoToken}
  <2>1. ASSUME NEW e \in Devices
        PROVE  /\ app'[e].refresh \in {app[e].refresh, NoToken} /\ app'[e].got \in {app[e].got, NoToken}
               /\ app'[e].mine \in {app[e].mine, NoToken}
    BY <1>2
  <2>2. CASE \E e \in Devices : p \in {<<e, "refresh">>, <<e, "got">>, <<e, "mine">>}
    <3>1. PICK e \in Devices : p \in {<<e, "refresh">>, <<e, "got">>, <<e, "mine">>}
      BY <2>2
    <3>2. CASE p = <<e, "refresh">>
      BY <2>1, <3>2, Places, PlacesNext
    <3>3. CASE p = <<e, "got">>
      BY <2>1, <3>3, Places, PlacesNext
    <3>4. CASE p = <<e, "mine">>
      BY <2>1, <3>4, Places, PlacesNext
    <3>. QED  BY <3>1, <3>2, <3>3, <3>4
  <2>3. CASE \E q \in Requests : p = <<q, "new">>
    <3>1. PICK q \in Requests : p = <<q, "new">>
      BY <2>3
    <3>2. call'[q].new \in {call[q].new, NoToken}
      BY FreeCall DEF Releases, Released
    <3>. QED  BY <3>1, <3>2, Places, PlacesNext
  <2>. QED  BY <2>2, <2>3, PlaceCases
<1>5. ASSUME NEW p \in Place, Rests(p)', Held(p)' # NoToken PROVE Rests(p) \/ Held(p)' \in excused'
  <2>1. CASE \E e \in Devices : p = <<e, "refresh">>
    <3>1. PICK e \in Devices : p = <<e, "refresh">>
      BY <2>1
    <3>2. Kept(e)' /\ Held(p)' = app'[e].refresh
      BY <1>5, <3>1, PlacesNext
    <3>3. CASE e # d
      BY <1>2, <3>1, <3>2, <3>3, KeptBack, Places
    <3>4. CASE e = d
      BY <1>2, <1>5, <3>1, <3>2, <3>4, Places
    <3>. QED  BY <3>3, <3>4
  <2>2. CASE \E e : p \in {<<e, "got">>, <<e, "mine">>, <<e, "new">>}
    BY <2>2, Places
  <2>. QED  BY <2>1, <2>2, PlaceCases
<1>6. \A e \in Devices : app[e].flight = "wait" =>
        app'[e].flight = "wait" \/ \A r \in Requests : ~(call'[r].kind = "refresh" /\ call'[r].by = e)
  BY <1>2 DEF NonePending
<1>7. <<d, "got">> \in Place
  BY Places
<1>8. AppInv'
  BY <1>0, <1>3, <1>4, <1>5, <1>6, <1>7, MoveKeeps
<1>. QED  BY <1>1, <1>8

\* The device keeps its refresh going.
LEMMA LooksKeep ==
    ASSUME Inv, AppInv, NEW d \in Devices, NEW x \in App, app' = [app EXCEPT ![d] = x], Releases,
           UNCHANGED serverRest, excused' = excused, overtaken' \subseteq Devices,
           SameTokens(app[d], x), x.flight = app[d].flight, x.clear["flight"] = app[d].clear["flight"]
    PROVE  Inv' /\ AppInv'
<1>1. excused \subseteq excused' /\ excused' \subseteq Tokens /\ app'[d] = x
  BY OneDevice DEF AppInv, AppTypeOK
<1>2. x.refresh = app[d].refresh /\ x.got = app[d].got /\ x.mine = app[d].mine
  BY DEF SameTokens
<1>3. Kept(d)' => Kept(d)
  BY <1>1, <1>2, KeptBack
<1>. QED  BY <1>1, <1>2, <1>3, DropKeeps

\* RefreshStart sends the stored token, or starts to clear the store without one.
LEMMA RefreshStartKeeps ==
    ASSUME Inv, AppInv, NEW d \in Devices, RefreshStart(d)
    PROVE  Inv' /\ AppInv'
<1>0. ServerTypeOK /\ AppTypeOK /\ app[d] \in App
  BY DEF AppInv, Inv, AppTypeOK
<1>1. UNCHANGED serverRest /\ excused' = excused /\ app[d].flight = "idle" /\ overtaken' \subseteq Devices
  BY <1>0 DEF RefreshStart, AppTypeOK
<1>2. CASE app[d].refresh = NoToken
  <2>1. PICK x \in App : x = Dropping(app[d], "rejected")
    BY <1>0, DroppingFields
  <2>2. app' = [app EXCEPT ![d] = x] /\ call' = call
    BY <1>2, <2>1 DEF RefreshStart
  <2>3. SameTokens(app[d], x)
    BY <1>0, <2>1, DroppingFields
  <2>4. Releases
    BY <1>0, <2>2, SameReleases
  <2>5. excused \subseteq excused' /\ excused' \subseteq Tokens
    BY <1>0, <1>1 DEF AppTypeOK
  <2>. QED  BY <1>1, <1>2, <2>2, <2>3, <2>4, <2>5, DropKeeps DEF SameTokens
<1>3. CASE app[d].refresh # NoToken
  <2> DEFINE x == [app[d] EXCEPT !.flight = "wait"]
  <2>1. app' = [app EXCEPT ![d] = x] /\ Send(d, "refresh", app[d].refresh)
    BY <1>3 DEF RefreshStart
  <2>2. x \in App /\ SameTokens(app[d], x) /\ x.flight = "wait" /\ x.clear = app[d].clear
    BY <1>0 DEF App, SameTokens
  <2> HIDE DEF x
  <2>3. AppTypeOK' /\ app'[d] = x /\ \A e \in Devices \ {d} : app'[e] = app[e]
    BY <1>0, <1>1, <2>1, <2>2, OneDevice DEF AppTypeOK
  <2>4. app[d].refresh \in Tokens \cup {NoToken}
    BY <1>0, AppFields
  <2>5. "refresh" \in Kinds
    BY DEF Kinds
  <2>6. \A e \in Devices : SameTokens(app[e], app'[e]) /\ app'[e].clear["flight"] = app[e].clear["flight"]
    BY <2>2, <2>3 DEF SameTokens
  <2>. QED  BY <1>0, <1>1, <1>3, <2>1, <2>2, <2>3, <2>4, <2>5, <2>6, SendKeeps
<1>. QED  BY <1>2, <1>3

\* A refresh that failed starts to clear the store.
LEMMA RefreshFailedKeeps ==
    ASSUME Inv, AppInv, NEW d \in Devices, RefreshRejected(d) \/ RefreshLost(d)
    PROVE  Inv' /\ AppInv'
<1>0. ServerTypeOK /\ AppTypeOK /\ app[d] \in App /\ OneFlight
  BY DEF AppInv, Inv, AppTypeOK
<1>1. PICK why \in {"rejected", "lost"} : app' = [app EXCEPT ![d] = Dropping(app[d], why)]
  BY DEF RefreshRejected, RefreshLost
<1>2. PICK x \in App : x = Dropping(app[d], why)
  BY <1>0, DroppingFields
<1>3. /\ SameTokens(app[d], x) /\ x.flight = why /\ x.clear["flight"] = "refresh"
      /\ app' = [app EXCEPT ![d] = x]
  BY <1>0, <1>1, <1>2, DroppingFields
<1>4. UNCHANGED serverRest /\ excused' = excused /\ overtaken' \subseteq Devices
  BY <1>0 DEF RefreshRejected, RefreshLost, AppTypeOK
<1>5. Releases /\ NonePending(d)
  BY <1>0, AnsweredReleases, AnsweredNone, HangUpReleases, HangUpNone DEF RefreshRejected, RefreshLost
<1>6. excused \subseteq excused' /\ excused' \subseteq Tokens /\ app'[d] = x
  BY <1>0, <1>3, <1>4, OneDevice DEF AppTypeOK
<1>7. ~ Kept(d)'
  BY <1>1, <1>3, <1>6 DEF Kept
<1>. QED  BY <1>3, <1>4, <1>5, <1>6, <1>7, DropKeeps DEF SameTokens

\* It is over when the store is clear; what a login wrote since stays.
LEMMA RefreshClearedKeeps ==
    ASSUME Inv, AppInv, NEW d \in Devices, RefreshCleared(d)
    PROVE  Inv' /\ AppInv'
<1>0. ServerTypeOK /\ AppTypeOK /\ app[d] \in App
  BY DEF AppInv, Inv, AppTypeOK
<1>1. PICK y \in App : y = Landed(app[d], FALSE)
  BY <1>0, LandedFields
<1>2. y.got = NoToken /\ y.refresh = app[d].refresh /\ y.mine = app[d].mine
  BY <1>0, <1>1, LandedFields
<1>3. PICK x \in App : x \in {y, Expired(y)} /\ app' = [app EXCEPT ![d] = x]
  <2>1. app' = [app EXCEPT ![d] = y] \/ app' = [app EXCEPT ![d] = Expired(y)]
    BY <1>1 DEF RefreshCleared
  <2>2. Expired(y) \in App
    BY ExpiredFields
  <2>. QED  BY <2>1, <2>2
<1>4. x.got = NoToken /\ x.refresh = app[d].refresh /\ x.mine = app[d].mine
  BY <1>2, <1>3, ExpiredFields DEF SameTokens
<1>5. /\ call' = call /\ UNCHANGED serverRest /\ excused' = excused /\ overtaken' = overtaken
      /\ app[d].flight \in {"rejected", "lost"} /\ app[d].clear["flight"] = "done"
  BY DEF RefreshCleared, serverVars, serverRest
<1>6. Releases /\ Kept(d)
  BY <1>0, <1>5, SameReleases DEF Kept
<1>7. excused \subseteq excused' /\ excused' \subseteq Tokens /\ overtaken' \subseteq Devices
  BY <1>0, <1>5 DEF AppTypeOK
<1>. QED  BY <1>3, <1>4, <1>5, <1>6, <1>7, DropKeeps

\* A removal takes the stored token at most; a failed refresh that did that
\* leaves alone what is stored next.
LEMMA ClearKeeps ==
    ASSUME Inv, AppInv, NEW d \in Devices, NEW w \in Clearers, Clear(d, w)
    PROVE  Inv' /\ AppInv'
<1>0. ServerTypeOK /\ AppTypeOK /\ app[d] \in App
  BY DEF AppInv, Inv, AppTypeOK
<1>1. PICK key \in DOMAIN After : key = app[d].clear[w]
  BY DEF Clear
<1>2. PICK y \in App : y = Remove(app[d], key)
  BY <1>0, RemoveFields
<1>3. PICK next \in Progress : next = After[key]
  BY AfterFacts DEF Progress
<1>4. PICK x \in App : x = Cleared(y, w, next)
  BY ClearedFields
<1>5. app' = [app EXCEPT ![d] = x]
  BY <1>1, <1>2, <1>3, <1>4 DEF Clear, Cleared
<1>6. /\ y.clear = app[d].clear /\ y.flight = app[d].flight /\ y.got = app[d].got /\ y.mine = app[d].mine
      /\ y.refresh \in {app[d].refresh, NoToken} /\ (key = "refresh" => y.refresh = NoToken)
  BY <1>0, <1>2, RemoveFields
<1>7. /\ x.flight = y.flight /\ x.got = y.got /\ x.mine = y.mine /\ x.refresh = y.refresh
      /\ x.clear["flight"] = IF w = "flight" THEN next ELSE y.clear["flight"]
  BY <1>4, ClearedFields, ClearersFacts
<1>8. /\ call' = call /\ UNCHANGED serverRest /\ excused' = excused /\ overtaken' \subseteq Devices
  BY <1>0 DEF Clear, serverVars, serverRest, AppTypeOK
<1>9. Releases /\ excused \subseteq excused' /\ excused' \subseteq Tokens /\ app'[d] = x
  BY <1>0, <1>5, <1>8, SameReleases, OneDevice DEF AppTypeOK
<1>10. ASSUME Kept(d)', x.refresh # NoToken PROVE Kept(d)
  <2>1. x.refresh = app[d].refresh /\ key # "refresh"
    BY <1>6, <1>7, <1>10
  <2>2. CASE w = "flight" /\ x.clear["flight"] \in {"user", "done"}
    <3>1. key = "user"
      BY <1>3, <1>7, <2>1, <2>2, AfterFacts
    <3>. QED  BY <1>1, <1>6, <1>7, <1>9, <1>10, <2>1, <2>2, <3>1, <1>8 DEF Kept, Pending
  <2>3. CASE w # "flight" \/ x.clear["flight"] \notin {"user", "done"}
    BY <1>6, <1>7, <1>8, <1>9, <1>10, <2>1, <2>3 DEF Kept, Pending
  <2>. QED  BY <2>2, <2>3
<1>. QED  BY <1>5, <1>6, <1>7, <1>8, <1>9, <1>10, DropKeeps

\* The token that the server failed on is excused; another one had rested.
LEMMA RefreshHiccupKeeps ==
    ASSUME Inv, AppInv, NEW d \in Devices, RefreshHiccup(d)
    PROVE  Inv' /\ AppInv'
<1>0. ServerTypeOK /\ AppTypeOK /\ app[d] \in App /\ OneFlight
  BY DEF AppInv, Inv, AppTypeOK
<1> DEFINE x == Landed(app[d], FALSE)
<1>1. PICK r \in Requests : Answered(d, "refresh", r, "error") /\ Excuse(call[r].tok)
  BY DEF RefreshHiccup
<1>2. UNCHANGED serverRest /\ overtaken' = overtaken /\ app' = [app EXCEPT ![d] = x]
      /\ app[d].flight = "wait"
  BY DEF RefreshHiccup
<1>3. x \in App /\ x.refresh = app[d].refresh /\ x.got = NoToken /\ x.mine = app[d].mine
  BY <1>0, LandedFields
<1>4. Releases /\ NonePending(d) /\ r \in Pending(d, "refresh")
  BY <1>0, <1>1, AnsweredReleases, AnsweredNone DEF Pending
<1>5. call[r].tok \in Tokens \cup {NoToken}
  BY <1>0 DEF ServerTypeOK, Request
<1>6. excused' = excused \cup ({call[r].tok} \ {NoToken})
  BY <1>1 DEF Excuse
<1>7. excused \subseteq excused' /\ excused' \subseteq Tokens
  BY <1>0, <1>5, <1>6 DEF AppTypeOK
<1>8. x.refresh = NoToken \/ x.refresh \in excused' \/ Kept(d)
  BY <1>2, <1>3, <1>4, <1>6 DEF Kept
<1> HIDE DEF x
<1>. QED  BY <1>0, <1>2, <1>3, <1>4, <1>7, <1>8, DropKeeps DEF AppTypeOK

-----------------------------------------------------------------------------
(* Steps that start with the user                                          *)

\* A request without a token, or with one that is excused.
LEMMA AskKeeps ==
    ASSUME Inv, AppInv, NEW d \in Devices, NEW kind \in {"login", "logout", "deleteMe"},
           NEW t, Send(d, kind, t), UNCHANGED serverRest, overtaken' = overtaken,
           excused \subseteq excused', excused' \subseteq Tokens,
           app' = [app EXCEPT ![d].ui = kind],
           \/ kind = "logout" /\ t = app[d].refresh /\ t # NoToken /\ t \in excused'
           \/ kind # "logout" /\ t = NoToken
    PROVE  Inv' /\ AppInv'
<1>0. ServerTypeOK /\ AppTypeOK /\ app[d] \in App
  BY DEF AppInv, Inv, AppTypeOK
<1> DEFINE x == [app[d] EXCEPT !.ui = kind]
<1>1. app' = [app EXCEPT ![d] = x]
  OBVIOUS
<1>2. x \in App /\ SameTokens(app[d], x) /\ x.clear = app[d].clear /\ x.flight = app[d].flight
  BY <1>0 DEF App, SameTokens
<1> HIDE DEF x
<1>3. AppTypeOK' /\ app'[d] = x /\ \A e \in Devices \ {d} : app'[e] = app[e]
  BY <1>0, <1>1, <1>2, OneDevice DEF AppTypeOK
<1>4. t \in Tokens \cup {NoToken} /\ kind \in Kinds
  BY <1>0 DEF App, Kinds
<1>5. \A e \in Devices : /\ SameTokens(app[e], app'[e]) /\ app'[e].flight = app[e].flight
                         /\ app'[e].clear["flight"] = app[e].clear["flight"]
  BY <1>2, <1>3 DEF SameTokens
<1>. QED  BY <1>3, <1>4, <1>5, SendKeeps

LEMMA AsksKeep ==
    ASSUME Inv, AppInv, NEW d \in Devices, LoginStart(d) \/ LogoutStart(d) \/ DeleteStart(d)
    PROVE  Inv' /\ AppInv'
<1>0. ServerTypeOK /\ AppTypeOK /\ app[d] \in App
  BY DEF AppInv, Inv, AppTypeOK
<1>1. CASE LoginStart(d)
  BY <1>0, <1>1, AskKeeps DEF LoginStart, AppTypeOK
<1>2. CASE DeleteStart(d)
  BY <1>0, <1>2, AskKeeps DEF DeleteStart, AppTypeOK
<1>3. CASE LogoutStart(d) /\ app[d].refresh # NoToken
  <2>1. /\ Send(d, "logout", app[d].refresh) /\ app' = [app EXCEPT ![d].ui = "logout"]
        /\ excused' = excused \cup ({app[d].refresh} \ {NoToken})
        /\ UNCHANGED serverRest /\ overtaken' = overtaken
    BY <1>3 DEF LogoutStart, Excuse
  <2>2. app[d].refresh \in excused' /\ excused' \subseteq Tokens
    BY <1>0, <1>3, <2>1 DEF App, AppTypeOK
  <2>. QED  BY <1>3, <2>1, <2>2, AskKeeps
<1>4. CASE LogoutStart(d) /\ app[d].refresh = NoToken
  <2> DEFINE x == Leaving(app[d])
  <2>1. /\ app' = [app EXCEPT ![d] = x] /\ call' = call
        /\ UNCHANGED serverRest /\ excused' = excused /\ overtaken' = overtaken
    BY <1>4 DEF LogoutStart
  <2>2. x \in App /\ SameTokens(app[d], x) /\ x.flight = app[d].flight /\ x.clear["flight"] = app[d].clear["flight"]
    BY <1>0, LeavingFields
  <2>3. Releases /\ overtaken' \subseteq Devices
    BY <1>0, <2>1, SameReleases DEF AppTypeOK
  <2> HIDE DEF x
  <2>. QED  BY <2>1, <2>2, <2>3, LooksKeep
<1>. QED  BY <1>1, <1>2, <1>3, <1>4

LEMMA ReturnKeeps ==
    ASSUME Inv, AppInv, NEW d \in Devices, Return(d)
    PROVE  Inv' /\ AppInv'
<1>0. ServerTypeOK /\ AppTypeOK /\ app[d] \in App
  BY DEF AppInv, Inv, AppTypeOK
<1> DEFINE y == [app[d] EXCEPT !.ui = "idle"]
<1>1. PICK x : x \in {y, Leaving(app[d])} /\ app' = [app EXCEPT ![d] = x]
  BY DEF Return
<1>2. y \in App /\ SameTokens(app[d], y) /\ y.flight = app[d].flight /\ y.clear = app[d].clear
  BY <1>0 DEF App, SameTokens
<1> HIDE DEF y
<1>3. x \in App /\ SameTokens(app[d], x) /\ x.flight = app[d].flight /\ x.clear["flight"] = app[d].clear["flight"]
  BY <1>0, <1>1, <1>2, LeavingFields
<1>4. Releases
  BY <1>0, HangUpReleases, AnsweredReleases DEF Return
<1>5. UNCHANGED serverRest /\ excused' = excused /\ overtaken' \subseteq Devices
  BY <1>0 DEF Return, AppTypeOK
<1>. QED  BY <1>1, <1>3, <1>4, <1>5, LooksKeep

LEMMA SignOutKeeps ==
    ASSUME Inv, AppInv, NEW d \in Devices, SignOut(d)
    PROVE  Inv' /\ AppInv'
<1>0. ServerTypeOK /\ AppTypeOK /\ app[d] \in App
  BY DEF AppInv, Inv, AppTypeOK
<1>1. PICK w \in SignOuts : app' = [app EXCEPT ![d] = SignedOut(app[d], w)]
  BY DEF SignOut
<1>2. PICK x \in App : x = SignedOut(app[d], w)
  BY <1>0, SignedOutFields
<1>3. /\ app' = [app EXCEPT ![d] = x] /\ SameTokens(app[d], x) /\ x.flight = app[d].flight
      /\ x.clear["flight"] = app[d].clear["flight"]
  BY <1>0, <1>1, <1>2, SignedOutFields
<1>4. call' = call /\ UNCHANGED serverRest /\ excused' = excused /\ overtaken' \subseteq Devices
  BY <1>0 DEF SignOut, serverVars, serverRest, AppTypeOK
<1>5. Releases
  BY <1>0, <1>4, SameReleases
<1>. QED  BY <1>3, <1>4, <1>5, LooksKeep

\* The later steps of saveSession write the user and sign in.
LEMMA LoginEndsKeep ==
    ASSUME Inv, AppInv, NEW d \in Devices, LoginSave(d), app[d].ui # "saveRefresh"
    PROVE  Inv' /\ AppInv'
<1>0. ServerTypeOK /\ AppTypeOK /\ app[d] \in App
  BY DEF AppInv, Inv, AppTypeOK
<1>1. PICK x : /\ x \in {[app[d] EXCEPT !.user = TRUE, !.ui = "signIn"], [app[d] EXCEPT !.status = "in", !.ui = "idle"]}
               /\ app' = [app EXCEPT ![d] = x]
  BY <1>0 DEF LoginSave, AppTypeOK
<1>2. x \in App /\ SameTokens(app[d], x) /\ x.flight = app[d].flight /\ x.clear = app[d].clear
  <2>1. CASE x = [app[d] EXCEPT !.user = TRUE, !.ui = "signIn"]
    BY <1>0, <2>1 DEF App, SameTokens
  <2>2. CASE x = [app[d] EXCEPT !.status = "in", !.ui = "idle"]
    BY <1>0, <2>2 DEF App, SameTokens
  <2>. QED  BY <1>1, <2>1, <2>2
<1>3. call' = call /\ UNCHANGED serverRest /\ excused' = excused /\ overtaken' \subseteq Devices
  BY <1>0 DEF LoginSave, serverVars, serverRest, AppTypeOK
<1>4. Releases
  BY <1>0, <1>3, SameReleases
<1>. QED  BY <1>1, <1>2, <1>3, <1>4, LooksKeep

LEMMA ProfileKeeps ==
    ASSUME Inv, AppInv, NEW d \in Devices,
           ProfileStart(d) \/ ProfileDenied(d) \/ ProfileOk(d) \/ ProfileFail(d)
    PROVE  Inv' /\ AppInv'
<1>0. ServerTypeOK /\ AppTypeOK /\ app[d] \in App
  BY DEF AppInv, Inv, AppTypeOK
<1>1. PICK s \in {"idle", "asked", "waiting"}, u \in BOOLEAN :
        app' = [app EXCEPT ![d].profile = s, ![d].user = u]
  <2>1. CASE ProfileOk(d)
    BY <2>1 DEF ProfileOk
  <2>2. CASE ProfileStart(d) \/ ProfileDenied(d) \/ ProfileFail(d)
    <3>1. PICK s \in {"idle", "asked", "waiting"} : app' = [app EXCEPT ![d].profile = s]
      BY <2>2 DEF ProfileStart, ProfileDenied, ProfileFail
    <3>2. app[d].user \in BOOLEAN /\ app' = [app EXCEPT ![d].profile = s, ![d].user = app[d].user]
      BY <1>0, <3>1 DEF App, AppTypeOK
    <3>. QED  BY <3>2
  <2>. QED  BY <2>1, <2>2
<1> DEFINE x == [app[d] EXCEPT !.profile = s, !.user = u]
<1>2. x \in App /\ SameTokens(app[d], x) /\ x.clear = app[d].clear /\ x.flight = app[d].flight
  BY <1>0 DEF App, SameTokens
<1>3. app' = [app EXCEPT ![d] = x]
  BY <1>0, <1>1 DEF AppTypeOK
<1>4. call' = call /\ UNCHANGED serverRest /\ excused' = excused /\ overtaken' \subseteq Devices
  BY <1>0 DEF AppTypeOK, ProfileStart, ProfileDenied, ProfileOk, ProfileFail, serverVars, serverRest
<1>5. Releases
  BY <1>0, <1>4, SameReleases
<1> HIDE DEF x
<1>. QED  BY <1>2, <1>3, <1>4, <1>5, LooksKeep

\* The app is killed: a token that a refresh has shown is excused.
LEMMA KillKeeps ==
    ASSUME Inv, AppInv, NEW d \in Devices, Kill(d)
    PROVE  Inv' /\ AppInv'
<1>0. ServerTypeOK /\ AppTypeOK /\ app[d] \in App
  BY DEF AppInv, Inv, AppTypeOK
<1>1. PICK s \in {"in", "out"}, q \in {"asked", "idle"} :
        app' = [app EXCEPT ![d] = [Fresh EXCEPT !.access = app[d].access, !.refresh = app[d].refresh,
                                                !.user = app[d].user, !.status = s, !.profile = q]]
  BY DEF Kill
<1> DEFINE x == [Fresh EXCEPT !.access = app[d].access, !.refresh = app[d].refresh,
                              !.user = app[d].user, !.status = s, !.profile = q]
<1>2. x \in App /\ x.refresh = app[d].refresh /\ x.got = NoToken /\ x.mine = NoToken /\ x.flight = "idle"
  BY <1>0, AppFields, FreshFields DEF App, Fresh
<1>3. UNCHANGED serverRest /\ overtaken' = overtaken /\ HangUp({r \in Requests : call[r].by = d})
  BY DEF Kill
<1>4. Releases /\ NonePending(d)
  BY <1>0, <1>3, HangUpReleases, HangUpNone DEF Pending
<1>5. excused' = excused \cup ({IF app[d].flight = "idle" THEN NoToken ELSE app[d].refresh} \ {NoToken})
  BY DEF Kill, Excuse
<1>6. app[d].refresh \in Tokens \cup {NoToken}
  BY <1>0, AppFields
<1>7. /\ excused \subseteq excused' /\ excused' \subseteq Tokens /\ overtaken' \subseteq Devices
      /\ x.refresh = NoToken \/ x.refresh \in excused' \/ Kept(d)
  BY <1>0, <1>2, <1>3, <1>5, <1>6 DEF AppTypeOK, Kept
<1>8. app' = [app EXCEPT ![d] = x]
  BY <1>1
<1> HIDE DEF x
<1>. QED  BY <1>2, <1>3, <1>4, <1>7, <1>8, DropKeeps

-----------------------------------------------------------------------------
(* Steps that hand a token on                                              *)

LEMMA CarryKeeps ==
    ASSUME Inv, AppInv, UNCHANGED serverRest, Releases, excused' = excused, overtaken' \subseteq Devices,
           NEW d \in Devices, NEW x \in App, app' = [app EXCEPT ![d] = x],
           NEW a \in Place, Rests(a), NEW field \in {"refresh", "got", "mine"}, a # <<d, field>>,
           Held(a)' = NoToken, Held(<<d, field>>)' = Held(a),
           field # "refresh" => x.refresh = app[d].refresh,
           field # "got" => x.got \in {app[d].got, NoToken},
           field # "mine" => x.mine \in {app[d].mine, NoToken},
           field # "refresh" /\ Kept(d)' => Kept(d),
           app[d].flight = "wait" => x.flight = "wait" \/ NonePending(d)
    PROVE  Inv' /\ AppInv'
<1>0. AppTypeOK /\ ServerTypeOK
  BY DEF AppInv, Inv
<1>1. Inv'
  BY ReleasesKeep
<1>2. app'[d] = x /\ \A e \in Devices \ {d} : app'[e] = app[e]
  BY <1>0, OneDevice
<1>3. AppTypeOK' /\ excused \subseteq excused'
  BY <1>0, OneDevice DEF AppTypeOK
<1>4. PICK b \in Place : b = <<d, field>>
  BY Places
<1>5. ASSUME NEW p \in Place \ {b} PROVE Held(p)' \in {Held(p), NoToken}
  <2>1. ASSUME NEW e \in Devices, p = <<e, "refresh">> PROVE Held(p)' \in {Held(p), NoToken}
    <3>1. app'[e].refresh = app[e].refresh
      BY <1>2, <1>4, <1>5, <2>1
    <3>. QED  BY <2>1, <3>1, Places, PlacesNext
  <2>2. ASSUME NEW e \in Devices, p = <<e, "got">> PROVE Held(p)' \in {Held(p), NoToken}
    <3>1. app'[e].got \in {app[e].got, NoToken}
      BY <1>2, <1>4, <1>5, <2>2
    <3>. QED  BY <2>2, <3>1, Places, PlacesNext
  <2>3. ASSUME NEW e \in Devices, p = <<e, "mine">> PROVE Held(p)' \in {Held(p), NoToken}
    <3>1. app'[e].mine \in {app[e].mine, NoToken}
      BY <1>2, <1>4, <1>5, <2>3
    <3>. QED  BY <2>3, <3>1, Places, PlacesNext
  <2>4. ASSUME NEW q \in Requests, p = <<q, "new">> PROVE Held(p)' \in {Held(p), NoToken}
    <3>1. call'[q].new \in {call[q].new, NoToken}
      BY FreeCall DEF Releases, Released
    <3>. QED  BY <2>4, <3>1, Places, PlacesNext
  <2>. QED  BY <2>1, <2>2, <2>3, <2>4, PlaceCases
<1>6. ASSUME NEW p \in Place \ {b}, Rests(p)' PROVE Rests(p)
  <2>1. CASE \E e \in Devices : p = <<e, "refresh">>
    <3>1. PICK e \in Devices : p = <<e, "refresh">>
      BY <2>1
    <3>2. Kept(e)'
      BY <1>6, <3>1, PlacesNext
    <3>3. CASE e # d
      BY <1>2, <3>1, <3>2, <3>3, KeptBack, Places
    <3>4. CASE e = d
      BY <1>4, <1>6, <3>1, <3>2, <3>4, Places
    <3>. QED  BY <3>3, <3>4
  <2>2. CASE \E e : p \in {<<e, "got">>, <<e, "mine">>, <<e, "new">>}
    BY <2>2, Places
  <2>. QED  BY <2>1, <2>2, PlaceCases
<1>7. \A e \in Devices : app[e].flight = "wait" =>
        app'[e].flight = "wait" \/ \A r \in Requests : ~(call'[r].kind = "refresh" /\ call'[r].by = e)
  BY <1>2 DEF NonePending
<1>8. Held(b)' = Held(a) /\ a # b
  BY <1>4, PlacesNext
<1>9. AppInv'
  BY <1>0, <1>3, <1>5, <1>6, <1>7, <1>8, MoveKeeps
<1>. QED  BY <1>1, <1>9

LEMMA RefreshOkKeeps ==
    ASSUME Inv, AppInv, NEW d \in Devices, RefreshOk(d)
    PROVE  Inv' /\ AppInv'
<1>0. ServerTypeOK /\ AppTypeOK /\ app[d] \in App /\ OneFlight
  BY DEF AppInv, Inv, AppTypeOK
<1>1. PICK r \in Requests :
        /\ Answered(d, "refresh", r, "ok")
        /\ app' = [app EXCEPT ![d].flight = "write", ![d].access = TRUE, ![d].got = call[r].new]
  BY DEF RefreshOk
<1> DEFINE x == [app[d] EXCEPT !.flight = "write", !.access = TRUE, !.got = call[r].new]
<1>2. call[r].new \in Tokens \cup {NoToken}
  BY <1>0 DEF ServerTypeOK, Request
<1>3. x \in App /\ x.refresh = app[d].refresh /\ x.mine = app[d].mine /\ x.got = call[r].new /\ x.flight = "write"
  BY <1>0, <1>2 DEF App
<1>4. app' = [app EXCEPT ![d] = x]
  BY <1>0, <1>1 DEF AppTypeOK
<1>5. UNCHANGED serverRest /\ excused' = excused /\ overtaken' \subseteq Devices
  BY <1>0 DEF RefreshOk, AppTypeOK
<1>6. Releases /\ NonePending(d) /\ call'[r] = Free
  BY <1>0, <1>1, AnsweredReleases, AnsweredNone
<1> HIDE DEF x
<1>7. app'[d] = x
  BY <1>0, <1>3, <1>4, OneDevice
<1>8. /\ <<r, "new">> \in Place /\ Rests(<<r, "new">>) /\ <<r, "new">> # <<d, "got">>
      /\ Held(<<r, "new">>)' = NoToken
  BY <1>6, FreeCall, Places, PlacesNext
<1>9. Held(<<d, "got">>)' = Held(<<r, "new">>)
  BY <1>3, <1>7, Places, PlacesNext
<1>10. ~ Kept(d)'
  BY <1>3, <1>7 DEF Kept
<1>. QED  BY <1>3, <1>4, <1>5, <1>6, <1>8, <1>9, <1>10, CarryKeeps

LEMMA RefreshWriteKeeps ==
    ASSUME Inv, AppInv, NEW d \in Devices, RefreshWrite(d)
    PROVE  Inv' /\ AppInv'
<1>0. ServerTypeOK /\ AppTypeOK /\ app[d] \in App /\ OneFlight
  BY DEF AppInv, Inv, AppTypeOK
<1> DEFINE y == [app[d] EXCEPT !.refresh = app[d].got]
           x == Landed(y, TRUE)
<1>1. /\ app[d].flight = "write" /\ app' = [app EXCEPT ![d] = x]
      /\ UNCHANGED serverRest /\ call' = call /\ excused' = excused /\ overtaken' \subseteq Devices
  BY <1>0 DEF RefreshWrite, AppTypeOK
<1>2. y \in App /\ y.refresh = app[d].got /\ y.mine = app[d].mine
  BY <1>0 DEF App
<1> HIDE DEF y
<1>3. x \in App /\ x.refresh = app[d].got /\ x.mine = app[d].mine /\ x.got = NoToken /\ x.flight = "idle"
  BY <1>2, LandedFields
<1> HIDE DEF x
<1>4. Releases
  BY <1>0, <1>1, SameReleases
<1>5. app'[d] = x
  BY <1>0, <1>1, <1>3, OneDevice
<1>6. /\ <<d, "got">> \in Place /\ Rests(<<d, "got">>) /\ <<d, "got">> # <<d, "refresh">>
      /\ Held(<<d, "got">>)' = NoToken
  BY <1>3, <1>5, Places, PlacesNext
<1>7. Held(<<d, "refresh">>)' = Held(<<d, "got">>)
  BY <1>3, <1>5, Places, PlacesNext
<1>. QED  BY <1>1, <1>3, <1>4, <1>6, <1>7, CarryKeeps

\* A login's token is in the answer, then with the app, and then in the store.
LEMMA LoginOkKeeps ==
    ASSUME Inv, AppInv, NEW d \in Devices, LoginOk(d)
    PROVE  Inv' /\ AppInv'
<1>0. ServerTypeOK /\ AppTypeOK /\ app[d] \in App
  BY DEF AppInv, Inv, AppTypeOK
<1>1. PICK r \in Requests :
        /\ Answered(d, "login", r, "ok")
        /\ app' = [app EXCEPT ![d].access = TRUE, ![d].mine = call[r].new, ![d].ui = "saveRefresh"]
  BY DEF LoginOk
<1> DEFINE x == [app[d] EXCEPT !.access = TRUE, !.mine = call[r].new, !.ui = "saveRefresh"]
<1>2. call[r].new \in Tokens \cup {NoToken}
  BY <1>0 DEF ServerTypeOK, Request
<1>3. /\ x \in App /\ x.refresh = app[d].refresh /\ x.got = app[d].got /\ x.mine = call[r].new
      /\ x.flight = app[d].flight /\ x.clear = app[d].clear
  BY <1>0, <1>2 DEF App
<1>4. app' = [app EXCEPT ![d] = x]
  BY <1>0, <1>1 DEF AppTypeOK
<1>5. UNCHANGED serverRest /\ excused' = excused /\ overtaken' \subseteq Devices
  BY <1>0 DEF LoginOk, AppTypeOK
<1>6. Releases /\ call'[r] = Free
  BY <1>0, <1>1, AnsweredReleases
<1> HIDE DEF x
<1>7. app'[d] = x
  BY <1>0, <1>3, <1>4, OneDevice
<1>8. /\ <<r, "new">> \in Place /\ Rests(<<r, "new">>) /\ <<r, "new">> # <<d, "mine">>
      /\ Held(<<r, "new">>)' = NoToken
  BY <1>6, FreeCall, Places, PlacesNext
<1>9. Held(<<d, "mine">>)' = Held(<<r, "new">>)
  BY <1>3, <1>7, Places, PlacesNext
<1>10. Kept(d)' => Kept(d)
  BY <1>3, <1>6, <1>7, KeptBack
<1>. QED  BY <1>3, <1>4, <1>5, <1>6, <1>8, <1>9, <1>10, CarryKeeps

LEMMA LoginSaveKeeps ==
    ASSUME Inv, AppInv, NEW d \in Devices, LoginSave(d)
    PROVE  Inv' /\ AppInv'
<1>0. ServerTypeOK /\ AppTypeOK /\ app[d] \in App
  BY DEF AppInv, Inv, AppTypeOK
<1>1. CASE app[d].ui = "saveRefresh"
  <2> DEFINE x == [app[d] EXCEPT !.refresh = app[d].mine, !.mine = NoToken, !.ui = "saveUser"]
  <2>1. app' = [app EXCEPT ![d] = x]
    BY <1>0, <1>1 DEF LoginSave, AppTypeOK
  <2>2. /\ x \in App /\ x.refresh = app[d].mine /\ x.got = app[d].got /\ x.mine = NoToken
        /\ x.flight = app[d].flight
    BY <1>0 DEF App
  <2> HIDE DEF x
  <2>3. call' = call /\ UNCHANGED serverRest /\ excused' = excused /\ overtaken' \subseteq Devices
    BY <1>0 DEF LoginSave, serverVars, serverRest, AppTypeOK
  <2>4. Releases
    BY <1>0, <2>3, SameReleases
  <2>5. app'[d] = x
    BY <1>0, <2>1, <2>2, OneDevice
  <2>6. /\ <<d, "mine">> \in Place /\ Rests(<<d, "mine">>) /\ <<d, "mine">> # <<d, "refresh">>
        /\ Held(<<d, "mine">>)' = NoToken
    BY <2>2, <2>5, Places, PlacesNext
  <2>7. Held(<<d, "refresh">>)' = Held(<<d, "mine">>)
    BY <2>2, <2>5, Places, PlacesNext
  <2>. QED  BY <2>1, <2>2, <2>3, <2>4, <2>6, <2>7, CarryKeeps
<1>2. CASE app[d].ui # "saveRefresh"
  BY <1>2, LoginEndsKeep
<1>. QED  BY <1>1, <1>2

-----------------------------------------------------------------------------
(* The invariant holds                                                     *)

LEMMA DeviceKeeps ==
    ASSUME Inv, AppInv, NEW d \in Devices, Device(d)
    PROVE  Inv' /\ AppInv'
<1>1. CASE RefreshStart(d) \/ RefreshOk(d) \/ RefreshEnds(d)
  BY <1>1, RefreshStartKeeps, RefreshOkKeeps, RefreshWriteKeeps, RefreshFailedKeeps, RefreshHiccupKeeps,
     RefreshClearedKeeps DEF RefreshEnds
<1>2. CASE \E w \in Clearers : Clear(d, w)
  BY <1>2, ClearKeeps
<1>3. CASE \/ LoginStart(d) \/ LoginOk(d) \/ LoginSave(d) \/ LogoutStart(d) \/ DeleteStart(d)
           \/ Return(d) \/ SignOut(d) \/ ProfileStart(d) \/ ProfileDenied(d) \/ ProfileOk(d) \/ ProfileFail(d)
           \/ Kill(d)
  BY <1>3, AsksKeep, LoginOkKeeps, LoginSaveKeeps, ReturnKeeps, SignOutKeeps, ProfileKeeps, KillKeeps
<1>. QED  BY <1>1, <1>2, <1>3 DEF Device

LEMMA BothInit == Init => Inv /\ AppInv
<1> SUFFICES ASSUME Init PROVE Inv /\ AppInv
  OBVIOUS
<1>1. Inv
  BY InvInit DEF Init
<1>2. /\ call = [r \in Requests |-> Free] /\ app = [d \in Devices |-> Fresh]
      /\ excused = {} /\ overtaken = {} /\ stolen = {}
  BY DEF Init, ServerInit
<1>3. /\ Fresh \in App /\ Fresh.refresh = NoToken /\ Fresh.got = NoToken /\ Fresh.mine = NoToken
      /\ Fresh.flight = "idle"
  BY FreshFields DEF Fresh
<1>4. AppTypeOK /\ TheftHasACause /\ LogoutsExcused
  BY <1>2, <1>3, FreeCall DEF AppTypeOK, TheftHasACause, LogoutsExcused
<1>5. KindsRight /\ OneFlight
  BY <1>2, FreeCall DEF KindsRight, OneFlight, Pending, Refreshing
<1>6. OnceShown
  BY <1>2, FreeCall DEF OnceShown, ShownAt
<1>7. ASSUME NEW p \in Place PROVE Held(p) = NoToken
  BY <1>2, <1>3, FreeCall, PlaceCases
<1>8. Issued /\ Exclusive /\ Unspent
  BY <1>2, <1>7, FreeCall DEF Issued, Exclusive, Unspent, UnspentAt
<1>. QED  BY <1>1, <1>4, <1>5, <1>6, <1>8 DEF AppInv

LEMMA BothInductive == Inv /\ AppInv /\ [Next]_vars => Inv' /\ AppInv'
<1> SUFFICES ASSUME Inv, AppInv, [Next]_vars PROVE Inv' /\ AppInv'
  OBVIOUS
<1>1. CASE ServerNext /\ UNCHANGED <<app, excused, overtaken>>
  <2>1. Inv'
    BY <1>1, Inductive DEF Anything
  <2>2. ServerMoves
    BY <1>1, ServerStep DEF AppInv
  <2>3. ServerTypeOK'
    BY <2>1 DEF Inv
  <2>. QED  BY <1>1, <2>1, <2>2, <2>3, ServerKeeps
<1>2. CASE \E d \in Devices : Device(d)
  BY <1>2, DeviceKeeps
<1>3. CASE UNCHANGED vars
  <2>1. Inv'
    BY <1>3, Inductive DEF vars
  <2>2. /\ token' = token /\ deleted' = deleted /\ call' = call /\ root' = root /\ stolen' = stolen
        /\ app' = app /\ excused' = excused /\ overtaken' = overtaken
    BY <1>3 DEF vars, serverVars
  <2>3. AppInv'
    BY <2>2 DEF AppInv, AppTypeOK, KindsRight, Issued, LogoutsExcused, Exclusive, OneFlight, Pending,
      Unspent, UnspentAt, OnceShown, ShownAt, TheftHasACause, Held, Rests, Kept, Bad
  <2>. QED  BY <2>1, <2>3
<1>. QED  BY <1>1, <1>2, <1>3 DEF Next

LEMMA AlwaysBoth == Spec => [](Inv /\ AppInv)
  BY BothInit, BothInductive, PTL DEF Spec

\* What a device does to the server is what any caller may do.
LEMMA DeviceCalls ==
    ASSUME Inv, AppInv, NEW d \in Devices, Device(d)
    PROVE  [Anything]_serverVars
<1>0. ServerTypeOK /\ d \in Callers
  BY DEF Inv, Devices
<1>1. ASSUME NEW kind \in Kinds, Send(d, kind, NoToken), kind \notin {"refresh", "logout"},
             UNCHANGED serverRest
      PROVE  Anything
  <2>1. PICK r \in Requests : At(r, "free") /\ call' = Arrive(r, kind, NoToken, d)
    BY <1>1 DEF Send
  <2>2. AnyArrival(r)
    BY <1>0, <1>1, <2>1 DEF AnyArrival, serverRest
  <2>. QED  BY <2>2 DEF Anything
<1>2. ASSUME NEW kind \in {"refresh", "logout"}, app[d].refresh # NoToken,
             Send(d, kind, app[d].refresh), UNCHANGED serverRest
      PROVE  Anything
  <2>1. PICK r \in Requests : At(r, "free") /\ call' = Arrive(r, kind, app[d].refresh, d)
    BY <1>2 DEF Send
  <2>2. app[d].refresh \in Tokens /\ token[app[d].refresh] # "unissued"
    <3>1. app[d] \in App /\ Issued
      BY DEF AppInv, AppTypeOK
    <3>. QED  BY <1>2, <3>1, AppFields, Places DEF Issued
  <2>3. AnyArrival(r)
    BY <1>0, <1>2, <2>1, <2>2 DEF AnyArrival, serverRest, Kinds
  <2>. QED  BY <2>3 DEF Anything
<1>3. ASSUME NEW kind, NEW r, NEW reply, Answered(d, kind, r, reply), UNCHANGED serverRest
      PROVE  Anything
  <2>1. r \in Requests /\ Collect(r)
    BY <1>3 DEF Answered, Pending, Collect, serverRest
  <2>. QED  BY <2>1 DEF Anything
<1>4. ASSUME NEW S \in SUBSET Requests, HangUp(S), UNCHANGED serverRest
      PROVE  Anything
  BY <1>4 DEF Anything, serverRest
<1>5. CASE UNCHANGED serverVars
  BY <1>5
<1>6. CASE RefreshStart(d)
  BY <1>2, <1>6 DEF RefreshStart, serverRest, serverVars
<1>7. CASE LoginStart(d) \/ DeleteStart(d)
  BY <1>1, <1>7 DEF LoginStart, DeleteStart, Kinds
<1>8. CASE LogoutStart(d)
  BY <1>2, <1>8 DEF LogoutStart, serverRest, serverVars
<1>9. CASE RefreshOk(d) \/ RefreshRejected(d) \/ RefreshHiccup(d) \/ LoginOk(d)
  BY <1>3, <1>9 DEF RefreshOk, RefreshRejected, RefreshHiccup, LoginOk
<1>10. CASE RefreshLost(d)
  <2>1. Pending(d, "refresh") \in SUBSET Requests
    BY DEF Pending
  <2>. QED  BY <1>4, <1>10, <2>1 DEF RefreshLost
<1>11. CASE Return(d)
  <2>1. Pending(d, app[d].ui) \in SUBSET Requests /\ UNCHANGED serverRest
    BY <1>11 DEF Pending, Return
  <2>2. HangUp(Pending(d, app[d].ui)) \/ \E r, reply : Answered(d, app[d].ui, r, reply)
    BY <1>11 DEF Return
  <2>. QED  BY <1>3, <1>4, <2>1, <2>2
<1>12. CASE Kill(d)
  <2>1. {r \in Requests : call[r].by = d} \in SUBSET Requests /\ UNCHANGED serverRest
    BY <1>12 DEF Kill
  <2>2. HangUp({r \in Requests : call[r].by = d})
    BY <1>12 DEF Kill
  <2>. QED  BY <1>4, <2>1, <2>2
<1>13. CASE RefreshWrite(d)
  BY <1>5, <1>13 DEF RefreshWrite, serverRest, serverVars
<1>14. CASE \/ SignOut(d) \/ LoginSave(d) \/ RefreshCleared(d) \/ ProfileStart(d) \/ ProfileDenied(d)
            \/ ProfileOk(d) \/ ProfileFail(d)
  BY <1>5, <1>14 DEF SignOut, LoginSave, RefreshCleared, ProfileStart, ProfileDenied, ProfileOk, ProfileFail
<1>15. CASE \E w \in Clearers : Clear(d, w)
  BY <1>5, <1>15 DEF Clear
<1>. QED
  BY <1>6, <1>7, <1>8, <1>9, <1>10, <1>11, <1>12, <1>13, <1>14, <1>15 DEF Device, RefreshEnds

-----------------------------------------------------------------------------
(* Theorems                                                                *)

\* The app is one of the callers that the server is modelled with: all that is
\* proved of the server holds with the app at the other end.
THEOREM AppIsACaller == Spec => ServerSpec
<1>1. Init => ServerInit
  BY DEF Init
<1>2. Inv /\ AppInv /\ [Next]_vars => [Anything]_serverVars
  <2> SUFFICES ASSUME Inv, AppInv, [Next]_vars PROVE [Anything]_serverVars
    OBVIOUS
  <2>. QED  BY DeviceCalls DEF Next, Anything, vars
<1>. QED  BY <1>1, <1>2, AlwaysBoth, PTL DEF Spec, ServerSpec

\* The app's sessions do not split, its revoked tokens stay revoked, and a
\* deleted account starts no session.
THEOREM ServerKeepsItsWord ==
    Spec => []OneHeirPerSession /\ RevokedForGood /\ NoSessionAfterDeletion
  BY AppIsACaller, SessionsStayChains, RevocationIsFinal, DeletionIsFinal

\* What a device stores and does stays well formed.
THEOREM AppTypeCorrect == Spec => []AppTypeOK
<1>1. AppInv => AppTypeOK
  BY DEF AppInv
<1>. QED  BY <1>1, AlwaysBoth, PTL

\* However many devices refresh and however answers are lost, a session is only
\* revoked as stolen when the account was deleted, or a token that a device
\* stores was excused before.
THEOREM NoTheftWithoutCause == Spec => []TheftHasACause
<1>1. AppInv => TheftHasACause
  BY DEF AppInv
<1>. QED  BY <1>1, AlwaysBoth, PTL

\* A refresh token that a device stores, and is not refreshing, works.
THEOREM StoredTokenWorks == Spec => []StoredTokenIsGood
<1>1. AppInv => StoredTokenIsGood
  <2> SUFFICES ASSUME AppInv, NEW d \in Devices, app[d].refresh # NoToken, app[d].flight = "idle",
                      token[app[d].refresh] = "revoked"
               PROVE  Bad(app[d].refresh)
    BY DEF StoredTokenIsGood, Bad
  <2>1. UnspentAt(<<d, "refresh">>)
    BY Places DEF AppInv, Unspent
  <2>. QED  BY <2>1, Places DEF UnspentAt, Kept
<1>. QED  BY <1>1, AlwaysBoth, PTL

-----------------------------------------------------------------------------
(* Signed out for good                                                     *)

\* What is left in a store after the sign-out has no user, and none will be
\* added, and what is there before its end was written after the removal of the
\* access token: but for a login that is being saved, and where o excuses it.
OutOf(a, o) ==
    /\ a.status = "out" /\ a.access => o \/ Saving(a) \/ (~a.user /\ a.profile = "idle")
    /\ SigningOut(a) /\ a.access => o

OutAt(d) == OutOf(app[d], d \in overtaken)

LEMMA OutKept ==
    ASSUME AppTypeOK, NEW d \in Devices, NEW x, app' = [app EXCEPT ![d] = x],
           overtaken' \in {overtaken, overtaken \cup {d}, overtaken \ {d}},
           OutOf(x, d \in overtaken'), \A e \in Devices : OutAt(e)
    PROVE  \A e \in Devices : OutAt(e)'
<1>1. app'[d] = x /\ \A e \in Devices \ {d} : app'[e] = app[e]
  BY OneDevice
<1>2. OutAt(d)'
  BY <1>1 DEF OutAt, OutOf, Saving, SigningOut
<1>3. ASSUME NEW e \in Devices \ {d} PROVE OutAt(e)'
  <2>1. app'[e] = app[e] /\ (e \in overtaken => e \in overtaken') /\ OutOf(app[e], e \in overtaken)
    BY <1>1 DEF OutAt
  <2>2. OutOf(app'[e], e \in overtaken')
    BY <2>1 DEF OutOf
  <2>. QED  BY <2>2 DEF OutAt, OutOf, Saving, SigningOut
<1>. QED  BY <1>2, <1>3

\* Without an access token there is nothing to restore.
LEMMA OutEmpty ==
    ASSUME NEW x, x.access = FALSE, NEW o
    PROVE  OutOf(x, o)
  BY DEF OutOf

\* The step leaves what the user sees alone, or shows less of it.
LEMMA OutLess ==
    ASSUME AppTypeOK, NEW d \in Devices, NEW x, app' = [app EXCEPT ![d] = x], overtaken' = overtaken,
           x.status = app[d].status, x.access => app[d].access, x.user => app[d].user,
           x.profile # "idle" => app[d].profile # "idle",
           Saving(app[d]) => Saving(x), SigningOut(x) => SigningOut(app[d]),
           \A e \in Devices : OutAt(e)
    PROVE  \A e \in Devices : OutAt(e)'
<1>1. OutOf(app[d], d \in overtaken)
  BY DEF OutAt
<1>2. OutOf(x, d \in overtaken')
  BY <1>1 DEF OutOf
<1>. QED  BY <1>2, OutKept

LEMMA OutRefresh ==
    ASSUME AppTypeOK, NEW d \in Devices, RefreshStart(d) \/ RefreshOk(d) \/ RefreshEnds(d),
           \A e \in Devices : OutAt(e)
    PROVE  \A e \in Devices : OutAt(e)'
<1>0. app[d] \in App
  BY DEF AppTypeOK
\* A refresh that failed removes the access token.
<1>1. CASE \/ RefreshStart(d) /\ app[d].refresh = NoToken
           \/ RefreshRejected(d) \/ RefreshLost(d)
  <2>1. PICK why \in {"rejected", "lost"} :
          app' = [app EXCEPT ![d] = Dropping(app[d], why)] /\ overtaken' = overtaken \ {d}
    BY <1>1 DEF RefreshStart, RefreshRejected, RefreshLost
  <2>2. PICK x \in App : x = Dropping(app[d], why)
    BY <1>0, DroppingFields
  <2>3. x.access = FALSE
    BY <1>0, <2>2, DroppingFields
  <2>4. app' = [app EXCEPT ![d] = x]
    BY <2>1, <2>2
  <2>5. OutOf(x, d \in overtaken')
    BY <2>3, OutEmpty
  <2>. QED  BY <2>1, <2>4, <2>5, OutKept
<1>2. CASE RefreshStart(d) /\ app[d].refresh # NoToken
  <2>1. PICK x : x = [app[d] EXCEPT !.flight = "wait"]
    OBVIOUS
  <2>2. app' = [app EXCEPT ![d] = x] /\ overtaken' = overtaken
    BY <1>2, <2>1 DEF RefreshStart
  <2>3. SameView(app[d], x) /\ x.ui = app[d].ui /\ x.clear = app[d].clear
    BY <1>0, <2>1 DEF App, SameView
  <2>. QED  BY <2>2, <2>3, OutLess DEF SameView, Saving, SigningOut
<1>3. CASE RefreshHiccup(d) \/ RefreshWrite(d)
  <2>1. PICK y \in App :
          /\ SameView(app[d], y) /\ y.ui = app[d].ui /\ y.clear = app[d].clear
          /\ \E ok \in BOOLEAN : app' = [app EXCEPT ![d] = Landed(y, ok)]
    <3>1. CASE RefreshHiccup(d)
      BY <1>0, <3>1 DEF RefreshHiccup, SameView
    <3>2. CASE RefreshWrite(d)
      <4>1. PICK y : y = [app[d] EXCEPT !.refresh = app[d].got]
        OBVIOUS
      <4>2. y \in App /\ SameView(app[d], y) /\ y.ui = app[d].ui /\ y.clear = app[d].clear
        BY <1>0, <4>1 DEF App, SameView
      <4>3. app' = [app EXCEPT ![d] = Landed(y, TRUE)]
        BY <3>2, <4>1 DEF RefreshWrite
      <4>. QED  BY <4>2, <4>3
    <3>. QED  BY <1>3, <3>1, <3>2
  <2>2. PICK ok \in BOOLEAN : app' = [app EXCEPT ![d] = Landed(y, ok)]
    BY <2>1
  <2>3. PICK x \in App : x = Landed(y, ok)
    BY LandedFields
  <2>4. /\ x.access = app[d].access /\ x.user = app[d].user /\ x.status = app[d].status /\ x.ui = app[d].ui
        /\ x.profile # "idle" => app[d].profile # "idle"
        /\ \A w \in SignOuts : x.clear[w] = app[d].clear[w]
    BY <2>1, <2>3, LandedFields DEF SameView
  <2>5. (Saving(app[d]) => Saving(x)) /\ (SigningOut(x) => SigningOut(app[d]))
    BY <2>4 DEF Saving, SigningOut
  <2>6. app' = [app EXCEPT ![d] = x] /\ overtaken' = overtaken
    BY <1>3, <2>2, <2>3 DEF RefreshHiccup, RefreshWrite
  <2>. QED  BY <2>4, <2>5, <2>6, OutLess
<1>4. CASE RefreshCleared(d)
  <2>1. PICK y \in App : y = Landed(app[d], FALSE)
    BY <1>0, LandedFields
  <2>2. /\ y.access = app[d].access /\ y.user = app[d].user /\ y.status = app[d].status /\ y.ui = app[d].ui
        /\ y.profile # "idle" => app[d].profile # "idle"
        /\ \A w \in SignOuts : y.clear[w] = app[d].clear[w]
    BY <1>0, <2>1, LandedFields
  <2>3. PICK x : /\ x \in {y, Expired(y)} /\ app' = [app EXCEPT ![d] = x]
                 /\ overtaken' = overtaken
    BY <1>4, <2>1 DEF RefreshCleared
  <2>4. /\ SameView(y, x) /\ x.ui = y.ui /\ x.clear["ui"] = y.clear["ui"]
        /\ x.clear["late"] \in {y.clear["late"], "access"}
    BY <2>3, ExpiredFields DEF SameView
  <2>5. SigningOut(x) => SigningOut(app[d])
    BY <2>2, <2>4 DEF SigningOut, SignOuts
  <2>6. Saving(app[d]) => Saving(x)
    BY <2>2, <2>4 DEF Saving
  <2>. QED  BY <2>2, <2>3, <2>4, <2>5, <2>6, OutLess DEF SameView
\* A refresh that works during or after the sign-out overtakes it.
<1>5. CASE RefreshOk(d)
  <2>1. PICK t : app' = [app EXCEPT ![d].flight = "write", ![d].access = TRUE, ![d].got = t]
    BY <1>5 DEF RefreshOk
  <2>2. PICK x : x = [app[d] EXCEPT !.flight = "write", !.access = TRUE, !.got = t]
    OBVIOUS
  <2>3. app' = [app EXCEPT ![d] = x]
    BY <2>1, <2>2 DEF AppTypeOK
  <2>4. x.status = app[d].status /\ x.clear = app[d].clear
    BY <1>0, <2>2 DEF App
  <2>5. overtaken' = IF app[d].status = "out" \/ SigningOut(app[d]) THEN overtaken \cup {d} ELSE overtaken
    BY <1>5 DEF RefreshOk
  <2>6. SigningOut(x) => SigningOut(app[d])
    BY <2>4 DEF SigningOut
  <2>7. x.status = "out" \/ SigningOut(x) => d \in overtaken'
    BY <2>4, <2>5, <2>6
  <2>8. OutOf(x, d \in overtaken')
    BY <2>7 DEF OutOf
  <2>. QED  BY <2>3, <2>5, <2>8, OutKept
<1>. QED  BY <1>1, <1>2, <1>3, <1>4, <1>5 DEF RefreshEnds

\* The removals of clear: after that of the access token nothing is left to
\* restore, and the later ones only take more away.
LEMMA OutClear ==
    ASSUME AppTypeOK, NEW d \in Devices, NEW w \in Clearers, Clear(d, w), \A e \in Devices : OutAt(e)
    PROVE  \A e \in Devices : OutAt(e)'
<1>0. app[d] \in App
  BY DEF AppTypeOK
<1>1. PICK key \in DOMAIN After : key = app[d].clear[w]
  BY DEF Clear
<1>2. PICK y \in App : y = Remove(app[d], key)
  BY <1>0, RemoveFields
<1>3. PICK next \in Progress : next = After[key]
  BY AfterFacts DEF Progress
<1>4. PICK x \in App : x = Cleared(y, w, next)
  BY ClearedFields
<1>5. app' = [app EXCEPT ![d] = x]
  BY <1>1, <1>2, <1>3, <1>4 DEF Clear, Cleared
<1>6. overtaken' = IF key = "access" THEN overtaken \ {d} ELSE overtaken
  BY <1>1 DEF Clear
<1>7. /\ y.clear = app[d].clear /\ y.status = app[d].status /\ y.ui = app[d].ui /\ y.profile = app[d].profile
      /\ y.access => app[d].access /\ key # "access"
      /\ y.user => app[d].user
  BY <1>0, <1>2, RemoveFields
<1>8. /\ x.access = y.access /\ x.user = y.user /\ x.status = y.status /\ x.ui = y.ui /\ x.profile = y.profile
      /\ \A v \in Clearers : x.clear[v] = IF v = w THEN next ELSE y.clear[v]
  BY <1>4, ClearedFields
<1>9. CASE key = "access"
  <2>1. x.access = FALSE
    BY <1>4, <1>7, <1>8, <1>9, AppFields
  <2>2. OutOf(x, d \in overtaken')
    BY <2>1, OutEmpty
  <2>. QED  BY <1>5, <1>6, <1>9, <2>2, OutKept
<1>10. CASE key # "access"
  <2>1. SigningOut(x) => SigningOut(app[d])
    BY <1>1, <1>7, <1>8, <1>10, AfterFacts DEF SigningOut, Clearers
  <2>2. Saving(app[d]) => Saving(x)
    BY <1>7, <1>8 DEF Saving
  <2>. QED  BY <1>5, <1>6, <1>7, <1>8, <1>10, <2>1, <2>2, OutLess
<1>. QED  BY <1>9, <1>10

LEMMA OutLogin ==
    ASSUME AppTypeOK, NEW d \in Devices, LoginStart(d) \/ LoginOk(d) \/ LoginSave(d),
           \A e \in Devices : OutAt(e)
    PROVE  \A e \in Devices : OutAt(e)'
<1>0. app[d] \in App
  BY DEF AppTypeOK
<1>1. CASE LoginStart(d)
  <2>1. PICK x : x = [app[d] EXCEPT !.ui = "login"]
    OBVIOUS
  <2>2. app' = [app EXCEPT ![d] = x] /\ overtaken' = overtaken /\ app[d].ui = "idle"
    BY <1>1, <2>1 DEF LoginStart
  <2>3. SameView(app[d], x) /\ x.clear = app[d].clear
    BY <1>0, <2>1 DEF App, SameView
  <2>. QED  BY <2>2, <2>3, OutLess DEF SameView, Saving, SigningOut
<1>2. CASE LoginOk(d)
  <2>1. PICK t : app' = [app EXCEPT ![d].access = TRUE, ![d].mine = t, ![d].ui = "saveRefresh"]
    BY <1>2 DEF LoginOk
  <2>2. PICK x : x = [app[d] EXCEPT !.access = TRUE, !.mine = t, !.ui = "saveRefresh"]
    OBVIOUS
  <2>3. app' = [app EXCEPT ![d] = x]
    BY <2>1, <2>2 DEF AppTypeOK
  <2>4. x.clear = app[d].clear /\ Saving(x)
    BY <1>0, <2>2 DEF App, Saving
  <2>5. overtaken' = IF SigningOut(app[d]) THEN overtaken \cup {d} ELSE overtaken \ {d}
    BY <1>2 DEF LoginOk
  <2>6. SigningOut(x) => d \in overtaken'
    BY <2>4, <2>5 DEF SigningOut
  <2>7. OutOf(x, d \in overtaken')
    BY <2>4, <2>6 DEF OutOf
  <2>. QED  BY <2>3, <2>5, <2>7, OutKept
<1>3. CASE LoginSave(d)
  <2>1. PICK x : /\ app' = [app EXCEPT ![d] = x]
                 /\ \/ x = [app[d] EXCEPT !.refresh = app[d].mine, !.mine = NoToken, !.ui = "saveUser"]
                    \/ x = [app[d] EXCEPT !.user = TRUE, !.ui = "signIn"]
                    \/ x = [app[d] EXCEPT !.status = "in", !.ui = "idle"]
    BY <1>3 DEF LoginSave, AppTypeOK
  <2>2. x.access = app[d].access /\ x.clear = app[d].clear /\ (Saving(x) \/ x.status = "in")
    <3>1. CASE x = [app[d] EXCEPT !.refresh = app[d].mine, !.mine = NoToken, !.ui = "saveUser"]
      BY <1>0, <3>1 DEF App, Saving
    <3>2. CASE x = [app[d] EXCEPT !.user = TRUE, !.ui = "signIn"]
      BY <1>0, <3>2 DEF App, Saving
    <3>3. CASE x = [app[d] EXCEPT !.status = "in", !.ui = "idle"]
      BY <1>0, <3>3 DEF App
    <3>. QED  BY <2>1, <3>1, <3>2, <3>3
  <2>3. overtaken' = overtaken /\ (SigningOut(app[d]) /\ app[d].access => d \in overtaken)
    BY <1>3 DEF LoginSave, OutAt, OutOf
  <2>4. SigningOut(x) /\ x.access => d \in overtaken'
    BY <2>2, <2>3 DEF SigningOut
  <2>5. OutOf(x, d \in overtaken')
    BY <2>2, <2>4 DEF OutOf
  <2>. QED  BY <2>1, <2>3, <2>5, OutKept
<1>. QED  BY <1>1, <1>2, <1>3

LEMMA OutUser ==
    ASSUME AppTypeOK, NEW d \in Devices,
           LogoutStart(d) \/ DeleteStart(d) \/ Return(d) \/ SignOut(d) \/ Kill(d),
           \A e \in Devices : OutAt(e)
    PROVE  \A e \in Devices : OutAt(e)'
<1>0. app[d] \in App
  BY DEF AppTypeOK
<1>1. CASE LogoutStart(d) \/ DeleteStart(d) \/ Return(d)
  <2>1. /\ overtaken' = overtaken /\ ~Saving(app[d])
        /\ \/ \E u \in {"idle", "logout", "deleteMe"} : app' = [app EXCEPT ![d] = [app[d] EXCEPT !.ui = u]]
           \/ app' = [app EXCEPT ![d] = Leaving(app[d])]
    BY <1>1 DEF LogoutStart, DeleteStart, Return, Saving
  <2>2. CASE app' = [app EXCEPT ![d] = Leaving(app[d])]
    <3>1. PICK x \in App : x = Leaving(app[d])
      BY <1>0, LeavingFields
    <3>2. SameView(app[d], x) /\ x.clear["ui"] = "access" /\ x.clear["late"] = app[d].clear["late"]
      BY <1>0, <3>1, LeavingFields
    <3>3. SigningOut(x) => SigningOut(app[d])
      BY <3>2 DEF SigningOut, SignOuts
    <3>. QED  BY <2>1, <2>2, <3>1, <3>2, <3>3, OutLess DEF SameView
  <2>3. CASE \E u \in {"idle", "logout", "deleteMe"} : app' = [app EXCEPT ![d] = [app[d] EXCEPT !.ui = u]]
    <3>1. PICK u \in {"idle", "logout", "deleteMe"} : app' = [app EXCEPT ![d] = [app[d] EXCEPT !.ui = u]]
      BY <2>3
    <3>2. PICK x : x = [app[d] EXCEPT !.ui = u]
      OBVIOUS
    <3>3. SameView(app[d], x) /\ x.clear = app[d].clear
      BY <1>0, <3>2 DEF App, SameView
    <3>4. SigningOut(x) => SigningOut(app[d])
      BY <3>3 DEF SigningOut
    <3>5. app' = [app EXCEPT ![d] = x]
      BY <3>1, <3>2
    <3>. QED  BY <2>1, <3>3, <3>4, <3>5, OutLess DEF SameView
  <2>. QED  BY <2>1, <2>2, <2>3
\* The store was clear, or something overtook the sign-out.
<1>2. CASE SignOut(d)
  <2>1. PICK w \in SignOuts : app[d].clear[w] = "done" /\ app' = [app EXCEPT ![d] = SignedOut(app[d], w)]
    BY <1>2 DEF SignOut
  <2>2. PICK x \in App : x = SignedOut(app[d], w)
    BY <1>0, SignedOutFields
  <2>3. x.access = app[d].access
    BY <1>0, <2>2, SignedOutFields
  <2>4. overtaken' = overtaken /\ SigningOut(app[d])
    BY <1>2, <2>1 DEF SignOut, SigningOut
  <2>5. x.access => d \in overtaken'
    BY <2>3, <2>4 DEF OutAt, OutOf
  <2>6. OutOf(x, d \in overtaken')
    BY <2>5 DEF OutOf
  <2>. QED  BY <2>1, <2>2, <2>4, <2>6, OutKept
\* A restart signs in whoever is stored with a token.
<1>3. CASE Kill(d)
  <2> DEFINE signedIn == app[d].access /\ app[d].user
             x == [Fresh EXCEPT !.access = app[d].access, !.refresh = app[d].refresh, !.user = app[d].user,
                                !.status = IF signedIn THEN "in" ELSE "out",
                                !.profile = IF signedIn /\ "profile" \in Uses THEN "asked" ELSE "idle"]
  <2>1. app' = [app EXCEPT ![d] = x] /\ overtaken' = overtaken
    BY <1>3 DEF Kill
  <2>2. /\ x.access = app[d].access /\ x.user = app[d].user /\ x.clear = Fresh.clear
        /\ x.status = "out" => ~signedIn
        /\ ~signedIn => x.profile = "idle"
    BY DEF Fresh
  <2> HIDE DEF x
  <2>3. ~SigningOut(x)
    BY <2>2, FreshFields DEF SigningOut, Clearers
  <2>4. x.status = "out" /\ x.access => ~x.user /\ x.profile = "idle"
    BY <2>2
  <2>5. OutOf(x, d \in overtaken')
    BY <2>3, <2>4 DEF OutOf
  <2>. QED  BY <2>1, <2>5, OutKept
<1>. QED  BY <1>1, <1>2, <1>3

LEMMA OutProfile ==
    ASSUME AppTypeOK, NEW d \in Devices,
           ProfileStart(d) \/ ProfileDenied(d) \/ ProfileOk(d) \/ ProfileFail(d),
           \A e \in Devices : OutAt(e)
    PROVE  \A e \in Devices : OutAt(e)'
<1>0. app[d] \in App /\ overtaken' = overtaken
  BY DEF AppTypeOK, ProfileStart, ProfileDenied, ProfileOk, ProfileFail
<1>4. OutOf(app[d], d \in overtaken)
  BY DEF OutAt
<1>1. CASE ProfileStart(d)
  <2>1. PICK x : x = [app[d] EXCEPT !.profile = "asked"]
    OBVIOUS
  <2>2. app' = [app EXCEPT ![d] = x] /\ app[d].status = "in"
    BY <1>1, <2>1 DEF ProfileStart
  <2>3. x.status = "in" /\ x.clear = app[d].clear /\ x.access = app[d].access
    BY <1>0, <2>1, <2>2 DEF App
  <2>4. OutOf(x, d \in overtaken')
    BY <1>0, <1>4, <2>3 DEF OutOf, SigningOut
  <2>. QED  BY <1>0, <2>2, <2>4, OutKept
<1>2. CASE ProfileOk(d)
  <2>1. PICK x : x = [app[d] EXCEPT !.profile = "idle", !.user = TRUE]
    OBVIOUS
  <2>2. app' = [app EXCEPT ![d] = x]
    BY <1>2, <2>1 DEF ProfileOk, AppTypeOK
  <2>3. /\ x.status = app[d].status /\ x.access = app[d].access /\ app[d].profile # "idle"
        /\ x.clear = app[d].clear /\ x.ui = app[d].ui
    BY <1>0, <1>2, <2>1 DEF App, ProfileOk
  <2>4. OutOf(x, d \in overtaken')
    BY <1>0, <1>4, <2>3 DEF OutOf, SigningOut, Saving
  <2>. QED  BY <1>0, <2>2, <2>4, OutKept
<1>3. CASE ProfileDenied(d) \/ ProfileFail(d)
  <2>1. PICK s \in {"waiting", "idle"} : app' = [app EXCEPT ![d].profile = s]
    BY <1>3 DEF ProfileDenied, ProfileFail
  <2>2. PICK x : x = [app[d] EXCEPT !.profile = s]
    OBVIOUS
  <2>3. app' = [app EXCEPT ![d] = x] /\ app[d].profile # "idle"
    BY <1>0, <1>3, <2>1, <2>2 DEF ProfileDenied, ProfileFail
  <2>4. /\ x.status = app[d].status /\ x.access = app[d].access /\ x.user = app[d].user
        /\ x.clear = app[d].clear /\ x.ui = app[d].ui
    BY <1>0, <2>2 DEF App
  <2>. QED  BY <1>0, <2>3, <2>4, OutLess DEF Saving, SigningOut
<1>. QED  BY <1>1, <1>2, <1>3

\* Who signed out is not signed in again by a restart, unless a login is being
\* saved, or a refresh or a login wrote an access token after the sign-out had
\* removed that of the store, be it before or after the end of its clear.
THEOREM SignOutLasts == Spec => []SignedOutForGood
<1> DEFINE Out == \A e \in Devices : OutAt(e)
<1>1. Init => Out
  <2> SUFFICES ASSUME Init PROVE Out
    OBVIOUS
  <2>1. \A e \in Devices : app[e].access = FALSE
    BY DEF Init, Fresh
  <2>. QED  BY <2>1, OutEmpty DEF OutAt
<1>2. AppTypeOK /\ Out /\ [Next]_vars => Out'
  <2> SUFFICES ASSUME AppTypeOK, Out, [Next]_vars PROVE Out'
    OBVIOUS
  <2>1. CASE UNCHANGED <<app, overtaken>>
    BY <2>1 DEF OutAt, OutOf, Saving, SigningOut
  <2>2. CASE \E d \in Devices : Device(d)
    <3>1. PICK d \in Devices : Device(d)
      BY <2>2
    <3>2. CASE \E w \in Clearers : Clear(d, w)
      BY <3>2, OutClear
    <3>. QED  BY <3>1, <3>2, OutRefresh, OutLogin, OutUser, OutProfile DEF Device
  <2>. QED  BY <2>1, <2>2 DEF Next, vars
<1>3. Out => SignedOutForGood
  BY DEF OutAt, OutOf, SignedOutForGood
<1> HIDE DEF Out
<1>. QED  BY <1>1, <1>2, <1>3, AppTypeCorrect, PTL DEF Spec
=============================================================================
