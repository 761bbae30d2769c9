-------------------------- MODULE AuthServiceProofs --------------------------
(***************************************************************************)
(* AuthService for any number of tokens, requests and callers.             *)
(***************************************************************************)
EXTENDS AuthService, TLAPS

\* Where a request holds a token that somebody has presented.
Presenting == {"refresh", "refresh.theft", "refresh.rotate", "refresh.user", "refresh.issue", "logout"}

\* It has revoked its token and not yet issued the next.
Rotating(c) == c.at \in {"refresh.user", "refresh.issue"}

-----------------------------------------------------------------------------
(* The inductive invariant                                                 *)

\* A token's session began with a token that was issued.
RootsRight ==
    \A t \in Tokens :
        /\ token[t] = "unissued" => root[t] = NoToken
        /\ token[t] # "unissued" => root[t] \in Tokens /\ token[root[t]] # "unissued"

\* Nobody presents a token that was never issued.
PresentedIssued ==
    \A r \in Requests : call[r].at \in Presenting =>
        call[r].tok \in Tokens /\ token[call[r].tok] # "unissued"

\* OneHeirPerSession with expired tokens too: Refresh may still rotate a token
\* that expires after it was read.
OneUnrevoked ==
    \A t, s \in Tokens : Unrevoked(t) /\ Unrevoked(s) /\ root[t] = root[s] => t = s

OneRotation ==
    \A r, q \in Requests :
        Rotating(call[r]) /\ Rotating(call[q]) /\ root[call[r].tok] = root[call[q].tok] => r = q

NotBoth ==
    \A t \in Tokens, r \in Requests :
        Unrevoked(t) /\ Rotating(call[r]) => root[t] # root[call[r].tok]

OneHeir == OneUnrevoked /\ OneRotation /\ NotBoth

Inv == ServerTypeOK /\ RootsRight /\ PresentedIssued /\ OneHeir

LEMMA InvInit == ServerInit => Inv
<1> SUFFICES ASSUME ServerInit PROVE Inv
  OBVIOUS
<1>1. ServerTypeOK
  BY DEF ServerInit, ServerTypeOK, Free, Request, Locations, Replies
<1>2. RootsRight /\ PresentedIssued /\ OneHeir
  BY DEF ServerInit, RootsRight, PresentedIssued, Presenting, OneHeir, OneUnrevoked, OneRotation,
         NotBoth, Unrevoked, Rotating, Free
<1>. QED  BY <1>1, <1>2 DEF Inv

-----------------------------------------------------------------------------
(* What the helpers do                                                     *)

LEMMA ReplyFacts ==
    ASSUME call \in [Requests -> Request], NEW r \in Requests,
           NEW answer \in Replies, NEW t \in Tokens \cup {NoToken}
    PROVE  /\ Reply(r, answer, t) \in [Requests -> Request]
           /\ Reply(r, answer, t)[r].at \in {"free", "done"}
           /\ \A q \in Requests \ {r} : Reply(r, answer, t)[q] = call[q]
<1>1. Free \in Request /\ Free.at = "free"
  BY DEF Free, Request, Locations, Replies
<1>2. [call[r] EXCEPT !.at = "done", !.reply = answer, !.new = t] \in Request
  BY DEF Request, Locations
<1>3. [call[r] EXCEPT !.at = "done", !.reply = answer, !.new = t].at = "done"
  BY DEF Request
<1>. QED  BY <1>1, <1>2, <1>3 DEF Reply

LEMMA GotoFacts ==
    ASSUME call \in [Requests -> Request], NEW r \in Requests, NEW location \in Locations
    PROVE  /\ Goto(r, location) \in [Requests -> Request]
           /\ Goto(r, location)[r].at = location
           /\ Goto(r, location)[r].tok = call[r].tok
           /\ \A q \in Requests \ {r} : Goto(r, location)[q] = call[q]
<1>1. [call[r] EXCEPT !.at = location] \in Request
  BY DEF Request
<1>2. [call[r] EXCEPT !.at = location].at = location /\ [call[r] EXCEPT !.at = location].tok = call[r].tok
  BY DEF Request
<1>. QED  BY <1>1, <1>2 DEF Goto

LEMMA RevokeFacts ==
    ASSUME ServerTypeOK, NEW S
    PROVE  /\ Revoke(S) \in [Tokens -> {"unissued", "live", "expired", "revoked", "gone"}]
           /\ \A t \in Tokens :
                 /\ Revoke(S)[t] = "unissued" <=> token[t] = "unissued"
                 /\ Revoke(S)[t] \in {"live", "expired"} => Unrevoked(t)
                 /\ t \in S => Revoke(S)[t] \notin {"live", "expired"}
                 /\ token[t] \in {"revoked", "gone"} => Revoke(S)[t] = token[t]
  BY DEF Revoke, Unrevoked, ServerTypeOK

-----------------------------------------------------------------------------
(* Two kinds of steps keep the invariant.                                  *)

\* No token is issued, none becomes good again, and no request starts to rotate.
Quiet ==
    /\ root' = root
    /\ \A t \in Tokens : token'[t] = "unissued" <=> token[t] = "unissued"
    /\ \A t \in Tokens : token'[t] \in {"live", "expired"} => Unrevoked(t)
    /\ \A r \in Requests : Rotating(call'[r]) => Rotating(call[r]) /\ call'[r].tok = call[r].tok
    /\ \A r \in Requests : call'[r].at \in Presenting =>
           call'[r].tok \in Tokens /\ token[call'[r].tok] # "unissued"

LEMMA QuietKeeps ==
    ASSUME Inv, ServerTypeOK', Quiet
    PROVE  Inv'
<1>1. RootsRight'
  BY DEF Inv, Quiet, RootsRight
<1>2. PresentedIssued'
  BY DEF Quiet, PresentedIssued
<1>3. \A t \in Tokens : Unrevoked(t)' => Unrevoked(t)
  BY DEF Quiet, Unrevoked
<1>4. OneUnrevoked'
  BY <1>3 DEF Inv, OneHeir, OneUnrevoked, Quiet
<1>5. OneRotation'
  BY DEF Inv, OneHeir, OneRotation, Quiet
<1>6. NotBoth'
  BY <1>3 DEF Inv, OneHeir, NotBoth, Quiet
<1>. QED  BY <1>1, <1>2, <1>4, <1>5, <1>6 DEF Inv, OneHeir

\* A request replies: what it did to the tokens is no more than a revocation.
LEMMA ReplyKeeps ==
    ASSUME Inv, NEW r \in Requests, NEW answer \in Replies,
           call' = Reply(r, answer, NoToken), root' = root, deleted' \in BOOLEAN, stolen' \subseteq Tokens,
           token' = token \/ \E S : token' = Revoke(S)
    PROVE  Inv'
<1>1. ServerTypeOK
  BY DEF Inv
<1>2. /\ call' \in [Requests -> Request]
      /\ call'[r].at \in {"free", "done"}
      /\ \A q \in Requests \ {r} : call'[q] = call[q]
  BY <1>1, ReplyFacts DEF ServerTypeOK
<1>3. /\ token' \in [Tokens -> {"unissued", "live", "expired", "revoked", "gone"}]
      /\ \A t \in Tokens : token'[t] = "unissued" <=> token[t] = "unissued"
      /\ \A t \in Tokens : token'[t] \in {"live", "expired"} => Unrevoked(t)
  BY <1>1, RevokeFacts DEF ServerTypeOK, Unrevoked
<1>4. ServerTypeOK'
  BY <1>1, <1>2, <1>3 DEF ServerTypeOK
<1>5. Quiet
  BY <1>2, <1>3 DEF Quiet, Rotating, Presenting, Inv, PresentedIssued
<1>. QED  BY <1>4, <1>5, QuietKeeps

\* A request goes on with the token it has, and does not start to rotate.
LEMMA GotoKeeps ==
    ASSUME Inv, NEW r \in Requests, NEW location \in Locations,
           call' = Goto(r, location), UNCHANGED <<token, deleted, root, stolen>>,
           location \in Presenting => call[r].at \in Presenting,
           location \in {"refresh.user", "refresh.issue"} => Rotating(call[r])
    PROVE  Inv'
<1>1. ServerTypeOK
  BY DEF Inv
<1>2. /\ call' \in [Requests -> Request]
      /\ call'[r].at = location /\ call'[r].tok = call[r].tok
      /\ \A q \in Requests \ {r} : call'[q] = call[q]
  BY <1>1, GotoFacts DEF ServerTypeOK
<1>4. ServerTypeOK'
  BY <1>1, <1>2 DEF ServerTypeOK
<1>5. Quiet
  BY <1>2 DEF Quiet, Rotating, Unrevoked, Inv, PresentedIssued
<1>. QED  BY <1>4, <1>5, QuietKeeps

\* A token that nobody had becomes the one heir of its session.
LEMMA IssueKeeps ==
    ASSUME Inv, NEW r \in Requests, NEW first \in Tokens \cup {NoToken}, Issue(r, first),
           \/ first = NoToken /\ ~Rotating(call[r])
           \/ /\ first \in Tokens /\ Rotating(call[r]) /\ first = root[call[r].tok]
    PROVE  Inv'
<1>1. ServerTypeOK
  BY DEF Inv
<1>2. PICK t \in Tokens :
        /\ token[t] = "unissued"
        /\ token' = [token EXCEPT ![t] = "live"]
        /\ root' = [root EXCEPT ![t] = IF first = NoToken THEN t ELSE first]
        /\ call' = Reply(r, "ok", t)
        /\ UNCHANGED <<deleted, stolen>>
  BY DEF Issue
<1> DEFINE session == IF first = NoToken THEN t ELSE first
<1>3. /\ call' \in [Requests -> Request]
      /\ call'[r].at \in {"free", "done"}
      /\ \A q \in Requests \ {r} : call'[q] = call[q]
  <2>1. call \in [Requests -> Request] /\ "ok" \in Replies /\ call' = Reply(r, "ok", t)
    BY <1>1, <1>2 DEF ServerTypeOK, Replies
  <2>. QED  BY <2>1, ReplyFacts
<1>4. ServerTypeOK'
  BY <1>1, <1>2, <1>3 DEF ServerTypeOK
<1>5. /\ token'[t] = "live" /\ root'[t] = session /\ session \in Tokens
      /\ \A s \in Tokens \ {t} : token'[s] = token[s] /\ root'[s] = root[s]
  BY <1>1, <1>2, TokensAssumption DEF ServerTypeOK
<1>6. \A q \in Requests : call'[q].at \in Presenting =>
        q # r /\ call'[q] = call[q] /\ call[q].tok \in Tokens \ {t}
  BY <1>2, <1>3 DEF Presenting, Inv, PresentedIssued
<1>7. \A q \in Requests : Rotating(call'[q]) =>
        q # r /\ Rotating(call[q]) /\ call'[q].tok = call[q].tok /\ call[q].tok \in Tokens \ {t}
  BY <1>6 DEF Rotating, Presenting
\* The session is a new one, or r was its only heir.
<1>8. /\ \A s \in Tokens \ {t} : Unrevoked(s) => root[s] # session
      /\ \A q \in Requests \ {r} : Rotating(call[q]) => root[call[q].tok] # session
  <2>1. CASE first = NoToken
    <3>1. \A s \in Tokens : token[s] # "unissued" => root[s] # t
      BY <1>2 DEF Inv, RootsRight
    <3>2. \A s \in Tokens : Unrevoked(s) => token[s] # "unissued"
      BY DEF Unrevoked
    <3>3. \A q \in Requests : Rotating(call[q]) =>
            call[q].tok \in Tokens /\ token[call[q].tok] # "unissued"
      BY DEF Inv, PresentedIssued, Presenting, Rotating
    <3>. QED  BY <2>1, <3>1, <3>2, <3>3
  <2>2. CASE first # NoToken
    BY <2>2 DEF Inv, OneHeir, NotBoth, OneRotation
  <2>. QED  BY <2>1, <2>2
<1>9. RootsRight'
  <2>1. first # NoToken => token[first] # "unissued"
    BY DEF Inv, PresentedIssued, RootsRight, Rotating, Presenting
  <2>2. token'[session] # "unissued"
    BY <1>5, <2>1
  <2>3. ASSUME NEW s \in Tokens
        PROVE  /\ token'[s] = "unissued" => root'[s] = NoToken
               /\ token'[s] # "unissued" => root'[s] \in Tokens /\ token'[root'[s]] # "unissued"
    <3>1. CASE s = t
      BY <3>1, <1>5, <2>2
    <3>2. CASE s # t
      BY <3>2, <1>5 DEF Inv, RootsRight
    <3>. QED  BY <3>1, <3>2
  <2>. QED  BY <2>3 DEF RootsRight
<1>10. PresentedIssued'
  BY <1>5, <1>6 DEF PresentedIssued, Inv
<1>11. \A s \in Tokens \ {t} : Unrevoked(s)' => Unrevoked(s)
  BY <1>5 DEF Unrevoked
<1>12. OneUnrevoked'
  BY <1>5, <1>8, <1>11 DEF Inv, OneHeir, OneUnrevoked
<1>13. OneRotation'
  BY <1>5, <1>7 DEF Inv, OneHeir, OneRotation
<1>14. NotBoth'
  BY <1>5, <1>7, <1>8, <1>11 DEF Inv, OneHeir, NotBoth
<1>. QED  BY <1>4, <1>9, <1>10, <1>12, <1>13, <1>14 DEF Inv, OneHeir

\* The conditional UPDATE: the token it revokes was its session's one heir, and
\* the request takes its place.
LEMMA RotateKeeps ==
    ASSUME Inv, NEW r \in Requests, RefreshRotate(r)
    PROVE  Inv'
<1>1. ServerTypeOK
  BY DEF Inv
<1> DEFINE t == call[r].tok
<1>2. t \in Tokens /\ token[t] # "unissued" /\ ~Rotating(call[r])
  BY DEF RefreshRotate, At, Inv, PresentedIssued, Presenting, Rotating
<1>3. CASE ~Unrevoked(t)
  BY <1>1, <1>3, ReplyKeeps DEF RefreshRotate, Replies, ServerTypeOK
<1>4. CASE Unrevoked(t)
  <2>1. /\ token' = Revoke({t}) /\ call' = Goto(r, "refresh.user")
        /\ UNCHANGED <<deleted, root, stolen>>
    BY <1>4 DEF RefreshRotate
  <2>2. /\ call' \in [Requests -> Request]
        /\ call'[r].at = "refresh.user" /\ call'[r].tok = t
        /\ \A q \in Requests \ {r} : call'[q] = call[q]
    BY <1>1, <2>1, GotoFacts DEF ServerTypeOK, Locations
  <2>3. /\ token' \in [Tokens -> {"unissued", "live", "expired", "revoked", "gone"}]
        /\ \A s \in Tokens : /\ token'[s] = "unissued" <=> token[s] = "unissued"
                             /\ Unrevoked(s)' => Unrevoked(s) /\ s # t
    BY <1>1, <2>1, RevokeFacts DEF Unrevoked
  <2>4. ServerTypeOK'
    BY <1>1, <2>1, <2>2, <2>3 DEF ServerTypeOK
  <2>5. RootsRight'
    BY <2>1, <2>3 DEF Inv, RootsRight
  <2>6. PresentedIssued'
    BY <1>2, <2>2, <2>3 DEF Inv, PresentedIssued
  <2>7. OneUnrevoked'
    BY <2>1, <2>3 DEF Inv, OneHeir, OneUnrevoked
  <2>8. OneRotation'
    BY <1>2, <1>4, <2>1, <2>2 DEF Inv, OneHeir, OneRotation, NotBoth
  <2>9. \A s \in Tokens : Unrevoked(s)' => root[s] # root[t]
    BY <1>2, <1>4, <2>3 DEF Inv, OneHeir, OneUnrevoked
  <2>10. NotBoth'
    BY <2>1, <2>2, <2>3, <2>9 DEF Inv, OneHeir, NotBoth
  <2>. QED  BY <2>4, <2>5, <2>6, <2>7, <2>8, <2>10 DEF Inv, OneHeir
<1>. QED  BY <1>3, <1>4

-----------------------------------------------------------------------------
(* The steps                                                               *)

LEMMA HandlerKeeps ==
    ASSUME Inv, NEW r \in Requests, Handler(r)
    PROVE  Inv'
<1>1. ServerTypeOK
  BY DEF Inv
<1>2. CASE Login(r)
  <2>1. CASE deleted
    BY <1>1, <1>2, <2>1, ReplyKeeps DEF Login, Replies, ServerTypeOK
  <2>2. CASE ~deleted
    BY <1>2, <2>2, GotoKeeps DEF Login, Locations, Presenting
  <2>. QED  BY <2>1, <2>2
<1>3. CASE LoginIssue(r)
  BY <1>3, IssueKeeps DEF LoginIssue, At, Rotating
<1>4. CASE Refresh(r)
  <2>1. CASE call' = Reply(r, "unauthorized", NoToken)
    BY <1>1, <1>4, <2>1, ReplyKeeps DEF Refresh, Replies, ServerTypeOK
  <2>2. CASE call' = Goto(r, "refresh.theft")
    BY <1>4, <2>2, GotoKeeps DEF Refresh, At, Locations, Presenting
  <2>3. CASE call' = Goto(r, "refresh.rotate")
    BY <1>4, <2>3, GotoKeeps DEF Refresh, At, Locations, Presenting
  <2>. QED  BY <1>4, <2>1, <2>2, <2>3 DEF Refresh
<1>5. CASE RefreshTheft(r)
  <2>1. stolen' \subseteq Tokens
    BY <1>1, <1>5 DEF RefreshTheft, Inv, RootsRight, ServerTypeOK
  <2>. QED  BY <1>1, <1>5, <2>1, ReplyKeeps DEF RefreshTheft, Replies, ServerTypeOK
<1>6. CASE RefreshRotate(r)
  BY <1>6, RotateKeeps
<1>7. CASE RefreshUser(r)
  <2>1. CASE deleted
    BY <1>1, <1>7, <2>1, ReplyKeeps DEF RefreshUser, Replies, ServerTypeOK
  <2>2. CASE ~deleted
    BY <1>7, <2>2, GotoKeeps DEF RefreshUser, At, Locations, Presenting, Rotating
  <2>. QED  BY <2>1, <2>2
<1>8. CASE RefreshIssue(r)
  <2>1. /\ call[r].tok \in Tokens /\ token[call[r].tok] # "unissued"
        /\ Rotating(call[r])
    BY <1>8 DEF RefreshIssue, At, Inv, PresentedIssued, Presenting, Rotating
  <2>2. root[call[r].tok] \in Tokens
    BY <2>1 DEF Inv, RootsRight
  <2>. QED  BY <1>8, <2>1, <2>2, IssueKeeps DEF RefreshIssue
<1>9. CASE Logout(r)
  BY <1>1, <1>9, ReplyKeeps DEF Logout, Replies, ServerTypeOK
<1>10. CASE DeleteMe(r)
  <2>1. CASE deleted
    BY <1>1, <1>10, <2>1, ReplyKeeps DEF DeleteMe, Replies, ServerTypeOK
  <2>2. CASE ~deleted
    BY <1>1, <1>10, <2>2, ReplyKeeps DEF DeleteMe, Replies, ServerTypeOK
  <2>. QED  BY <2>1, <2>2
<1>. QED  BY <1>2, <1>3, <1>4, <1>5, <1>6, <1>7, <1>8, <1>9, <1>10 DEF Handler

LEMMA FailKeeps ==
    ASSUME Inv, NEW r \in Requests, Fail(r)
    PROVE  Inv'
  BY ReplyKeeps DEF Fail, Replies, ServerTypeOK, Inv

LEMMA TimeKeeps ==
    ASSUME Inv, NEW t \in Tokens, Expire(t) \/ Purge(t)
    PROVE  Inv'
<1>1. ServerTypeOK'
  BY DEF Inv, ServerTypeOK, Expire, Purge
<1>2. Quiet
  BY DEF Inv, ServerTypeOK, PresentedIssued, Expire, Purge, Quiet, Unrevoked
<1>. QED  BY <1>1, <1>2, QuietKeeps

LEMMA FreeFacts == Free \in Request /\ Free.at = "free"
  BY DEF Free, Request, Locations, Replies

LEMMA CrashKeeps ==
    ASSUME Inv, Crash
    PROVE  Inv'
<1>1. ServerTypeOK'
  BY FreeFacts DEF Inv, ServerTypeOK, Crash
<1>2. Quiet
  BY FreeFacts DEF Inv, PresentedIssued, Crash, Quiet, Unrevoked, Rotating, Presenting
<1>. QED  BY <1>1, <1>2, QuietKeeps

LEMMA CollectKeeps ==
    ASSUME Inv, NEW r \in Requests, Collect(r)
    PROVE  Inv'
<1>1. ServerTypeOK'
  BY FreeFacts DEF Inv, ServerTypeOK, Collect
<1>2. Quiet
  BY FreeFacts DEF Inv, ServerTypeOK, PresentedIssued, Collect, Quiet, Unrevoked, Rotating, Presenting
<1>. QED  BY <1>1, <1>2, QuietKeeps

\* Who hangs up takes an answer that is there, and leaves a handler to itself.
LEMMA HangUpFacts ==
    ASSUME ServerTypeOK, NEW S, HangUp(S)
    PROVE  /\ call' \in [Requests -> Request]
           /\ \A r \in Requests :
                 \/ call'[r] = Free
                 \/ call'[r].at = call[r].at /\ call'[r].tok = call[r].tok
<1>1. call' = [r \in Requests |-> IF r \notin S THEN call[r]
                                  ELSE IF At(r, "done") THEN Free ELSE [call[r] EXCEPT !.by = Nobody]]
  BY DEF HangUp
<1>2. \A r \in Requests :
        LET q == [call[r] EXCEPT !.by = Nobody]
        IN  call[r] \in Request /\ q \in Request /\ q.at = call[r].at /\ q.tok = call[r].tok
  BY DEF ServerTypeOK, Request
<1>. QED  BY <1>1, <1>2, FreeFacts

LEMMA HangUpKeeps ==
    ASSUME Inv, NEW S, HangUp(S), UNCHANGED <<token, deleted, root, stolen>>
    PROVE  Inv'
<1>1. /\ ServerTypeOK
      /\ call' \in [Requests -> Request]
      /\ \A r \in Requests :
            \/ call'[r].at = "free"
            \/ call'[r].at = call[r].at /\ call'[r].tok = call[r].tok
  BY HangUpFacts, FreeFacts DEF Inv
<1>2. ServerTypeOK'
  BY <1>1 DEF ServerTypeOK
<1>3. Quiet
  BY <1>1 DEF Inv, PresentedIssued, Quiet, Unrevoked, Rotating, Presenting
<1>. QED  BY <1>2, <1>3, QuietKeeps

LEMMA ArrivalKeeps ==
    ASSUME Inv, NEW r \in Requests, AnyArrival(r)
    PROVE  Inv'
<1>1. PICK kind \in Kinds, by \in Callers :
        \E t \in IF kind \in {"refresh", "logout"}
                    THEN {s \in Tokens : token[s] # "unissued"} ELSE {NoToken} :
            call' = Arrive(r, kind, t, by)
  BY DEF AnyArrival
<1>2. PICK t \in IF kind \in {"refresh", "logout"}
                    THEN {s \in Tokens : token[s] # "unissued"} ELSE {NoToken} :
        call' = Arrive(r, kind, t, by)
  BY <1>1
<1> DEFINE c == [Free EXCEPT !.at = kind, !.kind = kind, !.tok = t, !.by = by]
<1>3. t \in Tokens \cup {NoToken} /\ (kind \in {"refresh", "logout"} => t \in Tokens /\ token[t] # "unissued")
  BY <1>2
<1>4. c \in Request /\ c.at = kind /\ c.tok = t
  BY <1>3 DEF Free, Request, Locations, Replies, Kinds
<1>5. call' = [call EXCEPT ![r] = c]
  BY <1>2 DEF Arrive
<1>6. ServerTypeOK'
  BY <1>4, <1>5 DEF Inv, ServerTypeOK, AnyArrival
<1>7. Quiet
  BY <1>3, <1>4, <1>5
  DEF Inv, ServerTypeOK, PresentedIssued, AnyArrival, Quiet, Unrevoked, Rotating, Presenting, Kinds
<1>. QED  BY <1>6, <1>7, QuietKeeps

LEMMA Inductive == Inv /\ [Anything]_serverVars => Inv'
<1> SUFFICES ASSUME Inv, [Anything]_serverVars PROVE Inv'
  OBVIOUS
<1>1. CASE UNCHANGED serverVars
  BY <1>1 DEF serverVars, Inv, ServerTypeOK, RootsRight, PresentedIssued, OneHeir, OneUnrevoked,
              OneRotation, NotBoth, Unrevoked
<1>. QED
  BY <1>1, HandlerKeeps, FailKeeps, TimeKeeps, CrashKeeps, CollectKeeps, HangUpKeeps, ArrivalKeeps,
     AgingAssumption
  DEF Anything, ServerNext

LEMMA AlwaysInv == ServerSpec => []Inv
  BY InvInit, Inductive, PTL DEF ServerSpec

-----------------------------------------------------------------------------
(* Theorems                                                                *)

\* The account's tokens and the requests at work on them stay well formed.
THEOREM TypeCorrect == ServerSpec => []ServerTypeOK
<1>1. Inv => ServerTypeOK
  BY DEF Inv
<1>. QED  BY <1>1, AlwaysInv, PTL

\* However many requests present however many tokens at once, a session never
\* splits in two.
THEOREM SessionsStayChains == ServerSpec => []OneHeirPerSession
<1>1. Inv => OneHeirPerSession
  <2> SUFFICES ASSUME Inv, NEW first \in Tokens, NEW x \in Heirs(first), NEW y \in Heirs(first)
               PROVE  x = y
    BY DEF OneHeirPerSession
  <2> DEFINE live == {t \in Tokens : root[t] = first /\ token[t] = "live"}
             rotating == {r \in Requests : Rotating(call[r]) /\ root[call[r].tok] = first}
  <2>1. x \in live \cup rotating /\ y \in live \cup rotating
    BY DEF Heirs, Rotating
  <2>2. \A t \in live : Unrevoked(t)
    BY DEF Unrevoked
  <2>3. CASE x \in live /\ y \in live
    BY <2>2, <2>3 DEF Inv, OneHeir, OneUnrevoked
  <2>4. CASE x \in rotating /\ y \in rotating
    BY <2>4 DEF Inv, OneHeir, OneRotation
  <2>5. live = {} \/ rotating = {}
    BY <2>2 DEF Inv, OneHeir, NotBoth
  <2>. QED  BY <2>1, <2>3, <2>4, <2>5
<1>. QED  BY <1>1, AlwaysInv, PTL

\* No interleaving of rotations, failures, logouts and purges makes a token good
\* again that was revoked.
LEMMA StepRevokes ==
    Inv /\ [Anything]_serverVars =>
        [\A t \in Tokens : token[t] \in {"revoked", "gone"} => token'[t] \in {"revoked", "gone"}]_token
<1> SUFFICES ASSUME Inv, [Anything]_serverVars, token' # token,
                    NEW t \in Tokens, token[t] \in {"revoked", "gone"}
             PROVE  token'[t] \in {"revoked", "gone"}
  OBVIOUS
<1>1. ServerTypeOK
  BY DEF Inv
<1>2. \/ \E S : token' = Revoke(S)
      \/ \E s \in Tokens : token[s] = "unissued" /\ token' = [token EXCEPT ![s] = "live"]
      \/ \E s \in Tokens : Expire(s) \/ Purge(s)
  BY AgingAssumption
  DEF Anything, ServerNext, Handler, Login, LoginIssue, Refresh, RefreshTheft, RefreshRotate,
         RefreshUser, RefreshIssue, Logout, DeleteMe, Fail, Issue, AnyArrival, Collect, Crash, serverVars
<1>. QED  BY <1>1, <1>2, RevokeFacts DEF ServerTypeOK, Expire, Purge

THEOREM RevocationIsFinal == ServerSpec => RevokedForGood
<1>1. Inv /\ [Anything]_serverVars =>
        [\A t \in Tokens : token[t] \in {"revoked", "gone"} => token'[t] \in {"revoked", "gone"}]_token
  BY StepRevokes
<1>. QED  BY <1>1, AlwaysInv, PTL DEF ServerSpec, RevokedForGood

\* After the deletion no request gets as far as issuing a token.
LEMMA StepAfterDeletion ==
    Inv /\ [Anything]_serverVars =>
        [\A r \in Requests :
            deleted /\ call'[r].at \in {"login.issue", "refresh.issue"}
                => call[r].at \in {"login.issue", "refresh.issue"}]_call
<1> SUFFICES ASSUME Inv, [Anything]_serverVars, call' # call, deleted,
                    NEW r \in Requests, call'[r].at \in {"login.issue", "refresh.issue"}
             PROVE  call[r].at \in {"login.issue", "refresh.issue"}
  OBVIOUS
<1>1. call \in [Requests -> Request]
  BY DEF Inv, ServerTypeOK
<1>2. ASSUME NEW q \in Requests, NEW answer \in Replies, NEW t \in Tokens \cup {NoToken},
             call' = Reply(q, answer, t)
      PROVE  call'[r] = call[r]
  BY <1>1, <1>2, ReplyFacts
<1>3. ASSUME NEW q \in Requests,
             NEW location \in {"refresh.theft", "refresh.rotate", "refresh.user"},
             call' = Goto(q, location)
      PROVE  call'[r] = call[r]
  BY <1>1, <1>3, GotoFacts DEF Locations
<1>4. ASSUME NEW q \in Requests, Handler(q) PROVE call'[r] = call[r]
  <2>1. {"ok", "unauthorized", "error"} \subseteq Replies
    BY DEF Replies
  <2>2. CASE LoginIssue(q) \/ RefreshIssue(q)
    <3>1. \E t \in Tokens : call' = Reply(q, "ok", t)
      BY <2>2 DEF LoginIssue, RefreshIssue, Issue
    <3>. QED  BY <3>1, <2>1, <1>2
  <2>3. CASE Login(q) \/ RefreshUser(q)
    BY <2>1, <2>3, <1>2 DEF Login, RefreshUser
  <2>4. CASE Refresh(q)
    BY <2>1, <2>4, <1>2, <1>3 DEF Refresh
  <2>5. CASE RefreshTheft(q) \/ RefreshRotate(q) \/ Logout(q) \/ DeleteMe(q)
    BY <2>1, <2>5, <1>2, <1>3 DEF RefreshTheft, RefreshRotate, Logout, DeleteMe
  <2>. QED  BY <1>4, <2>2, <2>3, <2>4, <2>5 DEF Handler
<1>5. ASSUME NEW q \in Requests, Fail(q) PROVE call'[r] = call[r]
  BY <1>5, <1>2 DEF Fail, Replies
<1>6. ASSUME NEW q \in Requests, AnyArrival(q) PROVE call'[r] = call[r]
  <2>1. PICK kind \in Kinds, t \in Tokens \cup {NoToken}, by \in Callers : call' = Arrive(q, kind, t, by)
    BY <1>6 DEF AnyArrival
  <2>2. CASE q = r
    <3>1. call'[r].at = kind
      BY <1>1, <2>1, <2>2 DEF Arrive, Free
    <3>. QED  BY <3>1 DEF Kinds
  <2>. QED  BY <1>1, <2>1, <2>2 DEF Arrive
<1>7. ASSUME Crash PROVE call'[r] = call[r]
  BY <1>7, FreeFacts DEF Crash
<1>8. ASSUME NEW q \in Requests, Collect(q) PROVE call'[r] = call[r]
  BY <1>1, <1>8, FreeFacts DEF Collect
<1>9. ASSUME NEW t \in Tokens, Expire(t) \/ Purge(t) PROVE FALSE
  BY <1>9 DEF Expire, Purge
<1>10. ASSUME NEW S, HangUp(S) PROVE call'[r].at = call[r].at
  <2>1. call'[r] = Free \/ call'[r].at = call[r].at
    BY <1>10, HangUpFacts DEF Inv
  <2>. QED  BY <2>1, FreeFacts
<1>. QED
  BY <1>4, <1>5, <1>6, <1>7, <1>8, <1>9, <1>10, AgingAssumption DEF Anything, ServerNext, serverVars

THEOREM DeletionIsFinal == ServerSpec => NoSessionAfterDeletion
<1>1. Inv /\ [Anything]_serverVars =>
        [\A r \in Requests :
            deleted /\ call'[r].at \in {"login.issue", "refresh.issue"}
                => call[r].at \in {"login.issue", "refresh.issue"}]_call
  BY StepAfterDeletion
<1>. QED  BY <1>1, AlwaysInv, PTL DEF ServerSpec, NoSessionAfterDeletion
=============================================================================
