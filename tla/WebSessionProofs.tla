--------------------------- MODULE WebSessionProofs ---------------------------
(***************************************************************************)
(* The tabs as clients of AuthServer: whatever they do, lose and abandon,  *)
(* the server they talk to is the one of AuthServer, so that what is       *)
(* proved there holds of the whole system.  Then what a tab can rely on    *)
(* while no answer is lost: the stored token can be used or is about to be *)
(* replaced, a tab has at most one refresh under way, and a refresh is     *)
(* refused only if the session is over; the invariant ties each request at *)
(* the server to the tab or call that waits for it.                        *)
(***************************************************************************)
EXTENDS WebSession, AuthServerProofs, FiniteSetTheorems

-----------------------------------------------------------------------------
(* The strengthening: a call that is being served knows its request, and   *)
(* a sign-in its account.                                                  *)

TabState ==
  [status : {"closed", "bootstrapping", "authed", "anonymous"},
   access : {"none", "valid", "stale"}, refresh : Request \cup {NoRequest}]

CallState ==
  [at : {"idle", "sent", "serving", "waiting"},
   kind : {"none", "api", "login", "register", "logout"},
   account : Account \cup {NoAccount}, token : Token \cup {NoToken},
   bearer : {"none", "valid", "stale"}, retry : BOOLEAN,
   request : Request \cup {NoRequest}]

Attended(c) ==
  /\ c.at = "serving" => c.request \in Request
  /\ SignsIn(c.kind) => c.account \in Account

ClientInv ==
  /\ storage \in Token \cup {NoToken}
  /\ tab \in [Tab -> TabState]
  /\ call \in [Calls -> CallState]
  /\ losses \in 0 .. MaxLosses
  /\ \A k \in Calls : Attended(call[k])

SessionInv == AuthInv /\ ClientInv

LEMMA SessionStart == SessionInit => SessionInv
BY AuthInit, SessionAssumption
   DEF SessionInit, SessionInv, ClientInv, TabState, CallState, Attended, SignsIn, Closed, NoCall

LEMMA LossCounted ==
  ASSUME losses \in 0 .. MaxLosses, Lose
  PROVE  losses' \in 0 .. MaxLosses
BY SessionAssumption DEF Lose

\* The values a call, a tab takes.
LEMMA FreshCall == NoCall \in CallState /\ Attended(NoCall)
BY DEF NoCall, CallState, Attended, SignsIn

LEMMA TabValues ==
  ASSUME NEW w \in TabState
  PROVE  /\ Closed \in TabState
         /\ Cleared(w) \in TabState /\ Established(w) \in TabState
         /\ \A r \in Request \cup {NoRequest} : [w EXCEPT !.refresh = r] \in TabState
BY DEF TabState, Closed, Cleared, Established

-----------------------------------------------------------------------------
(* Each step of the tabs on the server is a step of AuthServer.            *)

LEMMA ArriveIs ==
  ASSUME NEW r \in Request
  PROVE  /\ \A t \in Token, op \in {"refresh", "logout"} : Present(r, op, t) => Next
         /\ \A a \in Account : Login(r, a) \/ Register(r, a) => Next
BY DEF Next, Arrive

\* What a 401 starts on the server, and what it leaves in the tab.
LEMMA UnauthorizedIs ==
  ASSUME ClientInv, NEW k \in Calls, Unauthorized(k)
  PROVE  /\ [Next]_authVars
         /\ storage' \in Token \cup {NoToken}
         /\ tab' \in [Tab -> TabState]
         /\ call' \in [Calls -> CallState]
         /\ \A j \in Calls : Attended(call'[j])
<1> DEFINE b == k[1]
<1>0. /\ b \in Tab /\ tab[b] \in TabState /\ call[k] \in CallState
      /\ tab \in [Tab -> TabState] /\ call \in [Calls -> CallState]
      /\ \A j \in Calls : Attended(call[j])
  BY SessionAssumption DEF ClientInv
<1>1. CASE MayRefresh(k)
  <2> DEFINE c == [call[k] EXCEPT !.at = "waiting", !.request = NoRequest]
  <2>1. c \in CallState /\ Attended(c)
    BY <1>0 DEF CallState, Attended
  <2>2. call' = [call EXCEPT ![k] = c] /\ storage' = storage
    BY <1>0, <1>1 DEF Unauthorized
  <2>3. call' \in [Calls -> CallState] /\ \A j \in Calls : Attended(call'[j])
    BY <1>0, <2>1, <2>2
  <2>4. CASE ~RefreshIdle(b)
    BY <1>0, <1>1, <2>2, <2>3, <2>4 DEF Unauthorized, ClientInv, authVars
  <2>5. CASE RefreshIdle(b)
    <3>1. PICK r \in Request :
            Present(r, "refresh", storage) /\ tab' = [tab EXCEPT ![b].refresh = r]
      BY <1>1, <2>5 DEF Unauthorized
    <3>2. storage \in Token
      BY <1>1 DEF MayRefresh, ClientInv
    <3>3. tab' \in [Tab -> TabState]
      BY <1>0, <3>1, TabValues
    <3> QED
      BY <2>2, <2>3, <3>1, <3>2, <3>3, ArriveIs
  <2> QED
    BY <2>4, <2>5
<1>2. CASE ~MayRefresh(k)
  <2>1. /\ call' = [call EXCEPT ![k] = NoCall] /\ UNCHANGED authVars
        /\ storage' \in {storage, NoToken}
        /\ tab' \in {tab, [tab EXCEPT ![b] = Cleared(tab[b])]}
    BY <1>2 DEF Unauthorized, Throw, EndCall, SignOut
  <2> QED
    BY <1>0, <2>1, FreshCall, TabValues DEF ClientInv
<1> QED
  BY <1>1, <1>2

-----------------------------------------------------------------------------
(* Steps that stay in the browser.                                         *)

Local ==
  /\ UNCHANGED authVars
  /\ storage' \in Token \cup {NoToken}
  /\ tab' \in [Tab -> TabState]
  /\ call' \in [Calls -> CallState]
  /\ \A k \in Calls : Attended(call'[k])

LEMMA ThrowIs ==
  ASSUME ClientInv, NEW k \in Calls, Throw(k), UNCHANGED authVars
  PROVE  Local
<1>1. k[1] \in Tab /\ tab[k[1]] \in TabState
  BY SessionAssumption DEF ClientInv
<1>2. /\ call' = [call EXCEPT ![k] = NoCall]
      /\ storage' \in {storage, NoToken}
      /\ tab' \in {tab, [tab EXCEPT ![k[1]] = Cleared(tab[k[1]])]}
  BY DEF Throw, EndCall, SignOut
<1> QED
  BY <1>1, <1>2, FreshCall, TabValues DEF ClientInv, Local

LEMMA RejectedIs ==
  ASSUME ClientInv, NEW b \in Tab, NEW u \in BOOLEAN, RefreshRejected(b, u)
  PROVE  Local
<1>1. tab[b] \in TabState
  BY DEF ClientInv
<1>2. [Cleared(tab[b]) EXCEPT !.refresh = NoRequest] \in TabState
  BY <1>1, TabValues
<1>3. tab' \in [Tab -> TabState]
  BY <1>2 DEF RefreshRejected, ClientInv
<1>4. storage' \in Token \cup {NoToken}
  BY DEF RefreshRejected, ClientInv
<1>5. call' \in [Calls -> CallState] /\ \A k \in Calls : Attended(call'[k])
  BY FreshCall DEF RefreshRejected, ClientInv
<1> QED
  BY <1>3, <1>4, <1>5 DEF RefreshRejected, Local

LEMMA RefreshOkIs ==
  ASSUME TypeOK, ClientInv, NEW b \in Tab, RefreshOk(b)
  PROVE  Local
<1> DEFINE r == tab[b].refresh
           again(c) == [c EXCEPT !.at = "sent", !.retry = TRUE, !.bearer = "valid"]
<1>1. tab[b] \in TabState /\ r \in Request
  BY DEF ClientInv, TabState, RefreshOk
<1>2. storage' \in Token \cup {NoToken}
  BY <1>1 DEF RefreshOk, TypeOK, RequestState
<1>3. [Established(tab[b]) EXCEPT !.refresh = NoRequest] \in TabState
  BY <1>1, TabValues
<1>4. tab' \in [Tab -> TabState]
  BY <1>3 DEF RefreshOk, ClientInv
<1>5. \A c \in CallState : again(c) \in CallState /\ (Attended(c) => Attended(again(c)))
  BY DEF CallState, Attended
<1>6. call' = [k \in Calls |-> IF k \in Waiting(b) THEN again(call[k]) ELSE call[k]]
  BY DEF RefreshOk
<1>7. call' \in [Calls -> CallState] /\ \A k \in Calls : Attended(call'[k])
  BY <1>5, <1>6 DEF ClientInv
<1> QED
  BY <1>2, <1>4, <1>7 DEF RefreshOk, Local

LEMMA SignedInIs ==
  ASSUME TypeOK, ClientInv, NEW k \in Calls, SignedIn(k)
  PROVE  Local
<1>1. k[1] \in Tab /\ tab[k[1]] \in TabState
  BY SessionAssumption DEF ClientInv
<1>2. call[k].request \in Request
  BY DEF SignedIn, ClientInv, Attended
<1>3. storage' \in Token \cup {NoToken}
  BY <1>2 DEF SignedIn, TypeOK, RequestState
<1>4. tab' \in [Tab -> TabState]
  BY <1>1, TabValues DEF SignedIn, ClientInv
<1> QED
  BY <1>3, <1>4, FreshCall DEF SignedIn, EndCall, ClientInv, Local

LEMMA SendIs ==
  ASSUME ClientInv, NEW k \in Calls, NEW kind \in {"api", "login", "register", "logout"},
         Send(k, kind)
  PROVE  Local
<1>1. k[1] \in Tab /\ tab[k[1]] \in TabState
  BY SessionAssumption DEF ClientInv
<1>2. PICK a \in Account :
        call' = [call EXCEPT ![k] =
          [NoCall EXCEPT !.at = "sent", !.kind = kind, !.bearer = tab[k[1]].access,
                         !.account = IF SignsIn(kind) THEN a ELSE NoAccount,
                         !.token = IF kind = "logout" THEN storage ELSE NoToken]]
  BY DEF Send
<1> DEFINE c == [NoCall EXCEPT !.at = "sent", !.kind = kind, !.bearer = tab[k[1]].access,
                         !.account = IF SignsIn(kind) THEN a ELSE NoAccount,
                         !.token = IF kind = "logout" THEN storage ELSE NoToken]
<1>3. c \in CallState /\ Attended(c)
  BY <1>1 DEF NoCall, CallState, TabState, Attended, SignsIn, ClientInv
<1>4. call' \in [Calls -> CallState] /\ \A j \in Calls : Attended(call'[j])
  BY <1>2, <1>3 DEF ClientInv
<1> QED
  BY <1>4 DEF Send, Local, ClientInv, authVars

LEMMA CloseTabIs ==
  ASSUME ClientInv, NEW b \in Tab, CloseTab(b)
  PROVE  Local
BY FreshCall, TabValues DEF CloseTab, ClientInv, Local

LEMMA AccessExpiresIs ==
  ASSUME ClientInv, NEW b \in Tab, AccessExpires(b)
  PROVE  Local
<1>1. /\ \A w \in TabState : [w EXCEPT !.access = "stale"] \in TabState
      /\ \A c \in CallState : /\ [c EXCEPT !.bearer = "stale"] \in CallState
                              /\ Attended(c) => Attended([c EXCEPT !.bearer = "stale"])
  BY DEF TabState, CallState, Attended
<1>2. tab' = [tab EXCEPT ![b] = [tab[b] EXCEPT !.access = "stale"]]
  BY DEF AccessExpires
<1>3. tab' \in [Tab -> TabState]
  BY <1>1, <1>2 DEF ClientInv
<1>4. call' \in [Calls -> CallState] /\ \A k \in Calls : Attended(call'[k])
  BY <1>1 DEF AccessExpires, ClientInv
<1> QED
  BY <1>3, <1>4 DEF AccessExpires, Local, ClientInv, authVars

-----------------------------------------------------------------------------
(* Steps of the server under the tabs.                                     *)

LEMMA StatementIs ==
  ASSUME NEW r \in Request
  PROVE  /\ Statement(r) => Next
         /\ Fail(r) => Next
         /\ Finish(r) => Next
         /\ \A t \in Token : Expire(t) => Next
BY DEF Next

LEMMA AdmittedIs ==
  ASSUME ClientInv, NEW k \in Calls, NEW r \in Request, Admitted(k, r)
  PROVE  [Next]_authVars /\ ClientInv'
<1>1. call[k] \in CallState /\ Attended(call[k])
  BY DEF ClientInv
<1>2. [Next]_authVars
  <2>1. CASE call[k].kind = "login" /\ Login(r, call[k].account)
    BY <1>1, <2>1, ArriveIs DEF Attended, SignsIn
  <2>2. CASE call[k].kind = "register" /\ Register(r, call[k].account)
    BY <1>1, <2>2, ArriveIs DEF Attended, SignsIn
  <2>3. CASE call[k].token # NoToken /\ Present(r, "logout", call[k].token)
    BY <1>1, <2>3, ArriveIs DEF CallState
  <2> QED
    BY <2>1, <2>2, <2>3 DEF Admitted
<1> DEFINE c == [call[k] EXCEPT !.at = "serving", !.request = r]
<1>3. c \in CallState /\ Attended(c)
  BY <1>1 DEF CallState, Attended
<1>4. call' = [call EXCEPT ![k] = c] /\ UNCHANGED <<storage, tab, losses>>
  BY DEF Admitted
<1>5. call' \in [Calls -> CallState] /\ \A j \in Calls : Attended(call'[j])
  BY <1>3, <1>4 DEF ClientInv
<1> QED
  BY <1>2, <1>4, <1>5 DEF ClientInv

LEMMA OpenTabIs ==
  ASSUME ClientInv, NEW b \in Tab, OpenTab(b)
  PROVE  [Next]_authVars /\ ClientInv'
<1>1. tab[b] \in TabState
  BY DEF ClientInv
<1>2. [Next]_authVars /\ tab' \in [Tab -> TabState]
  <2>1. CASE storage = NoToken /\ UNCHANGED authVars
             /\ tab' = [tab EXCEPT ![b].status = "anonymous"]
    BY <1>1, <2>1 DEF ClientInv, TabState
  <2>2. ASSUME NEW r \in Request, storage # NoToken, Present(r, "refresh", storage),
               tab' = [tab EXCEPT ![b].status = "bootstrapping", ![b].refresh = r]
        PROVE  [Next]_authVars /\ tab' \in [Tab -> TabState]
    <3>1. [tab[b] EXCEPT !.status = "bootstrapping", !.refresh = r] \in TabState
      BY <1>1 DEF TabState
    <3>2. tab' \in [Tab -> TabState]
      BY <2>2, <3>1 DEF ClientInv
    <3> QED
      BY <2>2, <3>2, ArriveIs DEF ClientInv
  <2> QED
    BY <2>1, <2>2 DEF OpenTab
<1> QED
  BY <1>2 DEF OpenTab, ClientInv

-----------------------------------------------------------------------------
LEMMA CallStepIs ==
  ASSUME TypeOK, ClientInv, NEW k \in Calls, CallStep(k)
  PROVE  [Next]_authVars /\ ClientInv'
<1>1. ASSUME Local, losses' = losses
      PROVE  [Next]_authVars /\ ClientInv'
  BY <1>1 DEF Local, ClientInv
<1>2. ASSUME Unauthorized(k), losses' = losses
      PROVE  [Next]_authVars /\ ClientInv'
  BY <1>2, UnauthorizedIs DEF ClientInv
<1>3. CASE ApiAnswered(k)
  <2>1. Local
    BY <1>3, FreshCall DEF ApiAnswered, EndCall, ClientInv, Local
  <2> QED
    BY <1>1, <1>3, <2>1 DEF ApiAnswered
<1>4. CASE Rejected(k) \/ LoginRefused(k)
  BY <1>2, <1>4 DEF Rejected, LoginRefused
<1>5. CASE NothingToRevoke(k) \/ CallEnds(k)
  BY <1>1, <1>5, ThrowIs DEF NothingToRevoke, CallEnds
<1>6. CASE SignedIn(k)
  BY <1>1, <1>6, SignedInIs DEF SignedIn
<1> QED
  BY <1>3, <1>4, <1>5, <1>6, AdmittedIs DEF CallStep

LEMMA SessionStep ==
  SessionInv /\ [SessionNext]_sessionVars => [Next]_authVars /\ ClientInv'
<1> SUFFICES ASSUME SessionInv, [SessionNext]_sessionVars
             PROVE  [Next]_authVars /\ ClientInv'
  OBVIOUS
<1>0. TypeOK /\ ClientInv
  BY DEF SessionInv, AuthInv
<1>1. ASSUME Local, losses' = losses \/ Lose
      PROVE  [Next]_authVars /\ ClientInv'
  BY <1>0, <1>1, LossCounted DEF Local, ClientInv
<1>2. ASSUME Next \/ UNCHANGED authVars, UNCHANGED clientVars, losses' = losses \/ Lose
      PROVE  [Next]_authVars /\ ClientInv'
  BY <1>0, <1>2, LossCounted DEF clientVars, ClientInv
<1>3. ASSUME NEW b \in Tab,
             \/ OpenTab(b) \/ CloseTab(b) \/ AccessExpires(b) \/ RefreshOk(b)
             \/ RefreshEnds(b) \/ LoseRefresh(b)
      PROVE  [Next]_authVars /\ ClientInv'
  <2>1. CASE OpenTab(b)
    BY <1>0, <2>1, OpenTabIs
  <2>2. CASE CloseTab(b)
    BY <1>0, <1>1, <2>2, CloseTabIs DEF CloseTab
  <2>3. CASE AccessExpires(b)
    BY <1>0, <1>1, <2>3, AccessExpiresIs DEF AccessExpires
  <2>4. CASE RefreshOk(b)
    BY <1>0, <1>1, <2>4, RefreshOkIs DEF RefreshOk
  <2>5. CASE RefreshEnds(b)
    BY <1>0, <1>1, <2>5, RejectedIs DEF RefreshEnds
  <2>6. CASE LoseRefresh(b)
    BY <1>0, <1>1, <2>6, RejectedIs DEF LoseRefresh
  <2> QED
    BY <1>3, <2>1, <2>2, <2>3, <2>4, <2>5, <2>6
<1>4. ASSUME NEW k \in Calls, CallStep(k) \/ LoseCall(k)
      PROVE  [Next]_authVars /\ ClientInv'
  BY <1>0, <1>1, <1>4, CallStepIs, ThrowIs DEF LoseCall
<1>5. ASSUME NEW k \in Calls, NEW kind \in {"api", "login", "register", "logout"},
             Send(k, kind)
      PROVE  [Next]_authVars /\ ClientInv'
  <2>1. Local
    BY <1>0, <1>5, SendIs
  <2>2. losses' = losses
    BY <1>5 DEF Send
  <2> QED
    BY <1>1, <2>1, <2>2
<1>6. ASSUME NEW r \in Request, ServerStep(r)
      PROVE  [Next]_authVars /\ ClientInv'
  BY <1>2, <1>6, StatementIs DEF ServerStep
<1>7. ASSUME NEW t \in Token, TokenExpires(t)
      PROVE  [Next]_authVars /\ ClientInv'
  <2>1. Next
    BY <1>7 DEF TokenExpires, Next
  <2> QED
    BY <1>2, <1>7, <2>1 DEF TokenExpires
<1>8. CASE UNCHANGED sessionVars
  BY <1>2, <1>8 DEF sessionVars, clientVars
<1> QED
  BY <1>3, <1>4, <1>5, <1>6, <1>7, <1>8 DEF SessionNext

(* What the browser keeps was issued by the server.                        *)

Known(t, rows) == t # NoToken => t \in Token /\ rows[t].at # "unissued"

KnownInv ==
  /\ Known(storage, token)
  /\ \A r \in Request : Known(req[r].fresh, token)
  /\ \A k \in Calls : Known(call[k].token, token)

LEMMA StillKnown ==
  ASSUME RowsStep, NEW t, Known(t, token)
  PROVE  Known(t, token')
BY DEF RowsStep, Known

\* A request gets a fresh token with its row.
LEMMA FreshStep ==
  ASSUME AuthInv, [Next]_authVars, NEW r \in Request
  PROVE  \/ req'[r].fresh \in {NoToken, req[r].fresh}
         \/ req'[r].fresh \in Token /\ token'[req'[r].fresh].at = "active"
<1> DEFINE Fresh == \/ req'[r].fresh \in {NoToken, req[r].fresh}
                    \/ req'[r].fresh \in Token /\ token'[req'[r].fresh].at = "active"
<1>0. /\ token \in [Token -> TokenRow] /\ req \in [Request -> RequestState]
  BY DEF AuthInv, TypeOK
<1>1. ASSUME NEW s \in Request, NEW n \in Token, Issue(s, n)
      PROVE  Fresh
  <2>1. /\ token'[n].at = "active"
        /\ req' = [req EXCEPT ![s] = [req[s] EXCEPT !.at = "ok", !.fresh = n]]
    BY <1>0, <1>1 DEF Issue, Set
  <2> QED
    BY <1>0, <2>1 DEF RequestState
<1>2. ASSUME NEW s \in Request, NEW c, Set(s, c), c.fresh \in {NoToken, req[s].fresh}
      PROVE  Fresh
  BY <1>0, <1>2 DEF Set
<1>3. ASSUME NEW s \in Request, Arrive(s)
      PROVE  Fresh
  BY <1>2, <1>3 DEF Arrive, Register, Login, Present, Idle
<1>4. ASSUME NEW s \in Request,
             \/ CountUsers(s) \/ CreateUser(s) \/ FindUser(s) \/ FindActive(s) \/ Revoke(s)
             \/ Fail(s) \/ Finish(s)
      PROVE  Fresh
  <2>1. req[s] \in RequestState
    BY <1>0
  <2>2. CASE CountUsers(s)
    <3> DEFINE c == [req[s] EXCEPT !.at = "create", !.first = NoUsers]
    <3> HIDE DEF NoUsers
    <3>1. c.fresh = req[s].fresh /\ Set(s, c)
      BY <2>1, <2>2 DEF RequestState, CountUsers
    <3> QED
      BY <1>2, <3>1
  <2>3. CASE CreateUser(s) \/ FindUser(s) \/ Revoke(s) \/ Fail(s)
    <3>1. PICK at \in {"issue", "refused", "ok", "failed"} : Set(s, [req[s] EXCEPT !.at = at])
      BY <2>3 DEF CreateUser, FindUser, Revoke, Fail
    <3>2. [req[s] EXCEPT !.at = at].fresh = req[s].fresh
      BY <2>1 DEF RequestState
    <3> QED
      BY <1>2, <3>1, <3>2
  <2>4. CASE FindActive(s)
    <3>1. PICK at \in {"revoke", "refused", "ok"} :
            \/ Set(s, [req[s] EXCEPT !.at = at])
            \/ Set(s, [req[s] EXCEPT !.at = at, !.account = AccountOf(req[s].token)])
      BY <2>4 DEF FindActive
    <3>2. /\ [req[s] EXCEPT !.at = at].fresh = req[s].fresh
          /\ [req[s] EXCEPT !.at = at, !.account = AccountOf(req[s].token)].fresh = req[s].fresh
      BY <2>1 DEF RequestState
    <3> QED
      BY <1>2, <3>1, <3>2
  <2>5. CASE Finish(s)
    BY <1>2, <2>5 DEF Finish, Idle
  <2> QED
    BY <1>4, <2>2, <2>3, <2>4, <2>5
<1>5. CASE UNCHANGED req
  BY <1>5
<1> QED
  BY <1>1, <1>3, <1>4, <1>5 DEF Next, Statement, Expire, authVars

\* The browser copies tokens from answers into storage, and from there into the
\* body of a logout.
Copied ==
  /\ storage' \in {storage, NoToken} \cup {req[r].fresh : r \in Request}
  /\ \A k \in Calls : call'[k].token \in {NoToken, storage, call[k].token}

LEMMA CallCopies ==
  ASSUME ClientInv, NEW k \in Calls, NEW c,
         call' = [call EXCEPT ![k] = c], c.token \in {NoToken, storage, call[k].token}
  PROVE  \A j \in Calls : call'[j].token \in {NoToken, storage, call[j].token}
BY DEF ClientInv

LEMMA ThrowCopies ==
  ASSUME ClientInv, NEW k \in Calls, Throw(k)
  PROVE  Copied
BY CallCopies DEF Throw, EndCall, SignOut, NoCall, Copied

LEMMA UnauthorizedCopies ==
  ASSUME ClientInv, NEW k \in Calls, Unauthorized(k)
  PROVE  Copied
<1> DEFINE c == [call[k] EXCEPT !.at = "waiting", !.request = NoRequest]
<1>1. c.token = call[k].token
  BY DEF ClientInv, CallState
<1>2. CASE Throw(k)
  BY <1>2, ThrowCopies
<1>3. CASE call' = [call EXCEPT ![k] = c] /\ storage' = storage
  BY <1>1, <1>3, CallCopies DEF Copied
<1> QED
  BY <1>2, <1>3 DEF Unauthorized

LEMMA RejectedCopies ==
  ASSUME ClientInv, NEW b \in Tab, NEW u, RefreshRejected(b, u)
  PROVE  Copied
BY DEF RefreshRejected, NoCall, ClientInv, Copied

LEMMA CopyStep ==
  ASSUME ClientInv, [SessionNext]_sessionVars
  PROVE  Copied
<1>0. \A k \in Calls : call[k] \in CallState /\ Attended(call[k])
  BY DEF ClientInv
<1>1. ASSUME NEW b \in Tab, RefreshOk(b)
      PROVE  Copied
  <2>1. tab[b].refresh \in Request
    BY <1>1 DEF RefreshOk, ClientInv, TabState
  <2>2. \A k \in Calls : call'[k].token = call[k].token
    BY <1>0, <1>1 DEF RefreshOk, CallState
  <2> QED
    BY <1>1, <2>1, <2>2 DEF RefreshOk, Copied
<1>2. ASSUME NEW b \in Tab, OpenTab(b) \/ CloseTab(b)
      PROVE  Copied
  BY <1>2 DEF OpenTab, CloseTab, NoCall, Copied
<1>3. ASSUME NEW b \in Tab, AccessExpires(b)
      PROVE  Copied
  BY <1>0, <1>3 DEF AccessExpires, CallState, Copied
<1>4. ASSUME NEW b \in Tab, RefreshEnds(b) \/ LoseRefresh(b)
      PROVE  Copied
  BY <1>4, RejectedCopies DEF RefreshEnds, LoseRefresh
<1>5. ASSUME NEW k \in Calls, NEW r \in Request, Admitted(k, r)
      PROVE  Copied
  BY <1>0, <1>5 DEF Admitted, ClientInv, CallState, Copied
<1>6. ASSUME NEW k \in Calls, SignedIn(k)
      PROVE  Copied
  BY <1>0, <1>6, CallCopies DEF SignedIn, EndCall, NoCall, Attended, Copied
<1>7. ASSUME NEW k \in Calls,
             NothingToRevoke(k) \/ CallEnds(k) \/ LoseCall(k) \/ Rejected(k) \/ LoginRefused(k)
      PROVE  Copied
  BY <1>7, ThrowCopies, UnauthorizedCopies
     DEF NothingToRevoke, CallEnds, LoseCall, Rejected, LoginRefused
<1>8. ASSUME NEW k \in Calls, ApiAnswered(k)
      PROVE  Copied
  BY <1>8, CallCopies DEF ApiAnswered, EndCall, NoCall, Copied
<1>9. ASSUME NEW k \in Calls, NEW kind \in {"api", "login", "register", "logout"}, Send(k, kind)
      PROVE  Copied
  <2>1. PICK a \in Account :
          call' = [call EXCEPT ![k] =
            [NoCall EXCEPT !.at = "sent", !.kind = kind, !.bearer = tab[k[1]].access,
                           !.account = IF SignsIn(kind) THEN a ELSE NoAccount,
                           !.token = IF kind = "logout" THEN storage ELSE NoToken]]
    BY <1>9 DEF Send
  <2> DEFINE c == [NoCall EXCEPT !.at = "sent", !.kind = kind, !.bearer = tab[k[1]].access,
                           !.account = IF SignsIn(kind) THEN a ELSE NoAccount,
                           !.token = IF kind = "logout" THEN storage ELSE NoToken]
  <2>2. c.token \in {NoToken, storage, call[k].token}
    BY DEF NoCall
  <2> HIDE DEF c
  <2> QED
    BY <1>9, <2>1, <2>2, CallCopies DEF Send, Copied, c
<1>10. CASE UNCHANGED clientVars
  BY <1>10 DEF clientVars, Copied
<1> QED
  BY <1>1, <1>2, <1>3, <1>4, <1>5, <1>6, <1>7, <1>8, <1>9, <1>10
     DEF SessionNext, CallStep, ServerStep, TokenExpires, sessionVars

LEMMA KnownStep ==
  ASSUME SessionInv, KnownInv, [SessionNext]_sessionVars
  PROVE  KnownInv'
<1>1. RowsStep /\ Copied /\ AuthInv /\ [Next]_authVars
  BY SessionStep, RowsKept, CopyStep DEF SessionInv
<1>2. Known(storage', token')
  BY <1>1, StillKnown DEF Copied, KnownInv, Known
<1>3. ASSUME NEW k \in Calls
      PROVE  Known(call'[k].token, token')
  BY <1>1, StillKnown DEF Copied, KnownInv, Known
<1>4. ASSUME NEW r \in Request
      PROVE  Known(req'[r].fresh, token')
  BY <1>1, FreshStep, StillKnown DEF KnownInv, Known
<1> QED
  BY <1>2, <1>3, <1>4 DEF KnownInv

LEMMA KnownStart == SessionInit => KnownInv
BY DEF SessionInit, Init, KnownInv, Known, Idle, NoCall

-----------------------------------------------------------------------------
LEMMA SessionAlways == SessionSpec => [](SessionInv /\ KnownInv) /\ [][Next]_authVars
<1>1. SessionInv /\ [SessionNext]_sessionVars => SessionInv'
  BY SessionStep, AuthStep DEF SessionInv
<1>2. SessionInv /\ [SessionNext]_sessionVars => [Next]_authVars
  BY SessionStep
<1>3. SessionInv /\ KnownInv /\ [SessionNext]_sessionVars => KnownInv'
  BY KnownStep
<1> QED
  BY SessionStart, KnownStart, <1>1, <1>2, <1>3, PTL DEF SessionSpec

-----------------------------------------------------------------------------
\* Tabs, calls and stored tokens keep their shape, and a call that is being
\* served its request, however the answers of the server are lost or abandoned.
THEOREM SessionTypes == SessionSpec => []SessionTypeOK
<1>1. SessionInv => SessionTypeOK
  BY DEF SessionInv, AuthInv, ClientInv, SessionTypeOK, TabState, CallState
<1> QED
  BY <1>1, SessionAlways, PTL

\* Whatever a tab stores, presents or sends along with a logout is a token the
\* server has issued: AuthServer's assumption about its clients.
TokensFromServer ==
  /\ storage # NoToken => token[storage].at # "unissued"
  /\ \A k \in Calls : call[k].token # NoToken => token[call[k].token].at # "unissued"

THEOREM TokensKnown == SessionSpec => []TokensFromServer
<1>1. SessionInv /\ KnownInv => TokensFromServer
  BY DEF KnownInv, Known, TokensFromServer
<1> QED
  BY <1>1, SessionAlways, PTL

\* The tabs and the server together behave as AuthServer.
THEOREM ServerBehaves == SessionSpec => Spec
<1>1. SessionInit => Init
  BY DEF SessionInit
<1> QED
  BY <1>1, SessionAlways, PTL DEF Spec, SessionSpec

\* So an instance whose clients are browsers always has an administrator, an
\* exchanged token stays dead, and what is over is not exchanged again.
THEOREM ServedSafely == SessionSpec => [](FirstIsAdmin /\ OldTokenIsDead) /\ DeadIsFinal
BY ServerBehaves, AdminExists, Rotation, NoWayBack, PTL

-----------------------------------------------------------------------------
(* Who waits for which answer.                                             *)

\* A closed tab waits for nothing; a call waits for an answer only while it is
\* being served.
ClosedInv ==
  \A b \in Tab : tab[b].status = "closed" =>
    tab[b].refresh = NoRequest /\ \A k \in CallsOf(b) : call[k].at = "idle"
CallsInv ==
  \A k \in Calls : /\ call[k].at # "serving" => call[k].request = NoRequest
                   /\ call[k].at = "idle" => call[k].kind = "none"

\* An answer is awaited by one tab or call, which knows what it has asked for.
HoldInv ==
  /\ \A b \in Tab : tab[b].refresh # NoRequest =>
       req[tab[b].refresh].op = "refresh" /\ req[tab[b].refresh].at # "idle"
  /\ \A k \in Calls : call[k].at = "serving" =>
       /\ req[call[k].request].op = call[k].kind /\ req[call[k].request].at # "idle"
       /\ call[k].kind \in {"login", "register", "logout"}
       /\ call[k].kind = "logout" => req[call[k].request].token = call[k].token
  /\ \A b, c \in Tab : b # c /\ tab[b].refresh # NoRequest => tab[b].refresh # tab[c].refresh
  /\ \A j, k \in Calls : j # k /\ call[j].request # NoRequest => call[j].request # call[k].request

\* A new token is nobody's but the reader's of the answer that brings it.
FreshInv ==
  \A r, q \in Request : r # q /\ req[r].fresh # NoToken => req[r].fresh # req[q].fresh
Private(t) ==
  /\ storage # t /\ \A k \in Calls : call[k].token # t
  /\ \A q \in Request : req[q].token # t
  /\ token[t].at # "revoked"
PrivateInv == \A r \in Request : ~Unread(r) /\ req[r].fresh # NoToken => Private(req[r].fresh)

\* While nothing is lost, somebody waits for whatever runs, and for the answer
\* of whoever revoked the stored token.
Revoker(r, t) == req[r].token = t /\ ~Unread(r) /\ req[r].at \in {"issue", "ok"}
Lossless ==
  losses = 0 =>
    /\ \A r \in Request : req[r].at # "failed" /\ (req[r].at \in Running => ~Unread(r))
    /\ storage # NoToken /\ token[storage].at = "revoked" => \E r \in Request : Revoker(r, storage)

LinkInv == CallsInv /\ HoldInv /\ FreshInv
FlightInv == LinkInv /\ PrivateInv /\ Lossless /\ RefusedOnlyIfOver

LEMMA FlightStart == SessionInit => ClosedInv /\ FlightInv
BY DEF SessionInit, Init, ClosedInv, FlightInv, LinkInv, CallsInv, HoldInv, FreshInv, PrivateInv,
       Lossless, RefusedOnlyIfOver, Closed, NoCall, Idle, Running, Unread, CallsOf

-----------------------------------------------------------------------------
(* Steps that only stop waiting.                                           *)

\* Nobody stops waiting before the answer, nor leaves a revoked token in storage.
Gone(r) ==
  losses' = 0 => req[r].at \in Answered /\ (req[r].token = storage /\ storage # NoToken => storage' # storage)

CallKept(c, d) ==
  /\ d.kind = c.kind /\ d.token = c.token /\ d.request = c.request
  /\ d.at = "serving" <=> c.at = "serving"
  /\ d.at = "idle" <=> c.at = "idle"
CallFreed(c, d) ==
  /\ d.at # "serving" /\ d.request = NoRequest
  /\ d.at = "idle" => d.kind = "none"
  /\ d.token \in {NoToken, storage, c.token}
  /\ c.at = "serving" => Gone(c.request)
  /\ \/ d.kind = c.kind /\ d.token = c.token
     \/ losses' = 0 /\ c.kind = "logout" /\ c.token = storage /\ storage # NoToken => storage' # storage
TabLeft(w, v) == v.refresh = w.refresh \/ (v.refresh = NoRequest /\ (w.refresh # NoRequest => Gone(w.refresh)))

\* A new token comes out of an answer that is then no longer awaited.
FromAnswer(r) ==
  /\ storage' = req[r].fresh
  /\ \/ \E b \in Tab : tab[b].refresh = r /\ tab'[b].refresh = NoRequest
     \/ \E k \in Calls : call[k].request = r /\ call'[k].request = NoRequest

LeaveStep ==
  /\ UNCHANGED authVars
  /\ losses' = 0 => losses = 0
  /\ \A b \in Tab : TabLeft(tab[b], tab'[b])
  /\ \A k \in Calls : CallKept(call[k], call'[k]) \/ CallFreed(call[k], call'[k])
  /\ storage' \in {storage, NoToken} \/ \E r \in Request : FromAnswer(r)

\* Whoever is awaited after such a step was awaited before, by the same.
LEMMA LeaveAwaited ==
  ASSUME CallsInv, LeaveStep
  PROVE  \A r \in Request :
           /\ Unread(r) => Unread(r)'
           /\ ~Unread(r) /\ Unread(r)' => Gone(r)
<1> SUFFICES ASSUME NEW r \in Request
             PROVE  /\ Unread(r) => Unread(r)'
                    /\ ~Unread(r) /\ Unread(r)' => Gone(r)
  OBVIOUS
<1>0. r # NoRequest
  BY SessionAssumption
<1> QED  BY <1>0 DEF CallsInv, LeaveStep, TabLeft, CallKept, CallFreed, Unread


LEMMA LeaveLinks ==
  ASSUME ClientInv, LinkInv, LeaveStep
  PROVE  LinkInv'
<1>1. UNCHANGED req
  BY DEF LeaveStep, authVars
<1>2. CallsInv'
  BY DEF LeaveStep, CallKept, CallFreed, LinkInv, CallsInv
<1>3. \A b \in Tab : tab'[b].refresh # NoRequest => tab'[b].refresh = tab[b].refresh
  BY DEF LeaveStep, TabLeft
<1>4. \A k \in Calls : call'[k].request # NoRequest => call'[k].request = call[k].request
  BY DEF LeaveStep, CallKept, CallFreed
<1>5. \A k \in Calls : call'[k].at = "serving" => CallKept(call[k], call'[k]) /\ call[k].at = "serving"
  BY DEF LeaveStep, CallKept, CallFreed
<1>6. HoldInv'
  BY <1>1, <1>3, <1>4, <1>5 DEF LinkInv, HoldInv, CallKept
<1>7. FreshInv'
  BY <1>1 DEF LinkInv, FreshInv
<1> QED  BY <1>2, <1>6, <1>7 DEF LinkInv

\* Whose answer has been read is awaited by nobody, and its token is taken.
LEMMA AnswerRead ==
  ASSUME LinkInv, LinkInv', CallsInv, LeaveStep, NEW r \in Request, FromAnswer(r)
  PROVE  ~Unread(r) /\ Unread(r)'
<1>0. r # NoRequest
  BY SessionAssumption
<1>1. ~Unread(r)
  BY DEF FromAnswer, Unread
<1>2. \A b \in Tab : tab'[b].refresh = r => tab[b].refresh = r
  BY <1>0 DEF LeaveStep, TabLeft
<1>3. \A k \in Calls : call'[k].request = r => call[k].request = r
  BY <1>0 DEF LeaveStep, CallKept, CallFreed
<1>4. \A k \in Calls : call[k].request = r => call[k].at = "serving"
  BY <1>0 DEF CallsInv
<1>5. ~((\E b \in Tab : tab[b].refresh = r) /\ (\E k \in Calls : call[k].request = r))
  BY <1>0, <1>4 DEF LinkInv, HoldInv
<1>6. CASE \E b \in Tab : tab[b].refresh = r /\ tab'[b].refresh = NoRequest
  BY <1>0, <1>2, <1>3, <1>5, <1>6 DEF LinkInv, HoldInv, Unread
<1>7. CASE \E k \in Calls : call[k].request = r /\ call'[k].request = NoRequest
  BY <1>0, <1>2, <1>3, <1>5, <1>7 DEF LinkInv, HoldInv, Unread
<1> QED  BY <1>1, <1>6, <1>7 DEF FromAnswer

LEMMA LeavePrivate ==
  ASSUME ClientInv, FlightInv, LeaveStep
  PROVE  PrivateInv'
<1>1. LinkInv /\ LinkInv' /\ CallsInv /\ PrivateInv
  BY LeaveLinks DEF FlightInv, LinkInv
<1>2. UNCHANGED <<req, token>>
  BY DEF LeaveStep, authVars
<1> SUFFICES ASSUME NEW r \in Request, ~Unread(r)', req[r].fresh # NoToken
             PROVE  Private(req[r].fresh)'
  BY <1>2 DEF PrivateInv
<1>3. ~Unread(r)
  BY <1>1, LeaveAwaited
<1>4. Private(req[r].fresh)
  BY <1>1, <1>3 DEF PrivateInv
<1>5. storage' # req[r].fresh
  <2>1. ASSUME NEW q \in Request, FromAnswer(q)
        PROVE  storage' # req[r].fresh
    <3>1. q # r
      BY <1>1, <2>1, AnswerRead
    <3> QED  BY <1>1, <2>1, <3>1 DEF FromAnswer, LinkInv, FreshInv
  <2> QED  BY <1>4, <2>1 DEF LeaveStep, Private
<1>6. \A k \in Calls : call'[k].token # req[r].fresh
  BY <1>4 DEF LeaveStep, CallKept, CallFreed, Private
<1> QED  BY <1>2, <1>4, <1>5, <1>6 DEF Private

LEMMA LeaveLossless ==
  ASSUME ClientInv, FlightInv, LeaveStep
  PROVE  Lossless'
<1>1. LinkInv /\ LinkInv' /\ CallsInv /\ PrivateInv /\ Lossless
  BY LeaveLinks DEF FlightInv, LinkInv
<1>2. UNCHANGED <<req, token>>
  BY DEF LeaveStep, authVars
<1> SUFFICES ASSUME losses' = 0
             PROVE  /\ \A r \in Request : req[r].at # "failed" /\ (req[r].at \in Running => ~Unread(r)')
                    /\ storage' # NoToken /\ token[storage'].at = "revoked" =>
                         \E r \in Request : Revoker(r, storage)'
  BY <1>2 DEF Lossless
<1>3. losses = 0
  BY DEF LeaveStep
<1>4. ASSUME NEW r \in Request, req[r].at \in Running
      PROVE  ~Unread(r)'
  BY <1>1, <1>3, <1>4, LeaveAwaited DEF Lossless, Gone, Running, Answered
<1>5. ASSUME storage' # NoToken, token[storage'].at = "revoked"
      PROVE  \E r \in Request : Revoker(r, storage)'
  <2>1. ASSUME NEW q \in Request, FromAnswer(q)
        PROVE  FALSE
    <3>1. ~Unread(q)
      BY <1>1, <2>1, AnswerRead
    <3> QED  BY <1>1, <1>5, <2>1, <3>1 DEF FromAnswer, PrivateInv, Private
  <2>2. storage' = storage
    BY <1>5, <2>1 DEF LeaveStep
  <2>3. PICK r \in Request : Revoker(r, storage)
    BY <1>1, <1>3, <1>5, <2>2 DEF Lossless
  <2>4. ~Unread(r)'
    BY <1>1, <1>5, <2>2, <2>3, LeaveAwaited DEF Gone, Revoker
  <2> QED  BY <1>2, <2>2, <2>3, <2>4 DEF Revoker
<1> QED  BY <1>1, <1>3, <1>4, <1>5 DEF Lossless

LEMMA LeaveRefused ==
  ASSUME SessionInv, FlightInv, LeaveStep
  PROVE  RefusedOnlyIfOver'
<1>1. LinkInv /\ LinkInv' /\ CallsInv /\ PrivateInv /\ RefusedOnlyIfOver /\ ClientInv
  BY LeaveLinks DEF FlightInv, LinkInv, SessionInv
<1>2. UNCHANGED <<req, token>>
  BY DEF LeaveStep, authVars
<1> SUFFICES ASSUME NEW b \in Tab, losses' = 0, tab'[b].refresh # NoRequest,
                    req[tab'[b].refresh].at = "refused",
                    token[req[tab'[b].refresh].token].at # "expired",
                    storage' = req[tab'[b].refresh].token
             PROVE  \/ \E k \in Calls : call'[k].kind = "logout" /\ call'[k].token = storage'
                    \/ \E c \in Tab \ {b} :
                         tab'[c].refresh # NoRequest /\ req[tab'[c].refresh].token = storage'
  BY <1>2 DEF RefusedOnlyIfOver
<1>3. losses = 0 /\ tab'[b].refresh = tab[b].refresh
  BY DEF LeaveStep, TabLeft
<1> DEFINE r == tab[b].refresh  t == req[r].token
<1>4. r \in Request /\ req[r].op = "refresh" /\ t \in Token
  BY <1>1, <1>3 DEF ClientInv, TabState, LinkInv, HoldInv, SessionInv, AuthInv, RequestInv, Learnt
<1>5. t # NoToken /\ storage' = t
  BY <1>3, <1>4, AuthAssumption
<1>6. storage = t
  <2>1. ASSUME NEW q \in Request, FromAnswer(q)
        PROVE  FALSE
    <3>1. ~Unread(q)
      BY <1>1, <2>1, AnswerRead
    <3>2. req[q].fresh = t
      BY <1>5, <2>1 DEF FromAnswer
    <3> QED  BY <1>1, <1>4, <1>5, <3>1, <3>2 DEF PrivateInv, Private
  <2> QED  BY <1>5, <2>1 DEF LeaveStep
<1>7. \/ \E k \in Calls : call[k].kind = "logout" /\ call[k].token = t
      \/ \E c \in Tab \ {b} : tab[c].refresh # NoRequest /\ req[tab[c].refresh].token = t
  BY <1>1, <1>3, <1>6 DEF RefusedOnlyIfOver
<1>8. ASSUME NEW k \in Calls, call[k].kind = "logout", call[k].token = t
      PROVE  call'[k].kind = "logout" /\ call'[k].token = t
  BY <1>5, <1>6, <1>8 DEF LeaveStep, CallKept, CallFreed
<1>9. ASSUME NEW c \in Tab \ {b}, tab[c].refresh # NoRequest, req[tab[c].refresh].token = t
      PROVE  tab'[c].refresh = tab[c].refresh
  BY <1>5, <1>6, <1>9 DEF LeaveStep, TabLeft, Gone
<1> QED  BY <1>5, <1>7, <1>8, <1>9

LEMMA Leaves ==
  ASSUME SessionInv, FlightInv, LeaveStep
  PROVE  FlightInv'
BY LeaveLinks, LeavePrivate, LeaveLossless, LeaveRefused DEF FlightInv, SessionInv

-----------------------------------------------------------------------------
(* The tabs' own steps only stop waiting.                                  *)

LEMMA NothingUnlost ==
  ASSUME ClientInv, losses' = losses \/ Lose
  PROVE  losses' = 0 => losses = 0 /\ losses' = losses
BY DEF ClientInv, Lose

\* A sign-in presents no token.
LEMMA SignInHasNoToken ==
  ASSUME SessionInv, LinkInv, NEW k \in Calls, call[k].at = "serving", call[k].kind # "logout"
  PROVE  req[call[k].request].token = NoToken
BY DEF SessionInv, ClientInv, Attended, AuthInv, RequestInv, Learnt, LinkInv, HoldInv

LEMMA ThrowLeaves ==
  ASSUME SessionInv, LinkInv, NEW k \in Calls, Throw(k), UNCHANGED authVars,
         losses' = 0 => losses = 0,
         call[k].at = "serving" /\ losses' = 0 => req[call[k].request].at \in Answered
  PROVE  LeaveStep
<1>0. ClientInv
  BY DEF SessionInv
<1>1. call' = [call EXCEPT ![k] = NoCall] /\ storage' \in {storage, NoToken}
  BY DEF Throw, EndCall, SignOut
<1>2. \A b \in Tab : tab'[b].refresh = tab[b].refresh
  <2>1. \A b \in Tab : tab[b] \in TabState /\ Cleared(tab[b]).refresh = tab[b].refresh
    BY <1>0 DEF ClientInv, TabState, Cleared
  <2>2. \/ UNCHANGED tab
        \/ tab' = [tab EXCEPT ![k[1]] = Cleared(tab[k[1]])]
    BY DEF Throw, SignOut
  <2> QED
    BY <1>0, <2>1, <2>2 DEF ClientInv
<1>3. call[k].kind = "logout" => storage' = NoToken
  BY DEF Throw, SignOut
<1>4. call[k].at = "serving" => Gone(call[k].request)
  BY <1>3, SignInHasNoToken DEF Gone
<1>5. CallFreed(call[k], call'[k])
  BY <1>0, <1>1, <1>3, <1>4 DEF CallFreed, NoCall, ClientInv
<1>6. \A j \in Calls \ {k} : CallKept(call[j], call'[j])
  BY <1>0, <1>1 DEF CallKept, ClientInv
<1> QED
  BY <1>1, <1>2, <1>5, <1>6 DEF LeaveStep, TabLeft

\* What a 401 does: the call throws, or waits for a refresh that is running, or
\* for one it starts.
Waits(k) == call' = [call EXCEPT ![k].at = "waiting", ![k].request = NoRequest]
LEMMA WaitingFreed ==
  ASSUME SessionInv, LinkInv, NEW k \in Calls, Waits(k), call[k].at \in {"sent", "serving"},
         call[k].at = "serving" => call[k].kind = "login" /\ req[call[k].request].at = "refused"
  PROVE  /\ CallFreed(call[k], call'[k])
         /\ \A j \in Calls \ {k} : CallKept(call[j], call'[j])
         /\ call'[k].token = call[k].token /\ call'[k].kind = call[k].kind
         /\ call'[k].at = "waiting" /\ call'[k].request = NoRequest
<1>0. call[k] \in CallState /\ call \in [Calls -> CallState]
  BY DEF SessionInv, ClientInv
<1> DEFINE c == [call[k] EXCEPT !.at = "waiting", !.request = NoRequest]
<1>1. c.at = "waiting" /\ c.request = NoRequest /\ c.kind = call[k].kind /\ c.token = call[k].token
  BY <1>0 DEF CallState
<1>2. call' = [call EXCEPT ![k] = c]
  BY <1>0 DEF Waits
<1>3. call[k].at = "serving" => Gone(call[k].request)
  BY SignInHasNoToken DEF Gone, Answered
<1> HIDE DEF c
<1>4. CallFreed(call[k], c)
  BY <1>1, <1>3 DEF CallFreed
<1>5. \A j \in Calls \ {k} : CallKept(call[j], call'[j])
  BY <1>0, <1>2 DEF CallKept
<1> QED
  BY <1>0, <1>1, <1>2, <1>4, <1>5

LEMMA RefreshOkLeaves ==
  ASSUME SessionInv, FlightInv, NEW b \in Tab, RefreshOk(b)
  PROVE  LeaveStep
<1> DEFINE r == tab[b].refresh
<1>0. ClientInv /\ PrivateInv
  BY DEF SessionInv, FlightInv
<1>1. /\ r \in Request /\ r # NoRequest /\ req[r].at = "ok" /\ storage' = req[r].fresh
      /\ UNCHANGED <<authVars, losses>>
  BY <1>0 DEF RefreshOk, ClientInv, TabState
<1>2. tab'[b].refresh = NoRequest /\ \A c \in Tab \ {b} : tab'[c] = tab[c]
  BY <1>0 DEF RefreshOk, Established, ClientInv, TabState
<1>3. Gone(r)
  <2>1. ~Unread(r)
    BY DEF Unread
  <2>2. req[r].fresh # NoToken => req[r].fresh # storage
    BY <1>0, <1>1, <2>1 DEF PrivateInv, Private
  <2> QED
    BY <1>1, <2>2 DEF Gone, Answered
<1>4. \A c \in Tab : TabLeft(tab[c], tab'[c])
  BY <1>2, <1>3 DEF TabLeft
<1>5. ASSUME NEW k \in Calls
      PROVE  CallKept(call[k], call'[k])
  <2> DEFINE d == [call[k] EXCEPT !.at = "sent", !.retry = TRUE, !.bearer = "valid"]
  <2>1. call[k] \in CallState
    BY <1>0 DEF ClientInv
  <2>2. d.at = "sent" /\ d.kind = call[k].kind /\ d.token = call[k].token /\ d.request = call[k].request
    BY <2>1 DEF CallState
  <2>3. (call'[k] = d /\ call[k].at = "waiting") \/ call'[k] = call[k]
    BY DEF RefreshOk, Waiting
  <2> HIDE DEF d
  <2> QED
    BY <2>2, <2>3 DEF CallKept
<1>6. FromAnswer(r)
  BY <1>1, <1>2 DEF FromAnswer
<1> QED
  BY <1>1, <1>4, <1>5, <1>6 DEF LeaveStep

LEMMA RefreshRejectedLeaves ==
  ASSUME SessionInv, FlightInv, NEW b \in Tab, NEW u \in BOOLEAN, RefreshRejected(b, u),
         losses' = losses \/ Lose, tab[b].refresh # NoRequest,
         losses' = 0 => u /\ req[tab[b].refresh].at \in Answered
  PROVE  LeaveStep
<1>0. ClientInv /\ CallsInv
  BY DEF SessionInv, FlightInv, LinkInv
<1>1. /\ UNCHANGED authVars /\ storage' \in {storage, NoToken}
      /\ u \/ (\E k \in Waiting(b) : call[k].kind = "logout") => storage' = NoToken
  BY DEF RefreshRejected
<1>2. tab'[b].refresh = NoRequest /\ \A c \in Tab \ {b} : tab'[c] = tab[c]
  BY <1>0 DEF RefreshRejected, Cleared, ClientInv, TabState
<1>3. Gone(tab[b].refresh)
  BY <1>1 DEF Gone
<1>4. \A c \in Tab : TabLeft(tab[c], tab'[c])
  BY <1>2, <1>3 DEF TabLeft
<1>5. ASSUME NEW k \in Waiting(b)
      PROVE  CallFreed(call[k], call'[k])
  <2>1. call'[k] = NoCall /\ call[k].at = "waiting"
    BY DEF RefreshRejected, Waiting, CallsOf
  <2>2. call[k].kind = "logout" => storage' = NoToken
    BY <1>1
  <2> QED
    BY <2>1, <2>2 DEF CallFreed, NoCall
<1>6. \A k \in Calls \ Waiting(b) : CallKept(call[k], call'[k])
  BY DEF RefreshRejected, CallKept
<1>7. losses' = 0 => losses = 0
  BY <1>0, NothingUnlost
<1> QED
  BY <1>1, <1>4, <1>5, <1>6, <1>7 DEF LeaveStep

LEMMA SignedInLeaves ==
  ASSUME SessionInv, FlightInv, NEW k \in Calls, SignedIn(k)
  PROVE  LeaveStep
<1> DEFINE r == call[k].request
<1>0. ClientInv /\ LinkInv
  BY DEF SessionInv, FlightInv
<1>1. /\ r \in Request /\ req[r].at = "ok" /\ storage' = req[r].fresh
      /\ UNCHANGED <<authVars, losses>> /\ call' = [call EXCEPT ![k] = NoCall]
      /\ call[k].at = "serving" /\ call[k].kind \in {"login", "register"}
  BY <1>0 DEF SignedIn, EndCall, ClientInv, Attended, SignsIn
<1>2. \A b \in Tab : tab'[b].refresh = tab[b].refresh
  BY <1>0 DEF SignedIn, Established, ClientInv, TabState
<1>3. Gone(r)
  BY <1>0, <1>1, SignInHasNoToken DEF Gone, Answered
<1>4. CallFreed(call[k], call'[k])
  BY <1>0, <1>1, <1>3 DEF CallFreed, NoCall, ClientInv
<1>5. \A j \in Calls \ {k} : CallKept(call[j], call'[j])
  BY <1>0, <1>1 DEF CallKept, ClientInv
<1>6. FromAnswer(r)
  BY <1>0, <1>1 DEF FromAnswer, NoCall, ClientInv
<1> QED
  BY <1>1, <1>2, <1>4, <1>5, <1>6 DEF LeaveStep, TabLeft

LEMMA CloseTabLeaves ==
  ASSUME SessionInv, FlightInv, NEW b \in Tab, CloseTab(b)
  PROVE  LeaveStep
<1>0. ClientInv /\ CallsInv
  BY DEF SessionInv, FlightInv, LinkInv
<1>1. losses' = 0 => losses = 0 /\ losses' = losses
  BY <1>0, NothingUnlost DEF CloseTab
<1>2. losses' = 0 => tab[b].refresh = NoRequest /\ \A k \in CallsOf(b) : call[k].at = "idle"
  BY <1>0 DEF CloseTab, Lose, ClientInv
<1>3. \A c \in Tab : TabLeft(tab[c], tab'[c])
  BY <1>0, <1>2 DEF CloseTab, TabLeft, Closed, Gone, ClientInv
<1>4. ASSUME NEW k \in CallsOf(b)
      PROVE  CallFreed(call[k], call'[k])
  <2>1. call'[k] = NoCall /\ k \in Calls
    BY DEF CloseTab, CallsOf
  <2>2. losses' = 0 => call[k].at = "idle" /\ call[k].kind = "none"
    BY <1>0, <1>2, <2>1 DEF CallsInv
  <2> QED
    BY <2>1, <2>2 DEF CallFreed, NoCall, Gone
<1>5. \A k \in Calls \ CallsOf(b) : CallKept(call[k], call'[k])
  BY DEF CloseTab, CallKept, CallsOf
<1>6. UNCHANGED <<storage, authVars>>
  BY DEF CloseTab
<1> QED
  BY <1>1, <1>3, <1>4, <1>5, <1>6 DEF LeaveStep

LEMMA SendLeaves ==
  ASSUME SessionInv, FlightInv, NEW k \in Calls, NEW kind \in {"api", "login", "register", "logout"},
         Send(k, kind)
  PROVE  LeaveStep
<1>0. ClientInv /\ CallsInv
  BY DEF SessionInv, FlightInv, LinkInv
<1>1. PICK a \in Account :
        call' = [call EXCEPT ![k] =
          [NoCall EXCEPT !.at = "sent", !.kind = kind, !.bearer = tab[k[1]].access,
                         !.account = IF SignsIn(kind) THEN a ELSE NoAccount,
                         !.token = IF kind = "logout" THEN storage ELSE NoToken]]
  BY DEF Send
<1>2. /\ call'[k].at = "sent" /\ call'[k].request = NoRequest
      /\ call'[k].token \in {NoToken, storage}
  BY <1>0, <1>1 DEF NoCall, ClientInv
<1>3. call[k].at = "idle" /\ call[k].kind = "none" /\ UNCHANGED <<authVars, storage, tab, losses>>
  BY <1>0 DEF Send, CallsInv
<1>4. CallFreed(call[k], call'[k])
  BY <1>2, <1>3 DEF CallFreed
<1>5. \A j \in Calls \ {k} : CallKept(call[j], call'[j])
  BY <1>0, <1>1 DEF CallKept, ClientInv
<1> QED
  BY <1>3, <1>4, <1>5 DEF LeaveStep, TabLeft

\* A call that changes no more than its own progress or bearer.
LEMMA AccessExpiresLeaves ==
  ASSUME ClientInv, NEW b \in Tab, AccessExpires(b)
  PROVE  LeaveStep
<1>1. \A c \in Tab : tab'[c].refresh = tab[c].refresh
  BY DEF AccessExpires, ClientInv, TabState
<1>2. ASSUME NEW k \in Calls
      PROVE  CallKept(call[k], call'[k])
  <2> DEFINE d == [call[k] EXCEPT !.bearer = "stale"]
  <2>1. d.at = call[k].at /\ d.kind = call[k].kind /\ d.token = call[k].token /\ d.request = call[k].request
    BY DEF ClientInv, CallState
  <2>2. call'[k] \in {d, call[k]}
    BY DEF AccessExpires
  <2> HIDE DEF d
  <2> QED
    BY <2>1, <2>2 DEF CallKept
<1> QED
  BY <1>1, <1>2 DEF AccessExpires, LeaveStep, TabLeft

LEMMA ApiAnsweredLeaves ==
  ASSUME ClientInv, NEW k \in Calls, ApiAnswered(k)
  PROVE  LeaveStep
<1>1. call' = [call EXCEPT ![k] = NoCall] /\ call[k].at = "sent" /\ call[k].kind = "api"
  BY DEF ApiAnswered, EndCall
<1>2. CallFreed(call[k], call'[k])
  BY <1>1 DEF CallFreed, NoCall, ClientInv
<1>3. \A j \in Calls \ {k} : CallKept(call[j], call'[j])
  BY <1>1 DEF CallKept, ClientInv
<1> QED
  BY <1>2, <1>3 DEF ApiAnswered, LeaveStep, TabLeft

-----------------------------------------------------------------------------
(* Steps that send a request to the server.                                *)

TabStarts(b, r) ==
  /\ tab[b].refresh = NoRequest /\ tab'[b].refresh = r
  /\ \A c \in Tab \ {b} : tab'[c].refresh = tab[c].refresh
  /\ req'[r].op = "refresh" /\ req'[r].at = "find"
  /\ \A k \in Calls : /\ CallKept(call[k], call'[k]) \/ CallFreed(call[k], call'[k])
                      /\ call'[k].kind = call[k].kind /\ call'[k].token = call[k].token
CallStarts(k, r) ==
  /\ \A b \in Tab : tab'[b].refresh = tab[b].refresh
  /\ call[k].request = NoRequest /\ call[k].kind \in {"login", "register", "logout"}
  /\ call'[k].at = "serving" /\ call'[k].request = r
  /\ call'[k].kind = call[k].kind /\ call'[k].token = call[k].token
  /\ \A j \in Calls \ {k} : call'[j] = call[j]
  /\ req'[r].op = call[k].kind
  /\ call[k].kind = "logout" => req'[r].token = call[k].token
StartStep(r) ==
  /\ req[r].at = "idle"
  /\ UNCHANGED <<token, storage, losses>>
  /\ \A q \in Request \ {r} : req'[q] = req[q]
  /\ req'[r].fresh = NoToken /\ req'[r].at \in Running \cup {"refused"}
  /\ req'[r].token \in {NoToken, storage} \cup {call[k].token : k \in Calls}
  /\ (\E b \in Tab : TabStarts(b, r)) \/ (\E k \in Calls : CallStarts(k, r))

\* Nobody waits for an idle request.
LEMMA IdleUnread ==
  ASSUME LinkInv, NEW r \in Request, req[r].at = "idle"
  PROVE  Unread(r)
<1>0. r # NoRequest
  BY SessionAssumption
<1> QED
  BY <1>0 DEF LinkInv, CallsInv, HoldInv, Unread

LEMMA StartAwaited ==
  ASSUME LinkInv, NEW r \in Request, StartStep(r)
  PROVE  /\ ~Unread(r)'
         /\ \A q \in Request \ {r} : /\ Unread(q) => Unread(q)'
                                     /\ ~Unread(q) /\ Unread(q)' => Gone(q)
<1>0. \A q \in Request : q # NoRequest
  BY SessionAssumption
<1>1. ASSUME NEW b \in Tab, TabStarts(b, r)
      PROVE  /\ ~Unread(r)'
             /\ \A q \in Request \ {r} : /\ Unread(q) => Unread(q)'
                                         /\ ~Unread(q) /\ Unread(q)' => Gone(q)
  BY <1>0, <1>1 DEF TabStarts, CallKept, CallFreed, LinkInv, CallsInv, Unread
<1>2. ASSUME NEW k \in Calls, CallStarts(k, r)
      PROVE  /\ ~Unread(r)'
             /\ \A q \in Request \ {r} : /\ Unread(q) => Unread(q)'
                                         /\ ~Unread(q) /\ Unread(q)' => Gone(q)
  BY <1>0, <1>2 DEF CallStarts, Unread
<1> QED
  BY <1>1, <1>2 DEF StartStep

LEMMA StartLinks ==
  ASSUME ClientInv, LinkInv, NEW r \in Request, StartStep(r)
  PROVE  LinkInv'
<1>0. Unread(r) /\ r # NoRequest
  BY IdleUnread, SessionAssumption DEF StartStep
<1>1. FreshInv'
  BY DEF StartStep, LinkInv, FreshInv
<1>2. req'[r].at # "idle" /\ \A q \in Request \ {r} : req'[q] = req[q]
  BY DEF StartStep, Running
<1>3. /\ \A b \in Tab : tab[b].refresh \in (Request \ {r}) \cup {NoRequest}
      /\ \A k \in Calls : call[k].request \in (Request \ {r}) \cup {NoRequest}
  BY <1>0 DEF Unread, ClientInv, TabState, CallState
<1>4. /\ \A b \in Tab : tab[b].refresh # NoRequest => req'[tab[b].refresh] = req[tab[b].refresh]
      /\ \A k \in Calls : call[k].request # NoRequest => req'[call[k].request] = req[call[k].request]
  BY <1>2, <1>3
<1>5. ASSUME NEW b \in Tab, TabStarts(b, r)
      PROVE  CallsInv' /\ HoldInv'
  <2>1. CallsInv'
    BY <1>5 DEF TabStarts, CallKept, CallFreed, LinkInv, CallsInv
  <2>2. \A k \in Calls : call'[k].request # NoRequest => call'[k].request = call[k].request
    BY <1>5 DEF TabStarts, CallKept, CallFreed
  <2>3. \A k \in Calls : call'[k].at = "serving" => CallKept(call[k], call'[k]) /\ call[k].at = "serving"
    BY <1>5 DEF TabStarts, CallKept, CallFreed
  <2>4. \A k \in Calls : call[k].at = "serving" => call[k].request # NoRequest
    BY SessionAssumption DEF ClientInv, Attended
  <2>5. \A c \in Tab : tab'[c].refresh = IF c = b THEN r ELSE tab[c].refresh
    BY <1>5 DEF TabStarts
  <2>6. \A c, d \in Tab : c # d /\ tab'[c].refresh # NoRequest => tab'[c].refresh # tab'[d].refresh
    BY <1>0, <1>3, <2>5 DEF LinkInv, HoldInv
  <2>7. \A c \in Tab : tab'[c].refresh # NoRequest =>
          req'[tab'[c].refresh].op = "refresh" /\ req'[tab'[c].refresh].at # "idle"
    BY <1>4, <1>5, <2>5 DEF TabStarts, LinkInv, HoldInv
  <2>8. \A k \in Calls : call'[k].at = "serving" =>
          /\ req'[call'[k].request].op = call'[k].kind /\ req'[call'[k].request].at # "idle"
          /\ call'[k].kind \in {"login", "register", "logout"}
          /\ call'[k].kind = "logout" => req'[call'[k].request].token = call'[k].token
    BY <1>4, <2>3, <2>4 DEF CallKept, LinkInv, HoldInv
  <2> QED
    BY <2>1, <2>2, <2>6, <2>7, <2>8 DEF LinkInv, HoldInv
<1>6. ASSUME NEW k \in Calls, CallStarts(k, r)
      PROVE  CallsInv' /\ HoldInv'
  <2>1. CallsInv'
    BY <1>6 DEF CallStarts, LinkInv, CallsInv
  <2>2. \A c \in Tab : tab'[c].refresh = tab[c].refresh
    BY <1>6 DEF CallStarts
  <2>3. \A j \in Calls : j # k => call'[j] = call[j]
    BY <1>6 DEF CallStarts
  <2>4. \A j \in Calls : call[j].at = "serving" => call[j].request # NoRequest
    BY SessionAssumption DEF ClientInv, Attended
  <2>5. \A j \in Calls : call'[j].at = "serving" =>
          /\ req'[call'[j].request].op = call'[j].kind /\ req'[call'[j].request].at # "idle"
          /\ call'[j].kind \in {"login", "register", "logout"}
          /\ call'[j].kind = "logout" => req'[call'[j].request].token = call'[j].token
    BY <1>2, <1>4, <1>6, <2>3, <2>4 DEF CallStarts, LinkInv, HoldInv
  <2>6. \A i, j \in Calls : i # j /\ call'[i].request # NoRequest => call'[i].request # call'[j].request
    BY <1>0, <1>3, <1>6, <2>3 DEF CallStarts, LinkInv, HoldInv
  <2>7. \A c \in Tab : tab'[c].refresh # NoRequest =>
          req'[tab'[c].refresh].op = "refresh" /\ req'[tab'[c].refresh].at # "idle"
    BY <1>4, <2>2 DEF LinkInv, HoldInv
  <2> QED
    BY <2>1, <2>2, <2>5, <2>6, <2>7 DEF LinkInv, HoldInv
<1> QED
  BY <1>1, <1>5, <1>6 DEF StartStep, LinkInv

LEMMA StartPrivate ==
  ASSUME FlightInv, NEW r \in Request, StartStep(r)
  PROVE  PrivateInv'
<1>1. LinkInv /\ PrivateInv
  BY DEF FlightInv
<1> SUFFICES ASSUME NEW p \in Request, ~Unread(p)', req'[p].fresh # NoToken
             PROVE  Private(req[p].fresh)'
  BY DEF PrivateInv
<1>2. p # r /\ req'[p] = req[p] /\ ~Unread(p)
  BY <1>1, StartAwaited DEF StartStep
<1> DEFINE t == req[p].fresh
<1>3. Private(t) /\ t # NoToken
  BY <1>1, <1>2 DEF PrivateInv
<1>4. \A k \in Calls : call'[k].token = call[k].token
  BY DEF StartStep, TabStarts, CallStarts
<1>5. \A q \in Request : req'[q].token # t
  BY <1>3 DEF StartStep, Private
<1>6. UNCHANGED <<token, storage>>
  BY DEF StartStep
<1> QED
  BY <1>2, <1>3, <1>4, <1>5, <1>6 DEF Private

LEMMA StartLossless ==
  ASSUME FlightInv, NEW r \in Request, StartStep(r)
  PROVE  Lossless'
<1>1. LinkInv /\ Lossless /\ UNCHANGED <<token, storage, losses>>
  BY DEF FlightInv, StartStep
<1> SUFFICES ASSUME losses = 0
             PROVE  /\ \A q \in Request : req'[q].at # "failed" /\ (req'[q].at \in Running => ~Unread(q)')
                    /\ storage # NoToken /\ token[storage].at = "revoked" =>
                         \E q \in Request : Revoker(q, storage)'
  BY <1>1 DEF Lossless
<1>2. ASSUME NEW q \in Request
      PROVE  req'[q].at # "failed" /\ (req'[q].at \in Running => ~Unread(q)')
  <2>1. CASE q = r
    BY <1>1, <2>1, StartAwaited DEF StartStep, Running
  <2>2. CASE q # r
    BY <1>1, <2>2, StartAwaited DEF StartStep, Lossless, Gone, Running, Answered
  <2> QED
    BY <2>1, <2>2
<1>3. ASSUME storage # NoToken, token[storage].at = "revoked"
      PROVE  \E q \in Request : Revoker(q, storage)'
  <2>1. PICK q \in Request : Revoker(q, storage)
    BY <1>1, <1>3 DEF Lossless
  <2>2. q # r /\ req'[q] = req[q]
    BY <2>1 DEF Revoker, StartStep
  <2>3. ~Unread(q)'
    BY <1>1, <1>3, <2>1, <2>2, StartAwaited DEF Revoker, Gone
  <2> QED
    BY <1>1, <2>1, <2>2, <2>3 DEF Revoker
<1> QED
  BY <1>2, <1>3

LEMMA StartRefused ==
  ASSUME ClientInv, FlightInv, NEW r \in Request, StartStep(r)
  PROVE  RefusedOnlyIfOver'
<1>1. LinkInv /\ RefusedOnlyIfOver /\ UNCHANGED <<token, storage, losses>> /\ Unread(r)
  BY IdleUnread DEF FlightInv, StartStep
<1>2. /\ \A b \in Tab : tab[b].refresh \in (Request \ {r}) \cup {NoRequest}
      /\ \A q \in Request \ {r} : req'[q] = req[q]
  BY <1>1, SessionAssumption DEF Unread, ClientInv, TabState, StartStep
<1>3. \A b \in Tab : tab[b].refresh # NoRequest => req'[tab[b].refresh] = req[tab[b].refresh]
  BY <1>2
<1>4. \A b \in Tab : tab[b].refresh # NoRequest => tab'[b].refresh = tab[b].refresh
  BY DEF StartStep, TabStarts, CallStarts
<1>5. \A b \in Tab : tab'[b].refresh # NoRequest /\ req'[tab'[b].refresh].at = "refused" => 
        tab'[b].refresh = tab[b].refresh
  BY DEF StartStep, TabStarts, CallStarts
<1>6. \A k \in Calls : call'[k].token = call[k].token /\ call'[k].kind = call[k].kind
  BY DEF StartStep, TabStarts, CallStarts
<1> SUFFICES ASSUME NEW b \in Tab, losses = 0, tab'[b].refresh # NoRequest,
                    req'[tab'[b].refresh].at = "refused",
                    token[req'[tab'[b].refresh].token].at # "expired",
                    storage = req'[tab'[b].refresh].token
             PROVE  \/ \E k \in Calls : call'[k].kind = "logout" /\ call'[k].token = storage
                    \/ \E c \in Tab \ {b} :
                         tab'[c].refresh # NoRequest /\ req'[tab'[c].refresh].token = storage
  BY <1>1 DEF RefusedOnlyIfOver
<1>7. \/ \E k \in Calls : call[k].kind = "logout" /\ call[k].token = storage
      \/ \E c \in Tab \ {b} : tab[c].refresh # NoRequest /\ req[tab[c].refresh].token = storage
  BY <1>1, <1>3, <1>5 DEF RefusedOnlyIfOver
<1> QED
  BY <1>3, <1>4, <1>6, <1>7

LEMMA Starts ==
  ASSUME ClientInv, FlightInv, NEW r \in Request, StartStep(r)
  PROVE  FlightInv'
BY StartLinks, StartPrivate, StartLossless, StartRefused DEF FlightInv

\* Opening a tab, a 401 that finds no refresh running, and the calls of the auth
\* pages send a request.
LEMMA PresentIs ==
  ASSUME TypeOK, NEW r \in Request, NEW op, NEW t, Present(r, op, t)
  PROVE  /\ req[r].at = "idle" /\ UNCHANGED token
         /\ \A q \in Request \ {r} : req'[q] = req[q]
         /\ req'[r].at = "find" /\ req'[r].op = op /\ req'[r].token = t /\ req'[r].fresh = NoToken
BY DEF Present, Set, Idle, TypeOK

LEMMA OpenTabStep ==
  ASSUME SessionInv, ClosedInv, FlightInv, NEW b \in Tab, OpenTab(b)
  PROVE  FlightInv'
<1>0. ClientInv /\ TypeOK /\ tab[b] \in TabState
  BY DEF SessionInv, AuthInv, ClientInv
<1>1. tab[b].refresh = NoRequest
  BY DEF OpenTab, ClosedInv
<1>2. UNCHANGED <<storage, call, losses>>
  BY DEF OpenTab
<1>3. CASE UNCHANGED authVars /\ tab' = [tab EXCEPT ![b].status = "anonymous"]
  <2>1. \A c \in Tab : tab'[c].refresh = tab[c].refresh
    BY <1>0, <1>3 DEF TabState, ClientInv
  <2>2. LeaveStep
    BY <1>2, <1>3, <2>1 DEF LeaveStep, TabLeft, CallKept
  <2> QED
    BY <2>2, Leaves
<1>4. ASSUME NEW r \in Request, Present(r, "refresh", storage),
             tab' = [tab EXCEPT ![b].status = "bootstrapping", ![b].refresh = r]
      PROVE  FlightInv'
  <2>1. tab'[b].refresh = r /\ \A c \in Tab \ {b} : tab'[c].refresh = tab[c].refresh
    <3>1. [tab[b] EXCEPT !.status = "bootstrapping", !.refresh = r].refresh = r
      BY <1>0 DEF TabState
    <3> QED
      BY <1>0, <1>4, <3>1 DEF ClientInv
  <2>2. TabStarts(b, r)
    BY <1>0, <1>1, <1>2, <1>4, <2>1, PresentIs DEF TabStarts, CallKept
  <2>3. StartStep(r)
    BY <1>0, <1>2, <1>4, <2>2, PresentIs DEF StartStep, Running
  <2> QED
    BY <1>0, <2>3, Starts
<1> QED
  BY <1>3, <1>4 DEF OpenTab

LEMMA UnauthorizedStep ==
  ASSUME SessionInv, FlightInv, NEW k \in Calls, Unauthorized(k), UNCHANGED losses,
         call[k].at \in {"sent", "serving"},
         call[k].at = "serving" => call[k].kind = "login" /\ req[call[k].request].at = "refused"
  PROVE  FlightInv'
<1>0. ClientInv /\ TypeOK /\ LinkInv /\ k[1] \in Tab
  BY SessionAssumption DEF SessionInv, AuthInv, FlightInv
<1>1. CASE ~MayRefresh(k)
  <2>1. LeaveStep
    BY <1>0, <1>1, ThrowLeaves DEF Unauthorized, Answered
  <2> QED
    BY <2>1, Leaves
<1>2. CASE MayRefresh(k)
  <2>1. Waits(k) /\ UNCHANGED storage
    BY <1>2 DEF Unauthorized, Waits
  <2>2. /\ \A j \in Calls : CallKept(call[j], call'[j]) \/ CallFreed(call[j], call'[j])
        /\ \A j \in Calls : call'[j].token = call[j].token /\ call'[j].kind = call[j].kind
    <3>1. \A j \in Calls \ {k} : call'[j].token = call[j].token /\ call'[j].kind = call[j].kind
      BY <1>0, <2>1, WaitingFreed DEF CallKept
    <3> QED
      BY <1>0, <2>1, <3>1, WaitingFreed
  <2>3. CASE ~RefreshIdle(k[1])
    <3>1. LeaveStep
      BY <1>2, <2>1, <2>2, <2>3 DEF Unauthorized, LeaveStep, TabLeft
    <3> QED
      BY <3>1, Leaves
  <2>4. CASE RefreshIdle(k[1])
    <3>1. PICK r \in Request :
            Present(r, "refresh", storage) /\ tab' = [tab EXCEPT ![k[1]].refresh = r]
      BY <1>2, <2>4 DEF Unauthorized
    <3>2. tab'[k[1]].refresh = r /\ \A c \in Tab \ {k[1]} : tab'[c].refresh = tab[c].refresh
      BY <1>0, <3>1 DEF ClientInv, TabState
    <3>3. TabStarts(k[1], r)
      BY <1>0, <2>2, <2>4, <3>1, <3>2, PresentIs DEF TabStarts, RefreshIdle
    <3>4. StartStep(r)
      BY <1>0, <2>1, <3>1, <3>3, PresentIs DEF StartStep, Running
    <3> QED
      BY <1>0, <3>4, Starts
  <2> QED
    BY <2>3, <2>4
<1> QED
  BY <1>1, <1>2

LEMMA AdmittedStep ==
  ASSUME SessionInv, FlightInv, NEW k \in Calls, NEW r \in Request, Admitted(k, r)
  PROVE  FlightInv'
<1>0. ClientInv /\ TypeOK /\ CallsInv
  BY DEF SessionInv, AuthInv, FlightInv, LinkInv
<1>1. /\ call[k].at = "sent" /\ call[k].request = NoRequest
      /\ UNCHANGED <<storage, tab, losses>>
      /\ call' = [call EXCEPT ![k].at = "serving", ![k].request = r]
  BY <1>0 DEF Admitted, CallsInv
<1>2. /\ req[r].at = "idle" /\ UNCHANGED token
      /\ \A q \in Request \ {r} : req'[q] = req[q]
      /\ call[k].kind \in {"login", "register", "logout"}
      /\ req'[r].op = call[k].kind /\ req'[r].fresh = NoToken
      /\ req'[r].at \in Running \cup {"refused"}
      /\ req'[r].token = IF call[k].kind = "logout" THEN call[k].token ELSE NoToken
  <2>1. CASE call[k].kind = "login" /\ Login(r, call[k].account)
    BY <1>0, <2>1 DEF Login, Set, Idle, TypeOK, Running
  <2>2. CASE call[k].kind = "register" /\ Register(r, call[k].account)
    BY <1>0, <2>2 DEF Register, Set, Idle, TypeOK, Running
  <2>3. CASE call[k].kind = "logout" /\ Present(r, "logout", call[k].token)
    BY <1>0, <2>3, PresentIs DEF Running
  <2> QED
    BY <2>1, <2>2, <2>3 DEF Admitted
<1>3. /\ call'[k].at = "serving" /\ call'[k].request = r
      /\ call'[k].kind = call[k].kind /\ call'[k].token = call[k].token
      /\ \A j \in Calls \ {k} : call'[j] = call[j]
  <2> DEFINE c == [call[k] EXCEPT !.at = "serving", !.request = r]
  <2>1. c.at = "serving" /\ c.request = r /\ c.kind = call[k].kind /\ c.token = call[k].token
    BY <1>0 DEF ClientInv, CallState
  <2>2. call' = [call EXCEPT ![k] = c]
    BY <1>1
  <2> HIDE DEF c
  <2> QED
    BY <1>0, <2>1, <2>2 DEF ClientInv
<1>4. CallStarts(k, r)
  BY <1>1, <1>2, <1>3 DEF CallStarts
<1>5. StartStep(r)
  BY <1>1, <1>2, <1>4 DEF StartStep
<1> QED
  BY <1>0, <1>5, Starts

-----------------------------------------------------------------------------
(* Steps of the server.                                                    *)

\* A request that runs goes on with what it has been given.
Moves(r) ==
  /\ req[r].at \in Running /\ req'[r].at \in Running \cup Answered
  /\ req'[r].op = req[r].op /\ req'[r].token = req[r].token
  /\ \A q \in Request \ {r} : req'[q] = req[q]

\* The statements that leave the tokens alone; a refresh is refused by the one
\* that looks for an active token.
Reads(r) ==
  /\ Moves(r) /\ req'[r].fresh = req[r].fresh /\ UNCHANGED token
  /\ req[r].at = "issue" => req'[r].at = "failed"
  /\ req'[r].at = "refused" /\ req[r].op = "refresh" => req[r].at = "find" /\ ~Active(req[r].token)

LEMMA ReadsIs ==
  ASSUME AuthInv, NEW r \in Request,
         CountUsers(r) \/ CreateUser(r) \/ FindUser(r) \/ FindActive(r) \/ Fail(r)
  PROVE  Reads(r)
<1>0. TypeOK /\ req[r] \in RequestState
  BY DEF AuthInv, TypeOK
<1> USE DEF Running, Answered
<1>1. ASSUME NEW at \in Running \cup Answered, Set(r, [req[r] EXCEPT !.at = at]),
             req[r].at \in Running, UNCHANGED token, req[r].at = "issue" => at = "failed",
             at = "refused" /\ req[r].op = "refresh" => req[r].at = "find" /\ ~Active(req[r].token)
      PROVE  Reads(r)
  BY <1>0, <1>1 DEF Set, TypeOK, RequestState, Reads, Moves
<1>2. CASE CountUsers(r)
  <2> DEFINE c == [req[r] EXCEPT !.at = "create", !.first = NoUsers]
  <2> HIDE DEF NoUsers
  <2>1. c.at = "create" /\ c.op = req[r].op /\ c.token = req[r].token /\ c.fresh = req[r].fresh
    BY <1>0 DEF RequestState
  <2>2. req' = [req EXCEPT ![r] = c] /\ req[r].at = "count" /\ UNCHANGED token
    BY <1>2 DEF CountUsers, Set
  <2> HIDE DEF c
  <2> QED
    BY <1>0, <2>1, <2>2 DEF TypeOK, Reads, Moves
<1>3. CASE CreateUser(r)
  <2>1. req[r].op = "register"
    BY <1>3 DEF CreateUser, AuthInv, RequestInv, Learnt
  <2> QED
    BY <1>1, <1>3, <2>1 DEF CreateUser
<1>4. CASE FindUser(r)
  BY <1>1, <1>4 DEF FindUser
<1>5. CASE FindActive(r)
  <2>1. CASE Active(req[r].token)
    <3> DEFINE c == [req[r] EXCEPT !.at = "revoke", !.account = AccountOf(req[r].token)]
    <3>1. c.at = "revoke" /\ c.op = req[r].op /\ c.token = req[r].token /\ c.fresh = req[r].fresh
      BY <1>0 DEF RequestState
    <3>2. req' = [req EXCEPT ![r] = c] /\ req[r].at = "find" /\ UNCHANGED token
      BY <1>5, <2>1 DEF FindActive, Set
    <3> HIDE DEF c
    <3> QED
      BY <1>0, <3>1, <3>2 DEF TypeOK, Reads, Moves
  <2>2. CASE ~Active(req[r].token)
    BY <1>1, <1>5, <2>2 DEF FindActive
  <2> QED
    BY <2>1, <2>2
<1>6. CASE Fail(r)
  BY <1>1, <1>6 DEF Fail
<1> QED
  BY <1>2, <1>3, <1>4, <1>5, <1>6

LEMMA RevokeIs ==
  ASSUME AuthInv, NEW r \in Request, Revoke(r)
  PROVE  /\ Moves(r) /\ req'[r].fresh = req[r].fresh /\ req'[r].at \in {"issue", "ok"}
         /\ req[r].token \in Token /\ req[r].token # NoToken
         /\ \A t \in Token : token'[t].at = IF t = req[r].token THEN "revoked" ELSE token[t].at
<1>0. TypeOK /\ req[r] \in RequestState /\ req[r].at = "revoke"
  BY DEF AuthInv, TypeOK, Revoke
<1>1. req[r].token \in Token /\ req[r].token # NoToken
  BY <1>0, AuthAssumption DEF AuthInv, RequestInv, Learnt
<1>2. PICK at \in {"issue", "ok"} : req' = [req EXCEPT ![r] = [req[r] EXCEPT !.at = at]]
  BY DEF Revoke, Set
<1>3. Moves(r) /\ req'[r].fresh = req[r].fresh /\ req'[r].at = at
  BY <1>0, <1>2 DEF TypeOK, RequestState, Moves, Running, Answered
<1>4. \A t \in Token : token'[t].at = IF t = req[r].token THEN "revoked" ELSE token[t].at
  <2>1. token' = [token EXCEPT ![req[r].token] = [token[req[r].token] EXCEPT !.at = "revoked"]]
    BY DEF Revoke
  <2>2. token[req[r].token].at # "unissued"
    BY <1>0 DEF AuthInv, RequestInv, Learnt
  <2>3. [token[req[r].token] EXCEPT !.at = "revoked"].at = "revoked"
    BY <1>0, <1>1, <2>2, IssuedRow
  <2> QED
    BY <1>0, <1>1, <2>1, <2>3 DEF TypeOK
<1> QED
  BY <1>1, <1>3, <1>4

LEMMA IssueIs ==
  ASSUME TypeOK, NEW r \in Request, NEW n \in Token, Issue(r, n)
  PROVE  /\ Moves(r) /\ req[r].at = "issue" /\ req'[r].at = "ok" /\ req'[r].fresh = n
         /\ token[n].at = "unissued" /\ token'[n].at = "active"
         /\ \A t \in Token \ {n} : token'[t] = token[t]
<1>0. req[r] \in RequestState
  BY DEF TypeOK
<1> DEFINE c == [req[r] EXCEPT !.at = "ok", !.fresh = n]
<1>1. c.at = "ok" /\ c.op = req[r].op /\ c.token = req[r].token /\ c.fresh = n
  BY <1>0 DEF RequestState
<1>2. req' = [req EXCEPT ![r] = c] /\ req[r].at = "issue"
  BY DEF Issue, Set
<1> HIDE DEF c
<1>3. Moves(r) /\ req'[r] = c
  BY <1>1, <1>2 DEF TypeOK, Moves, Running, Answered
<1>4. /\ token[n].at = "unissued" /\ token'[n].at = "active"
      /\ \A t \in Token \ {n} : token'[t] = token[t]
  BY DEF Issue, TypeOK
<1> QED
  BY <1>1, <1>2, <1>3, <1>4

LEMMA FinishIs ==
  ASSUME TypeOK, NEW r \in Request, Finish(r)
  PROVE  req'[r] = Idle /\ UNCHANGED token /\ \A q \in Request \ {r} : req'[q] = req[q]
BY DEF Finish, Set, TypeOK

LEMMA ExpireIs ==
  ASSUME TypeOK, NEW t \in Token, Expire(t)
  PROVE  UNCHANGED req /\ \A s \in Token : token'[s].at = IF s = t THEN "expired" ELSE token[s].at
<1>1. token[t].at # "unissued" /\ token' = [token EXCEPT ![t] = [token[t] EXCEPT !.at = "expired"]]
  BY DEF Expire
<1>2. [token[t] EXCEPT !.at = "expired"].at = "expired"
  BY <1>1, IssuedRow
<1> QED
  BY <1>1, <1>2 DEF Expire, TypeOK

ServedStep(r) ==
  /\ UNCHANGED clientVars
  /\ \/ Reads(r) \/ Revoke(r) \/ (\E n \in Token : Issue(r, n))
     \/ Finish(r) /\ Unread(r)

\* What a request that somebody waits for keeps through such a step.
LEMMA ServedKeeps ==
  ASSUME SessionInv, LinkInv, NEW r \in Request, ServedStep(r)
  PROVE  /\ \A q \in Request : Unread(q)' <=> Unread(q)
         /\ \A q \in Request : ~Unread(q) =>
              /\ req'[q].op = req[q].op /\ req'[q].token = req[q].token
              /\ req[q].at # "idle" => req'[q].at # "idle"
         /\ \A q \in Request : req'[q].token \in {NoToken, req[q].token}
<1>0. TypeOK /\ AuthInv /\ UNCHANGED clientVars
  BY DEF SessionInv, AuthInv, ServedStep
<1>1. \A q \in Request : Unread(q)' <=> Unread(q)
  BY <1>0 DEF clientVars, Unread
<1>2. CASE Moves(r)
  BY <1>1, <1>2 DEF Moves, Running, Answered
<1>3. CASE Finish(r) /\ Unread(r)
  BY <1>0, <1>1, <1>3, FinishIs DEF Idle
<1> QED
  BY <1>0, <1>1, <1>2, <1>3, RevokeIs, IssueIs DEF ServedStep, Reads

LEMMA ServedLinks ==
  ASSUME SessionInv, KnownInv, LinkInv, NEW r \in Request, ServedStep(r)
  PROVE  LinkInv'
<1>0. TypeOK /\ AuthInv /\ ClientInv /\ UNCHANGED <<storage, tab, call>>
  BY DEF SessionInv, AuthInv, ServedStep, clientVars
<1>1. CallsInv'
  BY <1>0 DEF LinkInv, CallsInv
<1>2. ASSUME NEW b \in Tab, tab[b].refresh # NoRequest
      PROVE  ~Unread(tab[b].refresh) /\ tab[b].refresh \in Request
  BY <1>0, <1>2 DEF Unread, ClientInv, TabState
<1>3. ASSUME NEW k \in Calls, call[k].at = "serving"
      PROVE  ~Unread(call[k].request) /\ call[k].request \in Request
  BY <1>0, <1>3 DEF Unread, ClientInv, Attended
<1>4. HoldInv'
  BY <1>0, <1>2, <1>3, ServedKeeps DEF LinkInv, HoldInv
<1>5. FreshInv'
  <2>1. ASSUME \A q \in Request : req'[q].fresh \in {NoToken, req[q].fresh}
        PROVE  FreshInv'
    BY <2>1 DEF LinkInv, FreshInv
  <2>2. ASSUME NEW n \in Token, Issue(r, n)
        PROVE  FreshInv'
    <3>1. /\ req'[r].fresh = n /\ token[n].at = "unissued"
          /\ \A q \in Request \ {r} : req'[q] = req[q]
      BY <1>0, <2>2, IssueIs DEF Moves
    <3>2. \A q \in Request : req[q].fresh # n
      BY <3>1, AuthAssumption DEF KnownInv, Known
    <3> QED
      BY <3>1, <3>2 DEF LinkInv, FreshInv
  <2>3. CASE Reads(r) \/ Revoke(r)
    BY <1>0, <2>1, <2>3, RevokeIs DEF Reads, Moves
  <2>4. CASE Finish(r)
    BY <1>0, <2>1, <2>4, FinishIs DEF Idle
  <2> QED
    BY <2>2, <2>3, <2>4 DEF ServedStep
<1> QED
  BY <1>1, <1>4, <1>5 DEF LinkInv

LEMMA ServedPrivate ==
  ASSUME SessionInv, KnownInv, FlightInv, NEW r \in Request, ServedStep(r)
  PROVE  PrivateInv'
<1>0. /\ TypeOK /\ AuthInv /\ ClientInv /\ LinkInv /\ PrivateInv
      /\ UNCHANGED <<storage, tab, call>>
  BY DEF SessionInv, AuthInv, FlightInv, ServedStep, clientVars
<1> SUFFICES ASSUME NEW p \in Request, ~Unread(p)', req'[p].fresh # NoToken
             PROVE  Private(req[p].fresh)'
  BY DEF PrivateInv
<1>1. ~Unread(p)
  BY <1>0, ServedKeeps
<1>2. ASSUME req'[p].fresh = req[p].fresh, req[p].fresh \in Token,
             token'[req[p].fresh].at # "revoked"
      PROVE  Private(req[p].fresh)'
  <2>1. Private(req[p].fresh)
    BY <1>0, <1>1, <1>2 DEF PrivateInv
  <2>2. \A q \in Request : req'[q].token # req[p].fresh
    BY <1>0, <1>2, <2>1, ServedKeeps, AuthAssumption DEF Private
  <2> QED
    BY <1>0, <1>2, <2>1, <2>2 DEF Private
<1>3. req[p].fresh # NoToken => req[p].fresh \in Token /\ token[req[p].fresh].at # "revoked"
                                /\ \A q \in Request : req[q].token # req[p].fresh
  BY <1>0, <1>1 DEF KnownInv, Known, PrivateInv, Private
<1>4. CASE Reads(r)
  BY <1>2, <1>3, <1>4 DEF Reads, Moves
<1>5. CASE Revoke(r)
  <2>1. req'[p].fresh = req[p].fresh
    BY <1>0, <1>5, RevokeIs DEF Moves
  <2>2. token'[req[p].fresh].at # "revoked"
    BY <1>0, <1>3, <1>5, <2>1, RevokeIs
  <2> QED
    BY <1>2, <1>3, <2>1, <2>2
<1>6. ASSUME NEW n \in Token, Issue(r, n)
      PROVE  Private(req[p].fresh)'
  <2>1. /\ req'[r].fresh = n /\ token[n].at = "unissued" /\ token'[n].at = "active"
        /\ \A q \in Request \ {r} : req'[q] = req[q]
        /\ \A t \in Token \ {n} : token'[t] = token[t]
    BY <1>0, <1>6, IssueIs DEF Moves
  <2>2. CASE p = r
    <3>1. storage # n /\ \A k \in Calls : call[k].token # n
      BY <2>1, AuthAssumption DEF KnownInv, Known
    <3>2. \A q \in Request : req[q].token # n
      BY <1>0, <2>1, AuthAssumption DEF AuthInv, RequestInv, Learnt
    <3>3. \A q \in Request : req'[q].token # n
      BY <1>0, <3>2, ServedKeeps, AuthAssumption
    <3> QED
      BY <1>0, <2>1, <2>2, <3>1, <3>3 DEF Private
  <2>3. CASE p # r
    <3>1. req'[p] = req[p] /\ req[p].fresh \in Token
      BY <1>3, <2>1, <2>3
    <3> QED
      BY <1>2, <1>3, <2>1, <3>1
  <2> QED
    BY <2>2, <2>3
<1>7. CASE Finish(r) /\ Unread(r)
  BY <1>0, <1>1, <1>2, <1>3, <1>7, FinishIs
<1> QED
  BY <1>4, <1>5, <1>6, <1>7 DEF ServedStep

LEMMA ServedLossless ==
  ASSUME SessionInv, FlightInv, NEW r \in Request, ServedStep(r),
         losses' = 0 => losses = 0 /\ (req[r].at \in Running => req'[r].at # "failed")
  PROVE  Lossless'
<1>0. /\ TypeOK /\ AuthInv /\ ClientInv /\ LinkInv /\ Lossless
      /\ UNCHANGED <<storage, tab, call>>
  BY DEF SessionInv, AuthInv, FlightInv, ServedStep, clientVars
<1> SUFFICES ASSUME losses' = 0
             PROVE  /\ \A q \in Request : req'[q].at # "failed" /\ (req'[q].at \in Running => ~Unread(q)')
                    /\ storage # NoToken /\ token'[storage].at = "revoked" =>
                         \E q \in Request : Revoker(q, storage)'
  BY <1>0 DEF Lossless
<1>1. /\ \A q \in Request : req[q].at # "failed" /\ (req[q].at \in Running => ~Unread(q))
      /\ storage # NoToken /\ token[storage].at = "revoked" => \E q \in Request : Revoker(q, storage)
  BY <1>0 DEF Lossless
<1>2. \A q \in Request : Unread(q)' <=> Unread(q)
  BY <1>0, ServedKeeps
<1>3. ASSUME \A q \in Request : Revoker(q, storage) => Revoker(q, storage)',
             storage # NoToken => token'[storage].at = token[storage].at \/ token'[storage].at # "revoked"
      PROVE  storage # NoToken /\ token'[storage].at = "revoked" =>
               \E q \in Request : Revoker(q, storage)'
  BY <1>1, <1>3
<1>4. storage # NoToken => storage \in Token
  BY <1>0 DEF ClientInv
<1>5. CASE Reads(r) \/ Revoke(r) \/ \E n \in Token : Issue(r, n)
  <2>0. Moves(r)
    BY <1>0, <1>5, RevokeIs, IssueIs DEF Reads
  <2>1. \A q \in Request : req'[q].at # "failed" /\ (req'[q].at \in Running => ~Unread(q)')
    BY <1>1, <1>2, <2>0 DEF Moves
  <2>2. CASE Reads(r)
    <3>1. req[r].at # "issue"
      BY <2>1, <2>2 DEF Reads
    <3>2. \A q \in Request : Revoker(q, storage) => q # r
      BY <2>0, <3>1 DEF Revoker, Moves, Running
    <3>3. \A q \in Request : Revoker(q, storage) => Revoker(q, storage)'
      BY <1>0, <1>2, <2>0, <3>2 DEF Revoker, Moves
    <3> QED
      BY <1>3, <2>1, <2>2, <3>3 DEF Reads
  <2>3. CASE Revoke(r)
    <3>1. /\ req'[r].at \in {"issue", "ok"} /\ req'[r].token = req[r].token
          /\ \A t \in Token : token'[t].at = IF t = req[r].token THEN "revoked" ELSE token[t].at
      BY <1>0, <2>3, RevokeIs DEF Moves
    <3>2. \A q \in Request : Revoker(q, storage) => Revoker(q, storage)'
      BY <1>0, <1>2, <2>0, <3>1 DEF Revoker, Moves
    <3>3. CASE storage = req[r].token
      <4>1. Revoker(r, storage)'
        BY <1>0, <1>1, <1>2, <2>0, <3>1, <3>3 DEF Revoker, Moves
      <4> QED
        BY <2>1, <4>1
    <3>4. CASE storage # req[r].token
      BY <1>3, <1>4, <2>1, <3>1, <3>2, <3>4
    <3> QED
      BY <3>3, <3>4
  <2>4. ASSUME NEW n \in Token, Issue(r, n)
        PROVE  \A q \in Request : Revoker(q, storage) => Revoker(q, storage)'
    BY <1>0, <1>2, <2>0, <2>4, IssueIs DEF Revoker, Moves
  <2>5. ASSUME NEW n \in Token, Issue(r, n)
        PROVE  storage # NoToken => token'[storage].at = token[storage].at \/ token'[storage].at # "revoked"
    BY <1>0, <1>4, <2>5, IssueIs
  <2> QED
    BY <1>3, <1>5, <2>1, <2>2, <2>3, <2>4, <2>5
<1>6. CASE Finish(r) /\ Unread(r)
  <2>1. req'[r] = Idle /\ UNCHANGED token /\ \A q \in Request \ {r} : req'[q] = req[q]
    BY <1>0, <1>6, FinishIs
  <2>2. \A q \in Request : Revoker(q, storage) => Revoker(q, storage)'
    BY <1>0, <1>2, <1>6, <2>1 DEF Revoker
  <2>3. \A q \in Request : req'[q].at # "failed" /\ (req'[q].at \in Running => ~Unread(q)')
    BY <1>1, <1>2, <2>1 DEF Idle, Running
  <2> QED
    BY <1>3, <2>1, <2>2, <2>3
<1> QED
  BY <1>5, <1>6 DEF ServedStep

\* Whose answer is awaited is awaited by a tab, or by a logout with its token.
LEMMA AwaitedBy ==
  ASSUME AuthInv, LinkInv, NEW q \in Request, ~Unread(q), req[q].token # NoToken
  PROVE  \/ \E k \in Calls : call[k].kind = "logout" /\ call[k].token = req[q].token
         \/ \E c \in Tab : tab[c].refresh = q
<1>1. CASE \E c \in Tab : tab[c].refresh = q
  BY <1>1
<1>2. ASSUME NEW k \in Calls, call[k].request = q
      PROVE  call[k].kind = "logout" /\ call[k].token = req[q].token
  <2>1. call[k].at = "serving"
    BY <1>2, SessionAssumption DEF LinkInv, CallsInv
  <2>2. req[q].op = call[k].kind /\ req[q].op \in {"login", "register", "logout"}
    BY <1>2, <2>1 DEF LinkInv, HoldInv
  <2>3. req[q].op = "logout"
    BY <2>2 DEF AuthInv, RequestInv, Learnt
  <2> QED
    BY <1>2, <2>1, <2>2, <2>3 DEF LinkInv, HoldInv
<1> QED
  BY <1>1, <1>2 DEF Unread

LEMMA ServedRefused ==
  ASSUME SessionInv, FlightInv, NEW r \in Request, ServedStep(r),
         losses' = 0 => losses = 0 /\ (req[r].at \in Running => req'[r].at # "failed")
  PROVE  RefusedOnlyIfOver'
<1>0. /\ TypeOK /\ AuthInv /\ ClientInv /\ LinkInv /\ Lossless /\ RefusedOnlyIfOver
      /\ UNCHANGED <<storage, tab, call>>
  BY DEF SessionInv, AuthInv, FlightInv, ServedStep, clientVars
<1> SUFFICES ASSUME NEW b \in Tab, losses' = 0, tab[b].refresh # NoRequest,
                    req'[tab[b].refresh].at = "refused",
                    token'[req'[tab[b].refresh].token].at # "expired",
                    storage = req'[tab[b].refresh].token
             PROVE  \/ \E k \in Calls : call[k].kind = "logout" /\ call[k].token = storage
                    \/ \E c \in Tab \ {b} :
                         tab[c].refresh # NoRequest /\ req'[tab[c].refresh].token = storage
  BY <1>0 DEF RefusedOnlyIfOver
<1> DEFINE q == tab[b].refresh
<1>1. \A c \in Tab : tab[c].refresh # NoRequest =>
        tab[c].refresh \in Request /\ req'[tab[c].refresh].token = req[tab[c].refresh].token
  BY <1>0, ServedKeeps DEF Unread, ClientInv, TabState
<1>2. /\ q \in Request /\ ~Unread(q) /\ req[q].op = "refresh" /\ req[q].token = storage
      /\ storage \in Token /\ storage # NoToken
  BY <1>0, <1>1, AuthAssumption DEF Unread, LinkInv, HoldInv, AuthInv, RequestInv, Learnt
<1>3. ASSUME NEW p \in Request \ {q}, ~Unread(p), req[p].token = storage
      PROVE  \/ \E k \in Calls : call[k].kind = "logout" /\ call[k].token = storage
             \/ \E c \in Tab \ {b} :
                  tab[c].refresh # NoRequest /\ req'[tab[c].refresh].token = storage
  BY <1>0, <1>1, <1>2, <1>3, AwaitedBy, SessionAssumption
<1>4. CASE req[q].at = "refused"
  <2>1. CASE token[storage].at # "expired"
    BY <1>0, <1>1, <1>2, <1>4, <2>1 DEF RefusedOnlyIfOver
  <2>2. CASE token[storage].at = "expired"
    <3>1. Revoke(r) /\ req[r].token = storage
      BY <1>0, <1>1, <1>2, <2>2, IssueIs, RevokeIs, FinishIs DEF ServedStep, Reads
    <3>2. r # q /\ ~Unread(r)
      BY <1>0, <1>4, <3>1 DEF Revoke, Lossless, Running
    <3> QED
      BY <1>3, <3>1, <3>2
  <2> QED
    BY <2>1, <2>2
<1>5. CASE req[q].at # "refused"
  <2>1. Reads(r) /\ r = q
    BY <1>0, <1>2, <1>5, IssueIs, RevokeIs, FinishIs DEF ServedStep, Reads, Moves
  <2>2. req[q].at = "find" /\ ~Active(storage) /\ UNCHANGED token
    BY <1>2, <2>1 DEF Reads
  <2>3. token[storage].at = "revoked"
    <3>1. token[storage].at # "unissued"
      BY <1>0, <1>2 DEF AuthInv, RequestInv, Learnt
    <3>2. token[storage].at \in {"active", "revoked", "expired"}
      BY <1>0, <1>2, <3>1, IssuedRow
    <3> QED
      BY <1>1, <1>2, <2>2, <3>2 DEF Active
  <2>4. PICK p \in Request : Revoker(p, storage)
    BY <1>0, <1>2, <2>3 DEF Lossless
  <2> QED
    BY <1>3, <2>2, <2>4 DEF Revoker
<1> QED
  BY <1>4, <1>5

LEMMA Served ==
  ASSUME SessionInv, KnownInv, FlightInv, NEW r \in Request, ServedStep(r),
         losses' = 0 => losses = 0 /\ (req[r].at \in Running => req'[r].at # "failed")
  PROVE  FlightInv'
<1>1. LinkInv
  BY DEF FlightInv
<1> QED
  BY <1>1, ServedLinks, ServedPrivate, ServedLossless, ServedRefused DEF FlightInv

LEMMA ExpireFlight ==
  ASSUME SessionInv, FlightInv, NEW t \in Token, Expire(t), UNCHANGED <<clientVars, losses>>
  PROVE  FlightInv'
<1>0. TypeOK /\ ClientInv
  BY DEF SessionInv, AuthInv
<1>1. UNCHANGED <<req, storage, tab, call, losses>> /\ \A r \in Request : Unread(r)' <=> Unread(r)
  BY DEF Expire, clientVars, Unread
<1>2. \A s \in Token : token'[s].at = IF s = t THEN "expired" ELSE token[s].at
  BY <1>0, ExpireIs
<1>3. LinkInv'
  BY <1>1 DEF FlightInv, LinkInv, CallsInv, HoldInv, FreshInv
<1>4. PrivateInv'
  <2> SUFFICES ASSUME NEW r \in Request, ~Unread(r), req[r].fresh # NoToken
               PROVE  Private(req[r].fresh)'
    BY <1>1 DEF PrivateInv
  <2>1. Private(req[r].fresh) /\ req[r].fresh \in Token
    BY <1>0 DEF FlightInv, PrivateInv, TypeOK, RequestState
  <2> QED
    BY <1>1, <1>2, <2>1 DEF Private
<1>5. Lossless'
  BY <1>0, <1>1, <1>2 DEF FlightInv, Lossless, Revoker, ClientInv
<1>6. RefusedOnlyIfOver'
  <2>1. ASSUME NEW b \in Tab, tab[b].refresh # NoRequest
        PROVE  req[tab[b].refresh].token \in Token
    BY <1>0, <2>1
       DEF FlightInv, LinkInv, HoldInv, SessionInv, AuthInv, RequestInv, Learnt, ClientInv, TabState
  <2> QED
    BY <1>1, <1>2, <2>1 DEF FlightInv, RefusedOnlyIfOver
<1> QED
  BY <1>3, <1>4, <1>5, <1>6 DEF FlightInv

-----------------------------------------------------------------------------
(* Every step.                                                             *)

\* A call that is not idle is that of an open tab.
LEMMA Busy ==
  ASSUME ClosedInv, NEW k \in Calls, call[k].at # "idle"
  PROVE  k[1] \in Tab /\ tab[k[1]].status # "closed"
BY SessionAssumption DEF ClosedInv, CallsOf

LEMMA CallClosed ==
  ASSUME ClientInv, ClosedInv, NEW k \in Calls, tab[k[1]].status # "closed",
         NEW w, w.status # "closed", tab' = [tab EXCEPT ![k[1]] = w] \/ UNCHANGED tab,
         \A j \in Calls \ {k} : call'[j] = call[j]
  PROVE  ClosedInv'
<1>1. \A b \in Tab : tab'[b].status = "closed" => b # k[1] /\ tab'[b] = tab[b]
  BY DEF ClientInv
<1>2. \A b \in Tab : \A j \in CallsOf(b) : b # k[1] => call'[j] = call[j]
  BY DEF CallsOf
<1> QED
  BY <1>1, <1>2 DEF ClosedInv, CallsOf

LEMMA OpenValues ==
  ASSUME NEW w \in TabState
  PROVE  /\ Cleared(w).status # "closed" /\ Established(w).status # "closed"
         /\ \A r : [w EXCEPT !.refresh = r].status = w.status
BY DEF TabState, Cleared, Established

LEMMA ThrowCloses ==
  ASSUME ClientInv, ClosedInv, NEW k \in Calls, Throw(k), call[k].at # "idle"
  PROVE  ClosedInv'
<1>1. k[1] \in Tab /\ tab[k[1]].status # "closed" /\ tab[k[1]] \in TabState
  BY Busy DEF ClientInv
<1>2. Cleared(tab[k[1]]).status # "closed"
  BY <1>1, OpenValues
<1>3. tab' = [tab EXCEPT ![k[1]] = Cleared(tab[k[1]])] \/ UNCHANGED tab
  BY DEF Throw, SignOut
<1>4. \A j \in Calls \ {k} : call'[j] = call[j]
  BY DEF Throw, EndCall, ClientInv
<1> QED
  BY <1>1, <1>2, <1>3, <1>4, CallClosed

LEMMA UnauthorizedCloses ==
  ASSUME ClientInv, ClosedInv, NEW k \in Calls, Unauthorized(k), call[k].at # "idle"
  PROVE  ClosedInv'
<1>1. k[1] \in Tab /\ tab[k[1]].status # "closed" /\ tab[k[1]] \in TabState
  BY Busy DEF ClientInv
<1>2. CASE Throw(k)
  BY <1>2, ThrowCloses
<1>3. ASSUME NEW r, \A j \in Calls \ {k} : call'[j] = call[j],
             tab' = [tab EXCEPT ![k[1]] = [tab[k[1]] EXCEPT !.refresh = r]] \/ UNCHANGED tab
      PROVE  ClosedInv'
  <2>1. [tab[k[1]] EXCEPT !.refresh = r].status # "closed"
    BY <1>1, OpenValues
  <2> QED
    BY <1>1, <1>3, <2>1, CallClosed
<1>4. ~MayRefresh(k) \/ \A j \in Calls \ {k} : call'[j] = call[j]
  BY DEF Unauthorized, ClientInv
<1> QED
  BY <1>2, <1>3, <1>4 DEF Unauthorized

LEMMA CallStepCloses ==
  ASSUME ClientInv, ClosedInv, NEW k \in Calls, CallStep(k) \/ LoseCall(k)
  PROVE  ClosedInv'
<1>0. call[k].at # "idle"
  BY DEF CallStep, LoseCall, ApiAnswered, Rejected, NothingToRevoke, Admitted, SignedIn, LoginRefused,
         CallEnds
<1>1. k[1] \in Tab /\ tab[k[1]].status # "closed" /\ tab[k[1]] \in TabState
  BY <1>0, Busy DEF ClientInv
<1>2. ASSUME UNCHANGED tab, \A j \in Calls \ {k} : call'[j] = call[j]
      PROVE  ClosedInv'
  BY <1>1, <1>2, CallClosed
<1>3. CASE ApiAnswered(k)
  BY <1>2, <1>3 DEF ApiAnswered, EndCall, ClientInv
<1>4. ASSUME NEW r \in Request, Admitted(k, r)
      PROVE  ClosedInv'
  BY <1>2, <1>4 DEF Admitted, ClientInv
<1>5. CASE SignedIn(k)
  <2>1. Established(tab[k[1]]).status # "closed"
    BY <1>1, OpenValues
  <2>2. tab' = [tab EXCEPT ![k[1]] = Established(tab[k[1]])] /\ \A j \in Calls \ {k} : call'[j] = call[j]
    BY <1>5 DEF SignedIn, EndCall, ClientInv
  <2> QED
    BY <1>1, <2>1, <2>2, CallClosed
<1>6. CASE NothingToRevoke(k) \/ CallEnds(k) \/ LoseCall(k)
  BY <1>0, <1>6, ThrowCloses DEF NothingToRevoke, CallEnds, LoseCall
<1>7. CASE Rejected(k) \/ LoginRefused(k)
  BY <1>0, <1>7, UnauthorizedCloses DEF Rejected, LoginRefused
<1> QED
  BY <1>3, <1>4, <1>5, <1>6, <1>7 DEF CallStep

\* A step of a tab leaves that tab open, or without anything in flight.
LEMMA TabCloses ==
  ASSUME ClientInv, ClosedInv, NEW b \in Tab,
         \A c \in Tab \ {b} : tab'[c].status = tab[c].status /\ tab'[c].refresh = tab[c].refresh,
         \A k \in Calls : k[1] # b => call'[k] = call[k],
         tab'[b].status = "closed" => tab'[b].refresh = NoRequest /\ \A k \in CallsOf(b) : call'[k].at = "idle"
  PROVE  ClosedInv'
<1> SUFFICES ASSUME NEW c \in Tab, tab'[c].status = "closed"
             PROVE  tab'[c].refresh = NoRequest /\ \A k \in CallsOf(c) : call'[k].at = "idle"
  BY DEF ClosedInv, CallsOf
<1>1. CASE c = b
  BY <1>1
<1>2. CASE c # b
  BY <1>2 DEF ClosedInv, CallsOf
<1> QED
  BY <1>1, <1>2

LEMMA ClosedStep ==
  ASSUME ClientInv, ClosedInv, [SessionNext]_sessionVars
  PROVE  ClosedInv'
<1>1. ASSUME NEW b \in Tab, RefreshOk(b) \/ RefreshEnds(b) \/ LoseRefresh(b) \/ OpenTab(b) \/ CloseTab(b)
      PROVE  ClosedInv'
  <2>0. tab \in [Tab -> TabState] /\ tab[b] \in TabState
    BY DEF ClientInv
  <2>1. \A k \in Calls : k[1] # b => call'[k] = call[k]
    BY <1>1 DEF RefreshOk, RefreshEnds, LoseRefresh, RefreshRejected, OpenTab, CloseTab, Waiting, CallsOf
  <2>2. \A c \in Tab \ {b} : tab'[c] = tab[c]
    BY <1>1, <2>0 DEF RefreshOk, RefreshEnds, LoseRefresh, RefreshRejected, OpenTab, CloseTab
  <2>3. CASE CloseTab(b)
    <3>1. tab'[b].refresh = NoRequest /\ \A k \in CallsOf(b) : call'[k].at = "idle"
      BY <2>0, <2>3 DEF CloseTab, Closed, CallsOf, NoCall
    <3> QED
      BY <2>1, <2>2, <3>1, TabCloses
  <2>4. CASE OpenTab(b)
    <3>1. PICK r \in Request \cup {NoRequest} :
            \/ tab' = [tab EXCEPT ![b] = [tab[b] EXCEPT !.status = "anonymous"]]
            \/ tab' = [tab EXCEPT ![b] = [tab[b] EXCEPT !.status = "bootstrapping", !.refresh = r]]
      BY <2>4 DEF OpenTab
    <3>2. /\ [tab[b] EXCEPT !.status = "anonymous"].status # "closed"
          /\ [tab[b] EXCEPT !.status = "bootstrapping", !.refresh = r].status # "closed"
      BY <2>0 DEF TabState
    <3>3. tab'[b].status # "closed"
      BY <2>0, <3>1, <3>2
    <3> QED
      BY <2>1, <2>2, <3>3, TabCloses
  <2>5. CASE RefreshOk(b) \/ RefreshEnds(b) \/ LoseRefresh(b)
    <3>1. tab'[b] \in {[Established(tab[b]) EXCEPT !.refresh = NoRequest],
                       [Cleared(tab[b]) EXCEPT !.refresh = NoRequest]}
      BY <2>0, <2>5 DEF RefreshOk, RefreshEnds, LoseRefresh, RefreshRejected
    <3>2. /\ [Established(tab[b]) EXCEPT !.refresh = NoRequest].status # "closed"
          /\ [Cleared(tab[b]) EXCEPT !.refresh = NoRequest].status # "closed"
      BY <2>0 DEF TabState, Established, Cleared
    <3> QED
      BY <2>1, <2>2, <3>1, <3>2, TabCloses
  <2> QED
    BY <1>1, <2>3, <2>4, <2>5
<1>2. ASSUME NEW b \in Tab, AccessExpires(b)
      PROVE  ClosedInv'
  <2>1. \A c \in Tab : tab'[c].status = tab[c].status /\ tab'[c].refresh = tab[c].refresh
    BY <1>2 DEF AccessExpires, ClientInv, TabState
  <2>2. \A k \in Calls : [call[k] EXCEPT !.bearer = "stale"].at = call[k].at
    BY DEF ClientInv, CallState
  <2>3. \A k \in Calls : call'[k].at = call[k].at
    BY <1>2, <2>2 DEF AccessExpires
  <2> QED
    BY <2>1, <2>3 DEF ClosedInv, CallsOf
<1>3. ASSUME NEW k \in Calls, CallStep(k) \/ LoseCall(k)
      PROVE  ClosedInv'
  BY <1>3, CallStepCloses
<1>4. ASSUME NEW k \in Calls, NEW kind \in {"api", "login", "register", "logout"}, Send(k, kind)
      PROVE  ClosedInv'
  <2>1. tab[k[1]].status # "closed" /\ UNCHANGED tab
    BY <1>4 DEF Send
  <2>2. \A j \in Calls \ {k} : call'[j] = call[j]
    BY <1>4 DEF Send, ClientInv
  <2> QED
    BY <2>1, <2>2, CallClosed
<1>5. CASE UNCHANGED clientVars
  BY <1>5 DEF clientVars, ClosedInv, CallsOf
<1> QED
  BY <1>1, <1>2, <1>3, <1>4, <1>5 DEF SessionNext, ServerStep, TokenExpires, sessionVars

LEMMA CallFlight ==
  ASSUME SessionInv, FlightInv, NEW k \in Calls, CallStep(k) \/ LoseCall(k)
  PROVE  FlightInv'
<1>0. ClientInv /\ LinkInv
  BY DEF SessionInv, FlightInv
<1>1. CASE ApiAnswered(k)
  BY <1>0, <1>1, ApiAnsweredLeaves, Leaves
<1>2. CASE Rejected(k) \/ LoginRefused(k)
  BY <1>2, UnauthorizedStep DEF Rejected, LoginRefused
<1>3. CASE NothingToRevoke(k) \/ CallEnds(k) \/ LoseCall(k)
  <2>1. losses' = losses \/ Lose
    BY <1>3 DEF NothingToRevoke, CallEnds, LoseCall
  <2>2. losses' = 0 => losses = 0 /\ losses' = losses
    BY <1>0, <2>1, NothingUnlost
  <2>3. LoseCall(k) => losses' # 0
    BY <1>0 DEF LoseCall, Lose, ClientInv
  <2>4. Throw(k) /\ UNCHANGED authVars
    BY <1>3 DEF NothingToRevoke, CallEnds, LoseCall
  <2>5. call[k].at = "serving" /\ losses' = 0 => req[call[k].request].at \in Answered
    BY <1>3, <2>3 DEF NothingToRevoke, CallEnds, Answered
  <2> QED
    BY <1>0, <2>2, <2>4, <2>5, ThrowLeaves, Leaves
<1>4. CASE SignedIn(k)
  BY <1>4, SignedInLeaves, Leaves
<1>5. ASSUME NEW r \in Request, Admitted(k, r)
      PROVE  FlightInv'
  BY <1>5, AdmittedStep
<1> QED
  BY <1>1, <1>2, <1>3, <1>4, <1>5 DEF CallStep

LEMMA TabFlight ==
  ASSUME SessionInv, ClosedInv, FlightInv, NEW b \in Tab,
         \/ OpenTab(b) \/ CloseTab(b) \/ AccessExpires(b) \/ RefreshOk(b)
         \/ RefreshEnds(b) \/ LoseRefresh(b)
  PROVE  FlightInv'
<1>0. ClientInv /\ Lossless
  BY DEF SessionInv, FlightInv
<1>1. CASE OpenTab(b)
  BY <1>1, OpenTabStep
<1>2. CASE CloseTab(b)
  BY <1>2, CloseTabLeaves, Leaves
<1>3. CASE AccessExpires(b)
  BY <1>0, <1>3, AccessExpiresLeaves, Leaves
<1>4. CASE RefreshOk(b)
  BY <1>4, RefreshOkLeaves, Leaves
<1>5. CASE RefreshEnds(b)
  <2>1. tab[b].refresh \in Request /\ tab[b].refresh # NoRequest
    BY <1>0, <1>5 DEF RefreshEnds, ClientInv, TabState
  <2>2. losses' = 0 => req[tab[b].refresh].at = "refused"
    BY <1>0, <1>5, <2>1 DEF RefreshEnds, Lossless
  <2> QED
    BY <1>5, <2>1, <2>2, RefreshRejectedLeaves, Leaves DEF RefreshEnds, Answered
<1>6. CASE LoseRefresh(b)
  <2>1. losses' # 0
    BY <1>0, <1>6 DEF LoseRefresh, Lose, ClientInv
  <2> QED
    BY <1>6, <2>1, RefreshRejectedLeaves, Leaves DEF LoseRefresh
<1> QED
  BY <1>1, <1>2, <1>3, <1>4, <1>5, <1>6

LEMMA StatementSucceeds ==
  ASSUME TypeOK, NEW r \in Request, Statement(r)
  PROVE  req'[r].at # "failed"
<1>0. req[r] \in RequestState
  BY DEF TypeOK
<1>1. ASSUME NEW c, Set(r, c), c.at # "failed"
      PROVE  req'[r].at # "failed"
  BY <1>1 DEF Set, TypeOK
<1>2. CASE CountUsers(r)
  <2> DEFINE c == [req[r] EXCEPT !.at = "create", !.first = NoUsers]
  <2> HIDE DEF NoUsers
  <2>1. c.at = "create" /\ Set(r, c)
    BY <1>0, <1>2 DEF RequestState, CountUsers
  <2> QED
    BY <1>1, <2>1
<1>3. CASE CreateUser(r) \/ FindUser(r) \/ Revoke(r) \/ \E n \in Token : Issue(r, n)
  <2>1. PICK at \in {"issue", "refused", "ok"}, n \in Token \cup {NoToken} :
          Set(r, [req[r] EXCEPT !.at = at]) \/ Set(r, [req[r] EXCEPT !.at = at, !.fresh = n])
    BY <1>3 DEF CreateUser, FindUser, Revoke, Issue
  <2>2. /\ [req[r] EXCEPT !.at = at].at # "failed"
        /\ [req[r] EXCEPT !.at = at, !.fresh = n].at # "failed"
    BY <1>0 DEF RequestState
  <2> QED
    BY <1>1, <2>1, <2>2
<1>4. CASE FindActive(r)
  <2>1. PICK at \in {"revoke", "refused", "ok"} :
          \/ Set(r, [req[r] EXCEPT !.at = at])
          \/ Set(r, [req[r] EXCEPT !.at = at, !.account = AccountOf(req[r].token)])
    BY <1>4 DEF FindActive
  <2>2. /\ [req[r] EXCEPT !.at = at].at # "failed"
        /\ [req[r] EXCEPT !.at = at, !.account = AccountOf(req[r].token)].at # "failed"
    BY <1>0 DEF RequestState
  <2> QED
    BY <1>1, <2>1, <2>2
<1> QED
  BY <1>2, <1>3, <1>4 DEF Statement

LEMMA ServerFlight ==
  ASSUME SessionInv, KnownInv, FlightInv, NEW r \in Request, ServerStep(r)
  PROVE  FlightInv'
<1>0. AuthInv /\ ClientInv /\ UNCHANGED clientVars
  BY DEF SessionInv, ServerStep
<1>1. losses' = 0 => losses = 0 /\ losses' = losses
  BY <1>0, NothingUnlost DEF ServerStep
<1>2. ServedStep(r)
  BY <1>0, ReadsIs DEF ServerStep, Statement, ServedStep
<1>3. ASSUME losses' = 0, req[r].at \in Running
      PROVE  req'[r].at # "failed"
  <2>1. Statement(r)
    BY <1>0, <1>3 DEF ServerStep, Lose, ClientInv, Finish, Running, Answered
  <2> QED
    BY <1>0, <2>1, StatementSucceeds DEF AuthInv
<1> QED
  BY <1>1, <1>2, <1>3, Served

LEMMA FlightStep ==
  ASSUME SessionInv, KnownInv, ClosedInv, FlightInv, [SessionNext]_sessionVars
  PROVE  FlightInv'
<1>1. ASSUME NEW k \in Calls, NEW kind \in {"api", "login", "register", "logout"}, Send(k, kind)
      PROVE  FlightInv'
  BY <1>1, SendLeaves, Leaves
<1>2. ASSUME NEW t \in Token, TokenExpires(t)
      PROVE  FlightInv'
  BY <1>2, ExpireFlight DEF TokenExpires
<1>3. CASE UNCHANGED sessionVars
  <2>1. LeaveStep
    BY <1>3 DEF sessionVars, clientVars, LeaveStep, TabLeft, CallKept
  <2> QED
    BY <2>1, Leaves
<1> QED
  BY <1>1, <1>2, <1>3, CallFlight, TabFlight, ServerFlight DEF SessionNext

LEMMA FlightAlways == SessionSpec => [](SessionInv /\ ClosedInv /\ FlightInv)
<1>1. SessionInv /\ ClosedInv /\ [SessionNext]_sessionVars => ClosedInv'
  BY ClosedStep DEF SessionInv
<1>2. SessionInv /\ KnownInv /\ ClosedInv /\ FlightInv /\ [SessionNext]_sessionVars => FlightInv'
  BY FlightStep
<1> QED
  BY SessionAlways, FlightStart, <1>1, <1>2, PTL DEF SessionSpec

-----------------------------------------------------------------------------
\* While every answer arrives, a token in storage is revoked only by a request
\* whose answer will replace it: a tab that reloads finds a session it can renew.
THEOREM StoredTokens == SessionSpec => []StoredTokenAlive
<1>1. FlightInv => StoredTokenAlive
  BY DEF FlightInv, Lossless, Revoker, StoredTokenAlive
<1> QED
  BY <1>1, FlightAlways, PTL

\* While every answer arrives, the server never works on more refreshes than
\* there are tabs that wait for one.
THEOREM OneRefreshEach == SessionSpec => []SingleFlight
<1>1. SessionInv /\ FlightInv => SingleFlight
  <2> SUFFICES ASSUME SessionInv, FlightInv, losses = 0
               PROVE  Cardinality({r \in Request : req[r].op = "refresh" /\ req[r].at \in Running})
                        <= Cardinality({b \in Tab : tab[b].refresh # NoRequest})
    BY DEF SingleFlight
  <2> DEFINE S == {r \in Request : req[r].op = "refresh" /\ req[r].at \in Running}
             T == {b \in Tab : tab[b].refresh # NoRequest}
             W == {b \in T : tab[b].refresh \in S}
             f == [b \in W |-> tab[b].refresh]
  <2>1. ASSUME NEW r \in S
        PROVE  \E b \in W : f[b] = r
    <3>1. ~Unread(r) /\ req[r].op = "refresh" /\ r # NoRequest
      BY SessionAssumption DEF FlightInv, Lossless
    <3>2. \A k \in Calls : call[k].request # r
      BY <3>1 DEF FlightInv, LinkInv, CallsInv, HoldInv
    <3> QED
      BY <3>1, <3>2 DEF Unread
  <2>2. f \in Surjection(W, S)
    BY <2>1 DEF Surjection
  <2>3. IsFiniteSet(T) /\ IsFiniteSet(W) /\ Cardinality(W) <= Cardinality(T)
    BY SessionAssumption, FS_Subset
  <2>4. IsFiniteSet(S) /\ Cardinality(S) <= Cardinality(W)
    BY <2>2, <2>3, FS_Surjection
  <2>5. Cardinality(S) \in Nat /\ Cardinality(W) \in Nat /\ Cardinality(T) \in Nat
    BY <2>3, <2>4, FS_CardinalityType
  <2> HIDE DEF S, T, W
  <2>6. Cardinality(S) <= Cardinality(T)
    BY <2>3, <2>4, <2>5
  <2> QED
    BY <2>6 DEF S, T
<1> QED
  BY <1>1, FlightAlways, PTL

\* While every answer arrives, a tab's refresh is refused only if the session it
\* renews is over: another tab, a logout or time has come first.
THEOREM RefusalsExplained == SessionSpec => []RefusedOnlyIfOver
<1>1. FlightInv => RefusedOnlyIfOver
  BY DEF FlightInv
<1> QED
  BY <1>1, FlightAlways, PTL
=============================================================================
