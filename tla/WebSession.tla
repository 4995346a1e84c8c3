------------------------------ MODULE WebSession ------------------------------
(***************************************************************************)
(* The browser's side of a session: shared/api/client.ts and features/auth *)
(* in each open tab, against AuthServer.  The refresh token is in          *)
(* localStorage, which all tabs share; the access token, the promise of a  *)
(* running refresh and the calls of apiFetch belong to one tab.  A task of *)
(* a tab runs to completion: what happens after an await up to the next    *)
(* one is one step.                                                        *)
(***************************************************************************)
EXTENDS AuthServer, FiniteSets, Naturals

CONSTANTS
  Tab,
  Calls,       \* the calls of apiFetch in flight at a time: <<tab, call>>
  NoRequest,   \* "no value"
  MaxLosses    \* bound: answers that never arrive, and failed statements

ASSUME SessionAssumption ==
  /\ \A k \in Calls : k[1] \in Tab
  /\ NoRequest \notin Request
  /\ IsFiniteSet(Tab)
  /\ MaxLosses \in Nat

VARIABLES
  storage,  \* localStorage "linktheca.refresh"
  tab,      \* useAuthStore and refreshPromise of each tab
  call,     \* the calls of apiFetch in flight
  losses    \* lost answers and failed statements so far

clientVars  == <<storage, tab, call>>
sessionVars == <<authVars, clientVars, losses>>

Closed    == [status |-> "closed", access |-> "none", refresh |-> NoRequest]
NoCall == [at |-> "idle", kind |-> "none", account |-> NoAccount, token |-> NoToken,
           bearer |-> "none", retry |-> FALSE, request |-> NoRequest]

\* clearSession and setSession leave a running refresh alone.
Cleared(w)     == [w EXCEPT !.status = "anonymous", !.access = "none"]
Established(w) == [w EXCEPT !.status = "authed", !.access = "valid"]

CallsOf(b) == {k \in Calls : k[1] = b}
Waiting(b) == {k \in CallsOf(b) : call[k].at = "waiting"}
Lose == losses < MaxLosses /\ losses' = losses + 1

\* Nobody waits for the answer.
Unread(r) ==
  /\ \A b \in Tab : tab[b].refresh # r
  /\ \A k \in Calls : call[k].request # r

\* Bound: no user starts anything that might find no token left to issue.  A
\* first try may start a refresh, and a login issues tokens itself.
SignsIn(kind) == kind \in {"login", "register"}
MayIssue ==
    Cardinality({k \in Calls : SignsIn(call[k].kind)})
  + Cardinality({k \in Calls : call[k].at \in {"sent", "serving"} /\ ~call[k].retry})
  + Cardinality({r \in Request : /\ req[r].at \in Running
                                 /\ SignsIn(req[r].op) => Unread(r)
                                 /\ req[r].op # "logout"})
Spare(n) == MayIssue + n <= Cardinality({t \in Token : token[t].at = "unissued"})

-----------------------------------------------------------------------------
(* What ends a call.                                                       *)

EndCall(k) == call' = [call EXCEPT ![k] = NoCall]

\* useLogout after logoutApi, whether it succeeded or threw.
SignOut(b) ==
  /\ storage' = NoToken
  /\ tab' = [tab EXCEPT ![b] = Cleared(@)]

\* The call throws; the caller of a logout clears the session all the same.
Throw(k) ==
  /\ EndCall(k)
  /\ IF call[k].kind = "logout" THEN SignOut(k[1]) ELSE UNCHANGED <<storage, tab>>

\* Mutant: refreshPromise is not looked at.
NoneRunning(b) == TRUE

RefreshIdle(b) == tab[b].refresh = NoRequest

MayRefresh(k) == ~call[k].retry /\ storage # NoToken

\* A 401: the first one waits for a refresh, which it starts if none is running.
Unauthorized(k) ==
  LET b == k[1] IN
  \/ /\ MayRefresh(k) /\ ~RefreshIdle(b)
     /\ call' = [call EXCEPT ![k].at = "waiting", ![k].request = NoRequest]
     /\ UNCHANGED <<storage, tab, authVars>>
  \/ /\ MayRefresh(k) /\ RefreshIdle(b)
     /\ call' = [call EXCEPT ![k].at = "waiting", ![k].request = NoRequest]
     /\ \E r \in Request :
          /\ Present(r, "refresh", storage)
          /\ tab' = [tab EXCEPT ![b].refresh = r]
     /\ UNCHANGED storage
  \/ ~MayRefresh(k) /\ Throw(k) /\ UNCHANGED authVars

-----------------------------------------------------------------------------
(* The user.                                                               *)

\* useBootstrap: a stored token is exchanged before anything is shown.
OpenTab(b) ==
  /\ tab[b].status = "closed"
  /\ \/ /\ storage = NoToken
        /\ tab' = [tab EXCEPT ![b].status = "anonymous"]
        /\ UNCHANGED authVars
     \/ /\ storage # NoToken /\ Spare(1)
        /\ \E r \in Request :
             /\ Present(r, "refresh", storage)
             /\ tab' = [tab EXCEPT ![b].status = "bootstrapping", ![b].refresh = r]
  /\ UNCHANGED <<storage, call, losses>>

\* Closed or reloaded: the tab forgets what it was waiting for.
CloseTab(b) ==
  /\ tab[b].status # "closed"
  /\ IF tab[b].refresh = NoRequest /\ \A k \in CallsOf(b) : call[k].at = "idle"
     THEN UNCHANGED losses ELSE Lose
  /\ tab' = [tab EXCEPT ![b] = Closed]
  /\ call' = [k \in Calls |-> IF k[1] = b THEN NoCall ELSE call[k]]
  /\ UNCHANGED <<storage, authVars>>

\* The pages call the API; a logout reads the stored token as it is now.
Send(k, kind) ==
  LET w == tab[k[1]] IN
  /\ call[k].at = "idle" /\ Spare(IF SignsIn(kind) THEN 2 ELSE 1)
  /\ \/ kind \in {"api", "logout"} /\ w.status = "authed"
     \/ SignsIn(kind) /\ w.status = "anonymous"
  /\ \E a \in Account :
       call' = [call EXCEPT ![k] =
         [NoCall EXCEPT !.at = "sent", !.kind = kind, !.bearer = w.access,
                        !.account = IF SignsIn(kind) THEN a ELSE NoAccount,
                        !.token = IF kind = "logout" THEN storage ELSE NoToken]]
  /\ UNCHANGED <<authVars, storage, tab, losses>>

\* The access token's lifetime ends, also for the calls that carry it.
AccessExpires(b) ==
  /\ tab[b].access = "valid"
  /\ tab' = [tab EXCEPT ![b].access = "stale"]
  /\ call' = [k \in Calls |->
       IF k[1] = b /\ call[k].bearer = "valid" THEN [call[k] EXCEPT !.bearer = "stale"]
       ELSE call[k]]
  /\ UNCHANGED <<authVars, storage, losses>>

-----------------------------------------------------------------------------
(* Requests reach the server, and answers the tab.                         *)

Protected(k) == call[k].kind \in {"api", "logout"}

\* RequireUser lets the call through: library, radar and /auth/me answer it.
ApiAnswered(k) ==
  /\ call[k].at = "sent" /\ call[k].kind = "api" /\ call[k].bearer = "valid"
  /\ EndCall(k)
  /\ UNCHANGED <<authVars, storage, tab, losses>>

\* RequireUser does not.
Rejected(k) ==
  /\ call[k].at = "sent" /\ Protected(k) /\ call[k].bearer # "valid"
  /\ Unauthorized(k)
  /\ UNCHANGED losses

\* The auth handlers get it.  /auth/logout is behind RequireUser as well.
Admitted(k, r) ==
  LET c == call[k] IN
  /\ c.at = "sent"
  /\ \/ c.kind = "login" /\ Login(r, c.account)
     \/ c.kind = "register" /\ Register(r, c.account)
     \/ c.kind = "logout" /\ c.bearer = "valid" /\ c.token # NoToken
        /\ Present(r, "logout", c.token)
  /\ call' = [call EXCEPT ![k].at = "serving", ![k].request = r]
  /\ UNCHANGED <<storage, tab, losses>>

\* A logout without a token: no row has its hash.
NothingToRevoke(k) ==
  /\ call[k].at = "sent" /\ call[k].kind = "logout" /\ call[k].bearer = "valid"
  /\ call[k].token = NoToken
  /\ Throw(k)
  /\ UNCHANGED <<authVars, losses>>

\* consumeAuthResponse after a login or a registration.
SignedIn(k) ==
  LET r == call[k].request IN
  /\ call[k].at = "serving" /\ SignsIn(call[k].kind) /\ req[r].at = "ok"
  /\ storage' = req[r].fresh
  /\ tab' = [tab EXCEPT ![k[1]] = Established(@)]
  /\ EndCall(k)
  /\ UNCHANGED <<authVars, losses>>

\* A wrong password is a 401 like any other: with a token in storage the client
\* refreshes that and tries again.
LoginRefused(k) ==
  /\ call[k].at = "serving" /\ call[k].kind = "login"
  /\ req[call[k].request].at = "refused"
  /\ Unauthorized(k)
  /\ UNCHANGED losses

CallEnds(k) ==
  LET answer == req[call[k].request].at IN
  /\ call[k].at = "serving"
  /\ \/ call[k].kind = "register" /\ answer = "refused"
     \/ call[k].kind = "logout" /\ answer = "ok"
     \/ answer = "failed"
  /\ Throw(k)
  /\ UNCHANGED <<authVars, losses>>

\* Mutant: the rotated refresh token is not stored.
RefreshNotStored(b) ==
  LET r == tab[b].refresh IN
  /\ r # NoRequest /\ req[r].at = "ok"
  /\ tab' = [tab EXCEPT ![b] = [Established(@) EXCEPT !.refresh = NoRequest]]
  /\ call' = [k \in Calls |->
       IF k \in Waiting(b)
       THEN [call[k] EXCEPT !.at = "sent", !.retry = TRUE, !.bearer = "valid"] ELSE call[k]]
  /\ UNCHANGED <<authVars, storage, losses>>

\* performRefresh stores the answer; every waiting call sends itself again with
\* the new access token.
RefreshOk(b) ==
  LET r == tab[b].refresh IN
  /\ r # NoRequest /\ req[r].at = "ok"
  /\ storage' = req[r].fresh
  /\ tab' = [tab EXCEPT ![b] = [Established(@) EXCEPT !.refresh = NoRequest]]
  /\ call' = [k \in Calls |->
       IF k \in Waiting(b)
       THEN [call[k] EXCEPT !.at = "sent", !.retry = TRUE, !.bearer = "valid"] ELSE call[k]]
  /\ UNCHANGED <<authVars, losses>>

\* Mutants: the waiting calls are not told; only a 401 clears the session.
NobodyTold(b, unauthorized) ==
  /\ tab' = [tab EXCEPT ![b] = [Cleared(@) EXCEPT !.refresh = NoRequest]]
  /\ storage' = IF unauthorized THEN NoToken ELSE storage
  /\ UNCHANGED <<call, authVars>>

ClearedOn401(b, unauthorized) ==
  /\ tab' = [tab EXCEPT ![b] =
       [(IF unauthorized THEN Cleared(@) ELSE @) EXCEPT !.refresh = NoRequest]]
  /\ storage' = IF unauthorized \/ \E k \in Waiting(b) : call[k].kind = "logout"
                THEN NoToken ELSE storage
  /\ call' = [k \in Calls |-> IF k \in Waiting(b) THEN NoCall ELSE call[k]]
  /\ UNCHANGED authVars

\* refreshSession's catch, once the promise has been rejected: only a 401 takes
\* the stored token along.  The waiting calls throw, a waiting logout clears.
RefreshRejected(b, unauthorized) ==
  /\ tab' = [tab EXCEPT ![b] = [Cleared(@) EXCEPT !.refresh = NoRequest]]
  /\ storage' = IF unauthorized \/ \E k \in Waiting(b) : call[k].kind = "logout"
                THEN NoToken ELSE storage
  /\ call' = [k \in Calls |-> IF k \in Waiting(b) THEN NoCall ELSE call[k]]
  /\ UNCHANGED authVars

RefreshEnds(b) ==
  LET r == tab[b].refresh IN
  /\ r # NoRequest /\ req[r].at \in {"refused", "failed"}
  /\ RefreshRejected(b, req[r].at = "refused")
  /\ UNCHANGED losses

-----------------------------------------------------------------------------
(* The network and the server.                                             *)

\* The request or its answer is lost; a request that has arrived goes on.
LoseRefresh(b) ==
  /\ tab[b].refresh # NoRequest
  /\ RefreshRejected(b, FALSE)
  /\ Lose

LoseCall(k) ==
  /\ call[k].at \in {"sent", "serving"}
  /\ Throw(k)
  /\ Lose /\ UNCHANGED authVars

ServerStep(r) ==
  /\ \/ Statement(r) /\ UNCHANGED losses
     \/ Fail(r) /\ Lose
     \/ Finish(r) /\ Unread(r) /\ UNCHANGED losses
  /\ UNCHANGED clientVars

TokenExpires(t) == Expire(t) /\ UNCHANGED <<clientVars, losses>>

-----------------------------------------------------------------------------
SessionInit ==
  /\ Init
  /\ storage = NoToken
  /\ tab = [b \in Tab |-> Closed]
  /\ call = [k \in Calls |-> NoCall]
  /\ losses = 0

CallStep(k) ==
  \/ ApiAnswered(k) \/ Rejected(k) \/ NothingToRevoke(k)
  \/ \E r \in Request : Admitted(k, r)
  \/ SignedIn(k) \/ LoginRefused(k) \/ CallEnds(k)

SessionNext ==
  \/ \E b \in Tab :
       OpenTab(b) \/ CloseTab(b) \/ AccessExpires(b) \/ RefreshOk(b) \/ RefreshEnds(b)
       \/ LoseRefresh(b)
  \/ \E k \in Calls :
       \/ CallStep(k) \/ LoseCall(k)
       \/ \E kind \in {"api", "login", "register", "logout"} : Send(k, kind)
  \/ \E r \in Request : ServerStep(r)
  \/ \E t \in Token : TokenExpires(t)

SessionSpec == SessionInit /\ [][SessionNext]_sessionVars

-----------------------------------------------------------------------------
(* Correctness.                                                            *)

SessionTypeOK ==
  /\ TypeOK
  /\ storage \in Token \cup {NoToken}
  /\ tab \in [Tab ->
       [status : {"closed", "bootstrapping", "authed", "anonymous"},
        access : {"none", "valid", "stale"}, refresh : Request \cup {NoRequest}]]
  /\ call \in [Calls ->
       [at : {"idle", "sent", "serving", "waiting"},
        kind : {"none", "api", "login", "register", "logout"},
        account : Account \cup {NoAccount}, token : Token \cup {NoToken},
        bearer : {"none", "valid", "stale"}, retry : BOOLEAN,
        request : Request \cup {NoRequest}]]
  /\ losses \in 0 .. MaxLosses

\* As long as every answer arrives, a revoked token is only in storage while
\* the request that revoked it is still to be answered: a reload finds a session
\* that can be renewed.
StoredTokenAlive ==
  losses = 0 /\ storage # NoToken /\ token[storage].at = "revoked" =>
    \E r \in Request : req[r].token = storage /\ ~Unread(r)

\* "One in-flight refresh (a Promise singleton): every other 401 request waits
\* on that same Promise".
SingleFlight ==
  losses = 0 =>
    Cardinality({r \in Request : req[r].op = "refresh" /\ req[r].at \in Running})
      <= Cardinality({b \in Tab : tab[b].refresh # NoRequest})

\* A tab never races itself: a refresh is refused only because its token has
\* expired, the user has signed in or out, or another tab has come first.
RefusedOnlyIfOver ==
  \A b \in Tab :
    losses = 0 /\ tab[b].refresh # NoRequest /\ req[tab[b].refresh].at = "refused" =>
      LET t == req[tab[b].refresh].token IN
        \/ token[t].at = "expired" \/ storage # t
        \/ \E k \in Calls : call[k].kind = "logout" /\ call[k].token = t
        \/ \E c \in Tab \ {b} :
             tab[c].refresh # NoRequest /\ req[tab[c].refresh].token = t

\* "Each tab refreshes independently - backend's refresh-rotation handles the
\* resulting churn": a token that could still renew the session only leaves
\* storage when somebody signs out or in.
LiveTokenKept ==
  [][storage # NoToken /\ storage' = NoToken /\ Active(storage) =>
       \E k \in Calls : call[k].kind = "logout" \/ SignsIn(call[k].kind)]_sessionVars

\* "POST /auth/logout with the refresh token in the body -> clearSession()": once
\* a logout is answered, the stored token it is about to drop is revoked, so
\* nothing that could renew the session is left behind.
SignedOutMeansRevoked ==
  \A k \in Calls :
    /\ call[k].kind = "logout" /\ call[k].at = "serving"
    /\ req[call[k].request].at = "ok" /\ storage # NoToken
    => ~Active(storage)

-----------------------------------------------------------------------------
(* Liveness.  The event loop of a tab runs every task that is ready, and    *)
(* the server's statements end (weak fairness).                             *)

SessionFairness ==
  /\ \A b \in Tab : WF_sessionVars(RefreshOk(b) \/ RefreshEnds(b))
  /\ \A k \in Calls : WF_sessionVars(CallStep(k))
  /\ \A r \in Request : WF_sessionVars(ServerStep(r))

FairSession == SessionSpec /\ SessionFairness

\* A call is answered or throws: it waits for one refresh at most.
EveryCallEnds == \A k \in Calls : (call[k].at # "idle") ~> (call[k].at = "idle")

\* The spinner of a starting tab goes away.
EveryTabStarts ==
  \A b \in Tab : (tab[b].status = "bootstrapping") ~> (tab[b].status # "bootstrapping")
=============================================================================
