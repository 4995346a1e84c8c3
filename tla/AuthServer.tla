------------------------------ MODULE AuthServer ------------------------------
(***************************************************************************)
(* Accounts and refresh tokens: internal/auth over the tables users and    *)
(* refresh_tokens.  A request runs its SQL statements one after another,   *)
(* each committing by itself, beside the statements of other requests.     *)
(* Clients present any refresh token they were given, several at once, and *)
(* again after it was exchanged.  Accounts are never deleted.              *)
(***************************************************************************)
CONSTANTS
  Account,              \* e-mail addresses
  Token,                \* refresh tokens: 32 random bytes, never drawn twice
  Request,              \* requests the server works on at a time
  NoAccount, NoToken,   \* "no value"
  RegistrationEnabled   \* LINKTHECA_REGISTRATION_ENABLED

ASSUME AuthAssumption ==
  /\ NoAccount \notin Account /\ NoToken \notin Token
  /\ RegistrationEnabled \in BOOLEAN

VARIABLES
  user,   \* users: no row, or whether is_admin is set
  token,  \* refresh_tokens: the row, and (history) the token it was issued for
  req     \* each request: the statement it runs next, and its local state

authVars == <<user, token, req>>

Running  == {"count", "create", "find", "revoke", "issue"}
Answered == {"ok", "refused", "failed"}   \* 2xx, 4xx, 5xx

Unissued == [at |-> "unissued", owner |-> NoAccount, from |-> NoToken]
Idle == [at |-> "idle", op |-> "none", account |-> NoAccount, token |-> NoToken,
         first |-> FALSE, fresh |-> NoToken]

Set(r, c) == req' = [req EXCEPT ![r] = c]

-----------------------------------------------------------------------------
(* Requests arrive.                                                        *)

\* Refused at once when registration is closed or the password is too short.
Register(r, a) ==
  /\ req[r].at = "idle"
  /\ \E at \in {"refused"} \cup (IF RegistrationEnabled THEN {"count"} ELSE {}) :
       Set(r, [Idle EXCEPT !.at = at, !.op = "register", !.account = a])
  /\ UNCHANGED <<user, token>>

Login(r, a) ==
  /\ req[r].at = "idle"
  /\ Set(r, [Idle EXCEPT !.at = "find", !.op = "login", !.account = a])
  /\ UNCHANGED <<user, token>>

\* op is "refresh" or "logout"; both carry a refresh token in the body.
Present(r, op, t) ==
  /\ req[r].at = "idle" /\ token[t].at # "unissued"
  /\ Set(r, [Idle EXCEPT !.at = "find", !.op = op, !.token = t])
  /\ UNCHANGED <<user, token>>

-----------------------------------------------------------------------------
(* Statements.                                                             *)

\* Mutant: the count is compared with one.
OneUser == \E a \in Account : user[a] # "none" /\ \A b \in Account \ {a} : user[b] = "none"

NoUsers == \A a \in Account : user[a] = "none"

CountUsers(r) ==
  /\ req[r].at = "count"
  /\ Set(r, [req[r] EXCEPT !.at = "create", !.first = NoUsers])
  /\ UNCHANGED <<user, token>>

\* INSERT INTO users; a taken e-mail is refused.
CreateUser(r) ==
  LET a == req[r].account IN
  /\ req[r].at = "create"
  /\ IF user[a] = "none"
     THEN /\ user' = [user EXCEPT ![a] = IF req[r].first THEN "admin" ELSE "reader"]
          /\ Set(r, [req[r] EXCEPT !.at = "issue"])
     ELSE /\ Set(r, [req[r] EXCEPT !.at = "refused"])
          /\ UNCHANGED user
  /\ UNCHANGED token

\* GetUserByEmail and VerifyPassword.
FindUser(r) ==
  /\ req[r].at = "find" /\ req[r].op = "login"
  /\ \/ user[req[r].account] # "none" /\ Set(r, [req[r] EXCEPT !.at = "issue"])
     \/ Set(r, [req[r] EXCEPT !.at = "refused"])
  /\ UNCHANGED <<user, token>>

\* Mutant: revoked_at is not looked at.
NotExpired(t) == token[t].at \in {"active", "revoked"}

Active(t) == token[t].at = "active"

\* Mutant: the user of the token is not loaded.
NobodysAccount(t) == NoAccount

AccountOf(t) == token[t].owner

\* FindActiveRefreshToken; Refresh then loads the user.  Logout of a token that
\* is not active is not an error.
FindActive(r) ==
  LET t == req[r].token IN
  /\ req[r].at = "find" /\ req[r].op \in {"refresh", "logout"}
  /\ Set(r, IF Active(t) THEN [req[r] EXCEPT !.at = "revoke", !.account = AccountOf(t)]
            ELSE [req[r] EXCEPT !.at = IF req[r].op = "logout" THEN "ok" ELSE "refused"])
  /\ UNCHANGED <<user, token>>

\* Mutant: a refresh does not revoke the token it was given.
RevokeOnLogout(r) ==
  /\ req[r].at = "revoke"
  /\ token' = [token EXCEPT ![req[r].token].at = IF req[r].op = "logout" THEN "revoked" ELSE @]
  /\ Set(r, [req[r] EXCEPT !.at = IF req[r].op = "logout" THEN "ok" ELSE "issue"])
  /\ UNCHANGED user

\* UPDATE ... WHERE revoked_at IS NULL: whether it changed a row is not asked.
Revoke(r) ==
  /\ req[r].at = "revoke"
  /\ token' = [token EXCEPT ![req[r].token].at = "revoked"]
  /\ Set(r, [req[r] EXCEPT !.at = IF req[r].op = "logout" THEN "ok" ELSE "issue"])
  /\ UNCHANGED user

\* issueTokens: the access token is signed, not stored.
Issue(r, n) ==
  /\ req[r].at = "issue" /\ token[n].at = "unissued"
  /\ token' = [token EXCEPT ![n] =
       [at |-> "active", owner |-> req[r].account, from |-> req[r].token]]
  /\ Set(r, [req[r] EXCEPT !.at = "ok", !.fresh = n])
  /\ UNCHANGED user

\* A statement fails, the client has gone and cancelled the context, or (before
\* the first statement) the address has used up its rate limit.
Fail(r) ==
  /\ req[r].at \in Running
  /\ Set(r, [req[r] EXCEPT !.at = "failed"])
  /\ UNCHANGED <<user, token>>

\* The answer has been read, or nobody is left to read it.
Finish(r) ==
  /\ req[r].at \in Answered
  /\ Set(r, Idle)
  /\ UNCHANGED <<user, token>>

\* expires_at passes.
Expire(t) ==
  /\ token[t].at = "active"
  /\ token' = [token EXCEPT ![t].at = "expired"]
  /\ UNCHANGED <<user, req>>

Statement(r) ==
  \/ CountUsers(r) \/ CreateUser(r) \/ FindUser(r) \/ FindActive(r) \/ Revoke(r)
  \/ \E n \in Token : Issue(r, n)

Arrive(r) ==
  \/ \E a \in Account : Register(r, a) \/ Login(r, a)
  \/ \E op \in {"refresh", "logout"}, t \in Token : Present(r, op, t)

Init ==
  /\ user = [a \in Account |-> "none"]
  /\ token = [t \in Token |-> Unissued]
  /\ req = [r \in Request |-> Idle]

Next ==
  \/ \E r \in Request : Arrive(r) \/ Statement(r) \/ Fail(r) \/ Finish(r)
  \/ \E t \in Token : Expire(t)

Spec == Init /\ [][Next]_authVars

-----------------------------------------------------------------------------
(* Correctness.                                                            *)

TokenRow == {Unissued} \cup
  [at : {"active", "revoked", "expired"}, owner : Account, from : Token \cup {NoToken}]

RequestState ==
  [at : {"idle"} \cup Running \cup Answered,
   op : {"none", "register", "login", "refresh", "logout"},
   account : Account \cup {NoAccount}, token : Token \cup {NoToken},
   first : BOOLEAN, fresh : Token \cup {NoToken}]

TypeOK ==
  /\ user \in [Account -> {"none", "reader", "admin"}]
  /\ token \in [Token -> TokenRow]
  /\ req \in [Request -> RequestState]

\* "The first user created on the instance is promoted to admin", although the
\* count and the insertion are two statements: an instance with accounts always
\* has an administrator, whatever registrations overlap or fail.
FirstIsAdmin ==
  (\E a \in Account : user[a] # "none") => \E a \in Account : user[a] = "admin"

\* "Revoke the old token first. Even if token issuance fails, the old one is
\* dead": neither a successor nor a request about to make one has an active
\* predecessor, whatever is revoked, expires or fails in between.
OldTokenIsDead ==
  /\ \A n \in Token : token[n].from # NoToken => ~Active(token[n].from)
  /\ \A r \in Request :
       req[r].op = "refresh" /\ req[r].at \in {"issue", "ok"} => ~Active(req[r].token)

\* A chain of refreshes stays with the account that logged in.
SameOwner ==
  \A n \in Token : token[n].from # NoToken => token[n].owner = token[token[n].from].owner

\* Two overlapping refreshes may both exchange a token, and a refresh may
\* outlive a logout; but once a token is dead and no request that found it
\* active is left, nothing is exchanged for it again.
Held(t) ==
  \E r \in Request :
    req[r].op = "refresh" /\ req[r].token = t /\ req[r].at \in {"revoke", "issue"}
Heirs(t) == {n \in Token : token[n].from = t}
Over(t) == token[t].at \in {"revoked", "expired"} /\ ~Held(t)

DeadIsFinal ==
  [][\A t \in Token : Over(t) => Over(t)' /\ Heirs(t)' = Heirs(t)]_authVars
=============================================================================
