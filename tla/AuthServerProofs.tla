--------------------------- MODULE AuthServerProofs ---------------------------
(***************************************************************************)
(* The invariants of AuthServer as theorems, for every number of accounts, *)
(* tokens and overlapping requests.                                        *)
(***************************************************************************)
EXTENDS AuthServer, TLAPS

-----------------------------------------------------------------------------
(* The strengthening.                                                      *)

\* What a request has learnt from its statements, given the rows of the tokens.
Learnt(c, rows) ==
  /\ c.op \in {"register", "login"} => c.account \in Account
  /\ c.at \in {"count", "create"} => c.op = "register"
  /\ c.op \in {"refresh", "logout"} => c.token \in Token /\ rows[c.token].at # "unissued"
  /\ c.op \notin {"refresh", "logout"} => c.token = NoToken
  /\ c.at = "revoke" => c.op \in {"refresh", "logout"}
  /\ c.at = "issue" => c.op \in {"register", "login", "refresh"}
  /\ c.at \in {"revoke", "issue"} /\ c.op \in {"refresh", "logout"} =>
       c.account = rows[c.token].owner
RequestInv == \A r \in Request : Learnt(req[r], token)

\* A count that found somebody stays true, because accounts are never deleted.
CountInv ==
  /\ FirstIsAdmin
  /\ \A r \in Request : req[r].at = "create" /\ ~req[r].first =>
       \E a \in Account : user[a] # "none"

\* Predecessors are rows.
ChainInv ==
  /\ OldTokenIsDead /\ SameOwner
  /\ \A n \in Token : token[n].from # NoToken =>
       token[n].from \in Token /\ token[token[n].from].at # "unissued"

AuthInv == TypeOK /\ RequestInv /\ CountInv /\ ChainInv

-----------------------------------------------------------------------------
LEMMA AuthInit == Init => AuthInv
BY AuthAssumption
   DEF Init, AuthInv, TypeOK, TokenRow, RequestState, RequestInv, Learnt, CountInv, FirstIsAdmin, ChainInv,
       OldTokenIsDead, SameOwner, Unissued, Idle, Running, Answered, Active

\* What an issued row is.
LEMMA IssuedRow ==
  ASSUME TypeOK, NEW t \in Token, token[t].at # "unissued"
  PROVE  token[t] \in [at : {"active", "revoked", "expired"}, owner : Account,
                       from : Token \cup {NoToken}]
BY DEF TypeOK, TokenRow, Unissued

\* Only one request moves at a time, and only its place, account, count or
\* fresh token change.
LEMMA Moved ==
  ASSUME TypeOK, NEW r \in Request, NEW c \in RequestState, Set(r, c)
  PROVE  req' \in [Request -> RequestState]
BY DEF TypeOK, Set

LEMMA IdleState == Idle \in RequestState
BY DEF Idle, RequestState

LEMMA MovedTo ==
  ASSUME NEW c \in RequestState, NEW at \in {"idle"} \cup Running \cup Answered
  PROVE  /\ [c EXCEPT !.at = at] \in RequestState
         /\ \A a \in Account : [c EXCEPT !.at = at, !.account = a] \in RequestState
         /\ \A b \in BOOLEAN : [c EXCEPT !.at = at, !.first = b] \in RequestState
         /\ \A n \in Token : [c EXCEPT !.at = at, !.fresh = n] \in RequestState
         /\ \A op \in {"register", "login"}, a \in Account :
              [c EXCEPT !.at = at, !.op = op, !.account = a] \in RequestState
         /\ \A op \in {"refresh", "logout"}, t \in Token :
              [c EXCEPT !.at = at, !.op = op, !.token = t] \in RequestState
BY DEF RequestState

LEMMA TypeStep == AuthInv /\ [Next]_authVars => TypeOK'
<1> SUFFICES ASSUME AuthInv, [Next]_authVars PROVE TypeOK'
  OBVIOUS
<1> USE DEF Running, Answered
<1>0. TypeOK /\ RequestInv
  BY DEF AuthInv
<1>1. ASSUME UNCHANGED <<user, token>>, NEW r \in Request, NEW c \in RequestState, Set(r, c)
      PROVE  TypeOK'
  BY <1>0, <1>1, Moved DEF TypeOK
<1>2. ASSUME NEW r \in Request, Arrive(r)
      PROVE  TypeOK'
  BY <1>1, <1>2, IdleState, MovedTo DEF Arrive, Register, Login, Present
<1>3. ASSUME NEW r \in Request, Statement(r)
      PROVE  TypeOK'
  <2>0. req[r] \in RequestState
    BY <1>0 DEF TypeOK
  <2>1. CASE CountUsers(r)
    BY <1>1, <2>0, <2>1, MovedTo DEF CountUsers, NoUsers
  <2>2. CASE CreateUser(r)
    <3>1. \E c \in RequestState : Set(r, c)
      BY <2>0, <2>2, MovedTo DEF CreateUser
    <3>2. user' \in [Account -> {"none", "reader", "admin"}]
      BY <1>0, <2>2 DEF CreateUser, TypeOK
    <3> QED
      BY <1>0, <2>2, <3>1, <3>2, Moved DEF CreateUser, TypeOK
  <2>3. CASE FindUser(r)
    BY <1>1, <2>0, <2>3, MovedTo DEF FindUser
  <2>4. CASE FindActive(r)
    <3>1. req[r].token \in Token
      BY <1>0, <2>4 DEF FindActive, RequestInv, Learnt
    <3>2. Active(req[r].token) => AccountOf(req[r].token) \in Account
      BY <1>0, <3>1, IssuedRow DEF Active, AccountOf
    <3>3. \E c \in RequestState : Set(r, c)
      BY <2>0, <2>4, <3>2, MovedTo DEF FindActive
    <3> QED
      BY <1>1, <2>4, <3>3 DEF FindActive
  <2>5. CASE Revoke(r)
    <3> DEFINE t == req[r].token
    <3>1. t \in Token /\ token[t].at # "unissued"
      BY <1>0, <2>5 DEF Revoke, RequestInv, Learnt
    <3>2. [token[t] EXCEPT !.at = "revoked"] \in TokenRow
      BY <1>0, <3>1, IssuedRow DEF TokenRow
    <3>3. token' = [token EXCEPT ![t] = [token[t] EXCEPT !.at = "revoked"]]
      BY <2>5 DEF Revoke
    <3>4. token' \in [Token -> TokenRow]
      BY <1>0, <3>1, <3>2, <3>3 DEF TypeOK
    <3>5. \E c \in RequestState : Set(r, c)
      BY <2>0, <2>5, MovedTo DEF Revoke
    <3> QED
      BY <1>0, <2>5, <3>4, <3>5, Moved DEF Revoke, TypeOK
  <2>6. ASSUME NEW n \in Token, Issue(r, n)
        PROVE  TypeOK'
    <3>1. req[r].account \in Account
      BY <1>0, <2>6, IssuedRow DEF Issue, RequestInv, Learnt
    <3>2. [at |-> "active", owner |-> req[r].account, from |-> req[r].token] \in TokenRow
      BY <2>0, <3>1 DEF TokenRow, RequestState
    <3>3. token' \in [Token -> TokenRow]
      BY <1>0, <2>6, <3>2 DEF Issue, TypeOK
    <3>4. \E c \in RequestState : Set(r, c)
      BY <2>0, <2>6, MovedTo DEF Issue
    <3> QED
      BY <1>0, <2>6, <3>3, <3>4, Moved DEF Issue, TypeOK
  <2> QED
    BY <1>3, <2>1, <2>2, <2>3, <2>4, <2>5, <2>6 DEF Statement
<1>4. ASSUME NEW r \in Request, Fail(r) \/ Finish(r)
      PROVE  TypeOK'
  <2>0. req[r] \in RequestState
    BY <1>0 DEF TypeOK
  <2> QED
    BY <1>1, <1>4, <2>0, IdleState, MovedTo DEF Fail, Finish
<1>5. ASSUME NEW t \in Token, Expire(t)
      PROVE  TypeOK'
  <2>1. [token[t] EXCEPT !.at = "expired"] \in TokenRow
    BY <1>0, <1>5, IssuedRow DEF Expire, TokenRow
  <2>2. token' = [token EXCEPT ![t] = [token[t] EXCEPT !.at = "expired"]]
    BY <1>5 DEF Expire
  <2> QED
    BY <1>0, <1>5, <2>1, <2>2 DEF Expire, TypeOK
<1>6. CASE UNCHANGED authVars
  BY <1>0, <1>6 DEF authVars, TypeOK
<1> QED
  BY <1>2, <1>3, <1>4, <1>5, <1>6 DEF Next

\* A row never becomes active or unissued again; a new row is of nobody's past.
RowsStep ==
  \A t \in Token :
    /\ token[t].at # "unissued" =>
         /\ token'[t].at # "unissued"
         /\ token'[t].owner = token[t].owner /\ token'[t].from = token[t].from
         /\ ~Active(t) => ~(Active(t))'

LEMMA RowsKept == AuthInv /\ [Next]_authVars => RowsStep
<1> SUFFICES ASSUME AuthInv, [Next]_authVars PROVE RowsStep
  OBVIOUS
<1> USE DEF RowsStep, Active
<1>0. TypeOK
  BY DEF AuthInv
<1>1. ASSUME NEW r \in Request, NEW n \in Token, Issue(r, n)
      PROVE  RowsStep
  BY <1>0, <1>1 DEF Issue, TypeOK
<1>2. ASSUME NEW r \in Request, Revoke(r)
      PROVE  RowsStep
  <2>1. \A t \in Token : token[t].at # "unissued" => 
          token[t] \in [at : {"active", "revoked", "expired"}, owner : Account,
                       from : Token \cup {NoToken}]
    BY <1>0, IssuedRow
  <2>2. req[r].token \in Token /\ token[req[r].token].at # "unissued"
    BY <1>2 DEF Revoke, AuthInv, RequestInv, Learnt
  <2> QED
    BY <1>0, <1>2, <2>1, <2>2 DEF Revoke, TypeOK
<1>3. ASSUME NEW t \in Token, Expire(t)
      PROVE  RowsStep
  <2>1. \A u \in Token : token[u].at # "unissued" => 
          token[u] \in [at : {"active", "revoked", "expired"}, owner : Account,
                       from : Token \cup {NoToken}]
    BY <1>0, IssuedRow
  <2> QED
    BY <1>0, <1>3, <2>1 DEF Expire, TypeOK
<1>4. ASSUME UNCHANGED token
      PROVE  RowsStep
  BY <1>4
<1> QED
  BY <1>1, <1>2, <1>3, <1>4
     DEF Next, Arrive, Register, Login, Present, Statement, CountUsers, CreateUser,
         FindUser, FindActive, Fail, Finish, authVars

-----------------------------------------------------------------------------
(* What requests have learnt.                                              *)

\* What was learnt about rows stays true.
LEMMA StillLearnt ==
  ASSUME RowsStep, NEW c, Learnt(c, token)
  PROVE  Learnt(c, token')
BY DEF RowsStep, Learnt

\* A step of one request leaves the others alone.
LEMMA OneMoves ==
  ASSUME TypeOK, NEW r \in Request,
         Arrive(r) \/ Statement(r) \/ Fail(r) \/ Finish(r)
  PROVE  \A q \in Request \ {r} : req'[q] = req[q]
<1>1. ASSUME NEW c, Set(r, c)
      PROVE  \A q \in Request \ {r} : req'[q] = req[q]
  BY <1>1 DEF Set, TypeOK
<1>2. \E c : Set(r, c)
  <2>1. CASE Arrive(r)
    BY <2>1 DEF Arrive, Register, Login, Present
  <2>2. CASE Statement(r)
    BY <2>2 DEF Statement, CountUsers, CreateUser, FindUser, FindActive, Revoke, Issue
  <2>3. CASE Fail(r) \/ Finish(r)
    BY <2>3 DEF Fail, Finish
  <2> QED
    BY <2>1, <2>2, <2>3
<1> QED
  BY <1>1, <1>2

LEMMA ArriveLearnt ==
  ASSUME TypeOK, NEW r \in Request, Arrive(r)
  PROVE  Learnt(req'[r], token') /\ req'[r].at \in {"refused", "count", "find"}
<1> USE DEF Set, TypeOK, Idle, Learnt
<1>1. ASSUME NEW a \in Account, Register(r, a)
      PROVE  Learnt(req'[r], token') /\ req'[r].at \in {"refused", "count", "find"}
  <2>1. PICK at \in {"refused", "count"} :
          req' = [req EXCEPT ![r] = [Idle EXCEPT !.at = at, !.op = "register", !.account = a]]
    BY <1>1 DEF Register
  <2>2. /\ req'[r].at = at /\ req'[r].op = "register"
        /\ req'[r].account = a /\ req'[r].token = NoToken
    BY <2>1
  <2> QED
    BY <2>2
<1>2. ASSUME NEW a \in Account, Login(r, a)
      PROVE  Learnt(req'[r], token') /\ req'[r].at \in {"refused", "count", "find"}
  BY <1>2 DEF Login
<1>3. ASSUME NEW op \in {"refresh", "logout"}, NEW t \in Token, Present(r, op, t)
      PROVE  Learnt(req'[r], token') /\ req'[r].at \in {"refused", "count", "find"}
  BY <1>3 DEF Present
<1> QED
  BY <1>1, <1>2, <1>3 DEF Arrive

LEMMA RequestStep == AuthInv /\ [Next]_authVars => RequestInv'
<1> SUFFICES ASSUME AuthInv, [Next]_authVars PROVE RequestInv'
  OBVIOUS
<1>0. TypeOK /\ RequestInv /\ RowsStep
  BY RowsKept DEF AuthInv
<1>1. ASSUME NEW r \in Request, Arrive(r) \/ Statement(r) \/ Fail(r) \/ Finish(r),
             Learnt(req'[r], token')
      PROVE  RequestInv'
  BY <1>0, <1>1, OneMoves, StillLearnt DEF RequestInv
<1>2. ASSUME NEW r \in Request, Statement(r) \/ Fail(r) \/ Finish(r)
      PROVE  Learnt(req'[r], token')
  <2>0. req[r] \in RequestState /\ Learnt(req[r], token) /\ Learnt(req[r], token')
    BY <1>0, StillLearnt DEF TypeOK, RequestInv
  <2>1. CASE CountUsers(r)
    BY <1>0, <2>0, <2>1 DEF CountUsers, Set, Learnt, RequestState, TypeOK
  <2>2. CASE CreateUser(r)
    BY <1>0, <2>0, <2>2 DEF CreateUser, Set, Learnt, RequestState, TypeOK
  <2>3. CASE FindUser(r)
    BY <1>0, <2>0, <2>3 DEF FindUser, Set, Learnt, RequestState, TypeOK
  <2>4. CASE FindActive(r)
    <3>1. CASE Active(req[r].token)
      BY <1>0, <2>0, <2>4, <3>1 DEF FindActive, AccountOf, Set, Learnt, RequestState, TypeOK
    <3>2. CASE ~Active(req[r].token)
      BY <1>0, <2>0, <2>4, <3>2 DEF FindActive, Set, Learnt, RequestState, TypeOK
    <3> QED
      BY <3>1, <3>2
  <2>5. CASE Revoke(r)
    <3>1. /\ req'[r].at \in {"ok", "issue"} /\ (req[r].op = "logout" => req'[r].at = "ok")
          /\ req'[r].op = req[r].op /\ req'[r].account = req[r].account
          /\ req'[r].token = req[r].token
      BY <1>0, <2>0, <2>5 DEF Revoke, Set, RequestState, TypeOK
    <3> QED
      BY <2>0, <2>5, <3>1 DEF Revoke, Learnt
  <2>6. ASSUME NEW n \in Token, Issue(r, n)
        PROVE  Learnt(req'[r], token')
    <3>1. /\ req'[r].at = "ok" /\ req'[r].op = req[r].op
          /\ req'[r].account = req[r].account /\ req'[r].token = req[r].token
      BY <1>0, <2>0, <2>6 DEF Issue, Set, RequestState, TypeOK
    <3> QED
      BY <2>0, <3>1 DEF Learnt
  <2>7. CASE Fail(r) \/ Finish(r)
    BY <1>0, <2>0, <2>7 DEF Fail, Finish, Idle, Set, Learnt, RequestState, TypeOK
  <2> QED
    BY <1>2, <2>1, <2>2, <2>3, <2>4, <2>5, <2>6, <2>7 DEF Statement
<1>3. ASSUME UNCHANGED req
      PROVE  RequestInv'
  BY <1>0, <1>3, StillLearnt DEF RequestInv
<1> QED
  BY <1>0, <1>1, <1>2, <1>3, ArriveLearnt DEF Next, Expire, authVars

-----------------------------------------------------------------------------
(* FirstIsAdmin.                                                           *)

LEMMA CountStep == AuthInv /\ [Next]_authVars => CountInv'
<1> SUFFICES ASSUME AuthInv, [Next]_authVars PROVE CountInv'
  OBVIOUS
<1> USE DEF CountInv, FirstIsAdmin
<1>0. TypeOK /\ CountInv
  BY DEF AuthInv
<1>1. ASSUME NEW r \in Request, CreateUser(r)
      PROVE  CountInv'
  <2>1. req[r].account \in Account
    BY <1>1 DEF CreateUser, AuthInv, RequestInv, Learnt
  <2>2. req'[r].at # "create" /\ \A q \in Request \ {r} : req'[q] = req[q]
    BY <1>0, <1>1 DEF CreateUser, Set, TypeOK, RequestState
  <2>3. CASE user[req[r].account] = "none"
    <3>1. user' = [user EXCEPT ![req[r].account] = IF req[r].first THEN "admin" ELSE "reader"]
      BY <1>1, <2>3 DEF CreateUser
    <3> QED
      BY <1>0, <1>1, <2>1, <2>2, <2>3, <3>1 DEF CreateUser, TypeOK
  <2>4. CASE user[req[r].account] # "none"
    BY <1>0, <1>1, <2>2, <2>4 DEF CreateUser
  <2> QED
    BY <2>3, <2>4
<1>2. ASSUME NEW r \in Request, CountUsers(r)
      PROVE  CountInv'
  <2>1. /\ req'[r].first = NoUsers
        /\ \A q \in Request \ {r} : req'[q] = req[q]
    BY <1>0, <1>2 DEF CountUsers, Set, TypeOK, RequestState
  <2> QED
    BY <1>0, <1>2, <2>1 DEF CountUsers, NoUsers
<1>3. ASSUME NEW r \in Request, Arrive(r) \/ FindUser(r) \/ FindActive(r) \/ Revoke(r)
                 \/ (\E n \in Token : Issue(r, n)) \/ Fail(r) \/ Finish(r)
      PROVE  CountInv'
  <2>1. UNCHANGED user
    BY <1>3 DEF Arrive, Register, Login, Present, FindUser, FindActive, Revoke, Issue, Fail, Finish
  <2>2. \A q \in Request \ {r} : req'[q] = req[q]
    BY <1>0, <1>3, OneMoves DEF Statement
  <2>3. req'[r].at # "create"
    <3>1. CASE Arrive(r)
      BY <1>0, <3>1, ArriveLearnt
    <3>2. CASE FindUser(r)
      BY <1>0, <3>2 DEF FindUser, Set, TypeOK, RequestState
    <3>3. CASE FindActive(r)
      BY <1>0, <3>3 DEF FindActive, Set, TypeOK, RequestState
    <3>4. CASE Revoke(r)
      BY <1>0, <3>4 DEF Revoke, Set, TypeOK, RequestState
    <3>5. ASSUME NEW n \in Token, Issue(r, n)
          PROVE  req'[r].at # "create"
      BY <1>0, <3>5 DEF Issue, Set, TypeOK, RequestState
    <3>6. CASE Fail(r) \/ Finish(r)
      BY <1>0, <3>6 DEF Fail, Finish, Idle, Set, TypeOK, RequestState
    <3> QED
      BY <1>3, <3>1, <3>2, <3>3, <3>4, <3>5, <3>6
  <2> QED
    BY <1>0, <2>1, <2>2, <2>3
<1>4. ASSUME UNCHANGED <<user, req>>
      PROVE  CountInv'
  BY <1>0, <1>4
<1> QED
  BY <1>1, <1>2, <1>3, <1>4 DEF Next, Statement, Expire, authVars

-----------------------------------------------------------------------------
(* OldTokenIsDead, SameOwner and DeadIsFinal.                              *)

\* A new row: the request that makes it, and what it knows of the predecessor.
LEMMA NewRow ==
  ASSUME AuthInv, [Next]_authVars, NEW n \in Token,
         token[n].at = "unissued", token'[n].at # "unissued"
  PROVE  \E r \in Request :
           /\ req[r].at = "issue"
           /\ token'[n] = [at |-> "active", owner |-> req[r].account, from |-> req[r].token]
           /\ req[r].token # NoToken =>
                /\ req[r].op = "refresh" /\ req[r].token \in Token \ {n}
                /\ token[req[r].token].at # "unissued"
                /\ req[r].account = token[req[r].token].owner
<1>0. TypeOK /\ RequestInv
  BY DEF AuthInv
<1>1. ASSUME NEW r \in Request, NEW m \in Token, Issue(r, m)
      PROVE  /\ req[r].at = "issue"
             /\ token'[n] = [at |-> "active", owner |-> req[r].account, from |-> req[r].token]
  BY <1>0, <1>1 DEF Issue, TypeOK
<1>2. ASSUME NEW r \in Request, req[r].at = "issue", req[r].token # NoToken
      PROVE  /\ req[r].op = "refresh" /\ req[r].token \in Token \ {n}
             /\ token[req[r].token].at # "unissued"
             /\ req[r].account = token[req[r].token].owner
  BY <1>0, <1>2 DEF RequestInv, Learnt
<1>3. ASSUME NEW r \in Request, Revoke(r)
      PROVE  FALSE
  BY <1>0, <1>3 DEF Revoke, RequestInv, Learnt, TypeOK
<1>4. ASSUME NEW t \in Token, Expire(t)
      PROVE  FALSE
  BY <1>0, <1>4 DEF Expire, TypeOK
<1>5. token' # token
  OBVIOUS
<1> QED
  BY <1>1, <1>2, <1>3, <1>4, <1>5
     DEF Next, Arrive, Register, Login, Present, Statement, CountUsers, CreateUser,
         FindUser, FindActive, Fail, Finish, authVars

\* A request that holds a token has found it active, or held it before.
LEMMA HeldStep ==
  ASSUME AuthInv, [Next]_authVars, NEW r \in Request,
         req'[r].op = "refresh", req'[r].at \in {"revoke", "issue"}
  PROVE  /\ req[r].op = "refresh" /\ req[r].token = req'[r].token
         /\ \/ req[r].at = "find" /\ req'[r].at = "revoke" /\ Active(req[r].token)
            \/ req[r].at = "revoke" /\ req'[r].at = "issue"
               /\ token' = [token EXCEPT ![req[r].token].at = "revoked"]
            \/ req[r].at \in {"revoke", "issue"} /\ req'[r] = req[r]
<1>0. TypeOK /\ RequestInv
  BY DEF AuthInv
<1> USE DEF Set, TypeOK, RequestState
<1>1. CASE req'[r] = req[r]
  BY <1>1
<1>2. CASE Arrive(r)
  BY <1>0, <1>2, ArriveLearnt
<1>3. CASE CountUsers(r) \/ CreateUser(r)
  BY <1>0, <1>3 DEF CountUsers, CreateUser, RequestInv, Learnt
<1>4. CASE FindUser(r)
  BY <1>0, <1>4 DEF FindUser
<1>5. CASE FindActive(r)
  <2>1. Active(req[r].token)
    BY <1>0, <1>5 DEF FindActive
  <2> QED
    BY <1>0, <1>5, <2>1 DEF FindActive
<1>6. CASE Revoke(r)
  BY <1>0, <1>6 DEF Revoke
<1>7. ASSUME NEW n \in Token, Issue(r, n)
      PROVE  FALSE
  BY <1>0, <1>7 DEF Issue
<1>8. CASE Fail(r) \/ Finish(r)
  BY <1>0, <1>8 DEF Fail, Finish, Idle
<1>9. ASSUME NEW q \in Request \ {r}, Arrive(q) \/ Statement(q) \/ Fail(q) \/ Finish(q)
      PROVE  req'[r] = req[r]
  BY <1>0, <1>9, OneMoves
<1>10. CASE UNCHANGED req
  BY <1>1, <1>10
<1> QED
  BY <1>1, <1>2, <1>3, <1>4, <1>5, <1>6, <1>7, <1>8, <1>9, <1>10
     DEF Next, Statement, Expire, authVars

LEMMA ChainStep == AuthInv /\ [Next]_authVars => ChainInv'
<1> SUFFICES ASSUME AuthInv, [Next]_authVars PROVE ChainInv'
  OBVIOUS
<1>0. TypeOK /\ TypeOK' /\ RequestInv /\ RequestInv' /\ ChainInv /\ RowsStep
  BY RowsKept, TypeStep, RequestStep DEF AuthInv
<1>1. ASSUME NEW n \in Token, token'[n].from # NoToken
      PROVE  /\ token'[n].from \in Token /\ token'[token'[n].from].at # "unissued"
             /\ token'[token'[n].from].at # "active"
             /\ token'[n].owner = token'[token'[n].from].owner
  <2>1. CASE token[n].at # "unissued"
    <3>1. token'[n].from = token[n].from /\ token'[n].owner = token[n].owner
      BY <1>0, <2>1 DEF RowsStep
    <3> QED
      BY <1>0, <1>1, <2>1, <3>1 DEF RowsStep, ChainInv, OldTokenIsDead, SameOwner, Active
  <2>2. CASE token[n].at = "unissued"
    <3>1. token'[n].at # "unissued"
      BY <1>0, <1>1 DEF TypeOK, TokenRow, Unissued
    <3>2. PICK r \in Request :
            /\ req[r].at = "issue"
            /\ token'[n] = [at |-> "active", owner |-> req[r].account, from |-> req[r].token]
            /\ req[r].token # NoToken =>
                 /\ req[r].op = "refresh" /\ req[r].token \in Token \ {n}
                 /\ token[req[r].token].at # "unissued"
                 /\ req[r].account = token[req[r].token].owner
      BY <2>2, <3>1, NewRow
    <3>3. token'[n].from = req[r].token /\ token'[n].owner = req[r].account
      BY <3>2
    <3>4. ~Active(req[r].token)
      BY <1>0, <1>1, <3>2, <3>3 DEF ChainInv, OldTokenIsDead
    <3> QED
      BY <1>0, <1>1, <3>2, <3>3, <3>4 DEF RowsStep, Active
  <2> QED
    BY <2>1, <2>2
<1>2. ASSUME NEW r \in Request, req'[r].op = "refresh", req'[r].at \in {"issue", "ok"}
      PROVE  token'[req'[r].token].at # "active"
  <2>1. CASE req'[r].at = "issue"
    <3>1. /\ req[r].op = "refresh" /\ req[r].token = req'[r].token
          /\ \/ token' = [token EXCEPT ![req[r].token].at = "revoked"]
             \/ req[r].at = "issue"
      BY <1>2, <2>1, HeldStep
    <3>2. req[r].token \in Token /\ token[req[r].token].at # "unissued"
      BY <1>0, <3>1 DEF RequestInv, Learnt
    <3>3. CASE token' = [token EXCEPT ![req[r].token].at = "revoked"]
      <4>1. token[req[r].token] \in [at : {"active", "revoked", "expired"}, owner : Account,
                                     from : Token \cup {NoToken}]
        BY <1>0, <3>2, IssuedRow
      <4> QED
        BY <1>0, <3>1, <3>2, <3>3, <4>1 DEF TypeOK
    <3>4. CASE req[r].at = "issue"
      BY <1>0, <3>1, <3>2, <3>4 DEF ChainInv, OldTokenIsDead, RowsStep, Active
    <3> QED
      BY <3>1, <3>3, <3>4
  <2>2. CASE req'[r].at = "ok"
    <3>1. /\ req[r].op = "refresh" /\ req[r].token = req'[r].token
          /\ req[r].at \in {"issue", "ok"}
      <4> USE DEF Set, TypeOK, RequestState
      <4>1. CASE req'[r] = req[r]
        BY <1>2, <2>2, <4>1
      <4>2. CASE Arrive(r)
        BY <1>0, <2>2, <4>2, ArriveLearnt
      <4>3. CASE CountUsers(r) \/ CreateUser(r) \/ FindUser(r)
        <5>1. ~CountUsers(r)
          BY <1>0, <2>2 DEF CountUsers
        <5>2. ~CreateUser(r)
          BY <1>0, <2>2 DEF CreateUser
        <5>3. ~FindUser(r)
          BY <1>0, <2>2 DEF FindUser
        <5> QED
          BY <4>3, <5>1, <5>2, <5>3
      <4>4. CASE FindActive(r)
        BY <1>0, <1>2, <2>2, <4>4 DEF FindActive
      <4>5. CASE Revoke(r)
        BY <1>0, <1>2, <2>2, <4>5 DEF Revoke
      <4>6. ASSUME NEW n \in Token, Issue(r, n)
            PROVE  /\ req[r].op = "refresh" /\ req[r].token = req'[r].token
                   /\ req[r].at \in {"issue", "ok"}
        <5>1. req[r] \in RequestState
          BY <1>0
        <5>2. req' = [req EXCEPT ![r] = [req[r] EXCEPT !.at = "ok", !.fresh = n]]
          BY <4>6 DEF Issue
        <5>3. req'[r].op = req[r].op /\ req'[r].token = req[r].token /\ req[r].at = "issue"
          BY <1>0, <4>6, <5>1, <5>2 DEF Issue
        <5> QED
          BY <1>2, <5>3
      <4>7. CASE Fail(r) \/ Finish(r)
        BY <1>0, <2>2, <4>7 DEF Fail, Finish, Idle
      <4>8. ASSUME NEW q \in Request \ {r}, Arrive(q) \/ Statement(q) \/ Fail(q) \/ Finish(q)
            PROVE  req'[r] = req[r]
        BY <1>0, <4>8, OneMoves
      <4>9. CASE UNCHANGED req
        BY <4>1, <4>9
      <4> QED
        BY <4>1, <4>2, <4>3, <4>4, <4>5, <4>6, <4>7, <4>8, <4>9
           DEF Next, Statement, Expire, authVars
    <3>2. req[r].token \in Token /\ token[req[r].token].at # "unissued"
      BY <1>0, <3>1 DEF RequestInv, Learnt
    <3> QED
      BY <1>0, <3>1, <3>2 DEF ChainInv, OldTokenIsDead, RowsStep, Active
  <2> QED
    BY <1>2, <2>1, <2>2
<1> QED
  BY <1>1, <1>2 DEF ChainInv, OldTokenIsDead, SameOwner, Active

LEMMA AuthStep == AuthInv /\ [Next]_authVars => AuthInv'
BY TypeStep, RequestStep, CountStep, ChainStep DEF AuthInv

LEMMA AuthAlways == Spec => []AuthInv
BY AuthInit, AuthStep, PTL DEF Spec

\* A dead token that no refresh holds is found by no other, and gets no heirs.
LEMMA DeadStep ==
  ASSUME AuthInv, [Next]_authVars, NEW t \in Token, Over(t)
  PROVE  Over(t)' /\ Heirs(t)' = Heirs(t)
<1>0. TypeOK /\ TypeOK' /\ RequestInv /\ RowsStep
  BY RowsKept, TypeStep DEF AuthInv
<1>1. token'[t].at \in {"revoked", "expired"}
  BY <1>0 DEF Over, RowsStep, Active, TypeOK, TokenRow, Unissued
<1>2. ASSUME NEW r \in Request, req'[r].op = "refresh", req'[r].token = t,
             req'[r].at \in {"revoke", "issue"}
      PROVE  FALSE
  BY <1>2, HeldStep DEF Over, Held, Active
<1>3. \A n \in Token : token'[n].from = t <=> token[n].from = t
  <2> TAKE n \in Token
  <2>1. CASE token[n].at # "unissued"
    BY <1>0, <2>1 DEF RowsStep
  <2>2. CASE token'[n].at = "unissued"
    BY <1>0, <2>2 DEF RowsStep, TypeOK, TokenRow, Unissued
  <2>3. CASE token[n].at = "unissued" /\ token'[n].at # "unissued"
    <3>1. token[n].from # t
      BY <1>0, <2>3, AuthAssumption DEF TypeOK, TokenRow, Unissued
    <3>2. token'[n].from # t
      <4>1. PICK r \in Request :
              /\ req[r].at = "issue"
              /\ token'[n] = [at |-> "active", owner |-> req[r].account, from |-> req[r].token]
              /\ req[r].token # NoToken => req[r].op = "refresh"
        BY <2>3, NewRow
      <4>2. t # NoToken
        BY AuthAssumption
      <4> QED
        BY <4>1, <4>2 DEF Over, Held
    <3> QED
      BY <3>1, <3>2
  <2> QED
    BY <2>1, <2>2, <2>3
<1> QED
  BY <1>1, <1>2, <1>3 DEF Over, Held, Heirs

-----------------------------------------------------------------------------
\* Rows and the local state of requests keep their types.
THEOREM AuthTypes == Spec => []TypeOK
BY AuthAlways, PTL DEF AuthInv

\* Register: an instance with accounts has an administrator, although the
\* count and the insertion are two statements.
THEOREM AdminExists == Spec => []FirstIsAdmin
BY AuthAlways, PTL DEF AuthInv, CountInv

\* Refresh: a token that has a successor, or is about to get one, is not active.
THEOREM Rotation == Spec => []OldTokenIsDead
BY AuthAlways, PTL DEF AuthInv, ChainInv

\* Refresh: every token descends from tokens of the same account.
THEOREM OwnChain == Spec => []SameOwner
BY AuthAlways, PTL DEF AuthInv, ChainInv

\* FindActiveRefreshToken: a dead token that no refresh in flight has found
\* active is never exchanged again.
THEOREM NoWayBack == Spec => DeadIsFinal
<1>1. AuthInv /\ [Next]_authVars =>
        [\A t \in Token : Over(t) => Over(t)' /\ Heirs(t)' = Heirs(t)]_authVars
  BY DeadStep
<1> QED
  BY <1>1, AuthAlways, PTL DEF Spec, DeadIsFinal
=============================================================================
