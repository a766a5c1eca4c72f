--------------------------- MODULE SessionsProofs ---------------------------
(* Theorems about Sessions, for every value of its constants.                 *)
EXTENDS Sessions, TLAPS

\* TypeOK strengthened so that it is inductive: an unused token is blank and any other
\* has a user, and a request in flight holds a name, or a token that has been issued.
TokenOK ==
    /\ token \in [Tokens -> Token]
    /\ \A t \in Tokens : IF token[t].status = "unused" THEN token[t] = NewToken
                                                        ELSE token[t].user \in Users

ReqOK ==
    /\ req \in [Requests -> Request]
    /\ \A r \in Requests : InFlight(r) =>
          /\ req[r].op = "login" => req[r].name \in Names
          /\ req[r].op = "refresh" => /\ req[r].token \in Tokens
                                      /\ token[req[r].token].status # "unused"

RestOK ==
    /\ name \in [Users -> Names \cup {NoName}]
    /\ account \in [Users -> Account]
    /\ signedOff \subseteq Users /\ shared \subseteq Tokens /\ escaped \subseteq Tokens

TInv == TokenOK /\ ReqOK /\ RestOK

LEMMA IssuedIsToken ==
  ASSUME NEW u \in Users, NEW p \in Tokens \cup {NoToken}
  PROVE  /\ Issued(u, p) \in Token /\ Issued(u, p).status = "live"
         /\ Issued(u, p).user = u /\ Issued(u, p).parent = p
  BY DEF Issued, Token

\* What logout and delete_user make of a token.
LEMMA Struck ==
  ASSUME NEW k \in Token, NEW s \in {"revoked", "deleted"}
  PROVE  LET new == [k EXCEPT !.status = s]
         IN  new \in Token /\ new.status = s /\ new.user = k.user /\ new.parent = k.parent
  BY DEF Token

\* The three ways a step changes the tokens: one is issued to an existing user, some are
\* struck out, or one ages.
TokenIssued ==
    \E t \in Tokens, u \in Users :
        token[t].status = "unused" /\ token' = [token EXCEPT ![t] = Issued(u, NoToken)]

TokenRotated ==
    \E t, s \in Tokens :
        /\ token[t].status # "unused" /\ token[s].status = "unused"
        /\ token' = [token EXCEPT ![t] = [token[t] EXCEPT !.status = "revoked"],
                                  ![s] = Issued(token[t].user, t)]

TokensStruck ==
    /\ token' = [t \in Tokens |-> token'[t]]
    /\ \A t \in Tokens :
          \/ token'[t] = token[t]
          \/ /\ token[t].status # "unused"
             /\ \E s \in {"revoked", "deleted"} : token'[t] = [token[t] EXCEPT !.status = s]

TokenAged ==
    \E t \in Tokens :
        token[t].status = "live" /\ token' = [token EXCEPT ![t].status = "expired"]

LEMMA TokensStay ==
  ASSUME TokenOK, UNCHANGED token \/ TokenIssued \/ TokenRotated \/ TokensStruck \/ TokenAged
  PROVE  /\ TokenOK'
         /\ \A t \in Tokens : token[t].status # "unused" => token'[t].status # "unused"
<1>1. CASE UNCHANGED token
  BY <1>1 DEF TokenOK
<1>2. CASE TokenIssued
  BY <1>2, IssuedIsToken DEF TokenOK, TokenIssued
<1>3. CASE TokenRotated
  <2>1. PICK t \in Tokens, s \in Tokens :
          /\ token[t].status # "unused" /\ token[s].status = "unused"
          /\ token' = [token EXCEPT ![t] = [token[t] EXCEPT !.status = "revoked"],
                                    ![s] = Issued(token[t].user, t)]
    BY <1>3 DEF TokenRotated
  <2>2. token[t] \in Token /\ token[t].user \in Users
    BY <2>1 DEF TokenOK
  <2>3. LET old == [token[t] EXCEPT !.status = "revoked"]
        IN  old \in Token /\ old.status = "revoked" /\ old.user = token[t].user
    BY <2>2, Struck
  <2>4. LET new == Issued(token[t].user, t)
        IN  new \in Token /\ new.status = "live" /\ new.user \in Users
    BY <2>2, IssuedIsToken
  <2> QED
    BY <2>1, <2>2, <2>3, <2>4 DEF TokenOK
<1>4. CASE TokensStruck
  <2>1. ASSUME NEW t \in Tokens
        PROVE  /\ token'[t] \in Token
               /\ token'[t].user = token[t].user
               /\ \/ token'[t] = token[t]
                  \/ token[t].status # "unused" /\ token'[t].status # "unused"
    <3>1. CASE token'[t] = token[t]
      BY <3>1 DEF TokenOK
    <3>2. ASSUME NEW s \in {"revoked", "deleted"}, token[t].status # "unused",
                 token'[t] = [token[t] EXCEPT !.status = s]
          PROVE  /\ token'[t] \in Token /\ token'[t].user = token[t].user
                 /\ token'[t].status # "unused"
      <4>1. token[t] \in Token
        BY DEF TokenOK
      <4>2. LET new == [token[t] EXCEPT !.status = s]
            IN  new \in Token /\ new.status = s /\ new.user = token[t].user
        BY <4>1, Struck
      <4> QED
        BY <3>2, <4>2
    <3> QED
      BY <1>4, <3>1, <3>2 DEF TokensStruck
  <2>2. token' = [t \in Tokens |-> token'[t]]
    BY <1>4 DEF TokensStruck
  <2>3. token' \in [Tokens -> Token]
    BY <2>1, <2>2
  <2> QED
    BY <2>1, <2>3 DEF TokenOK
<1>5. CASE TokenAged
  BY <1>5 DEF TokenAged, TokenOK, Token
<1> QED
  BY <1>1, <1>2, <1>3, <1>4, <1>5

\* How each action changes the tokens.
LEMMA TokenWriters ==
  ASSUME TInv, [Next]_vars
  PROVE  \/ UNCHANGED token \/ TokenIssued \/ TokensStruck \/ TokenAged
         \/ TokenRotated /\ \E r \in Requests : RefreshCommit(r)
<1>1. ASSUME NEW r \in Requests, LoginReturning(r) PROVE UNCHANGED token \/ TokenIssued
  <2>1. req[r].user \in Users
    BY <1>1 DEF LoginReturning, TInv, ReqOK, Request
  <2> QED
    BY <1>1, <2>1 DEF LoginReturning, TokenIssued
<1>2. ASSUME NEW r \in Requests, LoginCreating(r) PROVE UNCHANGED token \/ TokenIssued
  BY <1>2 DEF LoginCreating, TokenIssued
<1>3. ASSUME NEW r \in Requests, RefreshCommit(r) PROVE UNCHANGED token \/ TokenRotated
  <2>1. req[r].token \in Tokens
    BY <1>3 DEF RefreshCommit, TInv, ReqOK, InFlight
  <2>2. CASE UNCHANGED token
    BY <2>2
  <2>3. ASSUME NEW s \in Tokens, token[s].status = "unused", token[req[r].token].status # "unused",
               token' = [token EXCEPT ![req[r].token].status = "revoked",
                                      ![s] = Issued(token[req[r].token].user, req[r].token)]
        PROVE  TokenRotated
    BY <2>1, <2>3 DEF TokenRotated
  <2> QED
    BY <1>3, <2>2, <2>3 DEF RefreshCommit
<1>4. ASSUME NEW u \in Users, Logout(u) PROVE TokensStruck
  BY <1>4 DEF Logout, TokensStruck
<1>5. ASSUME NEW u \in Users, DeleteUser(u) PROVE TokensStruck
  <2>1. \A t \in Tokens : token[t].user = u => token[t].status # "unused"
    BY ConstantsAssumption DEF TInv, TokenOK, NewToken
  <2> QED
    BY <1>5, <2>1 DEF DeleteUser, TokensStruck
<1>6. ASSUME NEW t \in Tokens, Expire(t) PROVE TokenAged
  BY <1>6 DEF Expire, TokenAged
<1> QED
  BY <1>1, <1>2, <1>3, <1>4, <1>5, <1>6 DEF Next, vars, history, LoginRead, LoginLookup, RefreshRead, RefreshUser, SetActive

LEMMA TypeInit == Init => TInv
  BY ConstantsAssumption
  DEF Init, TInv, TokenOK, ReqOK, RestOK, InFlight, NewToken, Token, NewRequest, Request, Account

\* What a step does to the requests: nothing, or one of them starts, or one is answered.
LEMMA RequestWriters ==
  ASSUME TInv, [Next]_vars
  PROVE  \/ UNCHANGED req
         \/ \E r \in Requests, q \in Request :
               /\ req' = [req EXCEPT ![r] = q]
               /\ q.pc # "done" /\ q.op = "login" => q.name \in Names
               /\ q.pc # "done" /\ q.op = "refresh" => /\ q.token \in Tokens
                                                       /\ token[q.token].status # "unused"
<1> DEFINE Goal == \E r \in Requests, q \in Request :
               /\ req' = [req EXCEPT ![r] = q]
               /\ q.pc # "done" /\ q.op = "login" => q.name \in Names
               /\ q.pc # "done" /\ q.op = "refresh" => /\ q.token \in Tokens
                                                       /\ token[q.token].status # "unused"
<1>1. ASSUME NEW r \in Requests, NEW n \in Names, LoginRead(r, n) PROVE Goal
  <2>1. ASSUME NEW u \in Users, NEW pc \in {"read", "done"}, NEW reply \in {"none", "unauthorized"}
        PROVE  LET q == [NewRequest EXCEPT !.op = "login", !.name = n, !.user = u, !.pc = pc, !.reply = reply]
               IN  q \in Request /\ q.op = "login" /\ q.name = n
    BY ConstantsAssumption DEF NewRequest, Request
  <2>2. LET q == [NewRequest EXCEPT !.op = "login", !.name = n, !.pc = "looked"]
        IN  q \in Request /\ q.op = "login" /\ q.name = n
    BY ConstantsAssumption DEF NewRequest, Request
  <2>3. ASSUME NEW u \in Users,
               req' = [req EXCEPT ![r] =
                        [NewRequest EXCEPT !.op = "login", !.name = n, !.user = u,
                           !.pc = IF account[u] = "active" THEN "read" ELSE "done",
                           !.reply = IF account[u] = "active" THEN "none" ELSE "unauthorized"]]
        PROVE  Goal
    <3>1. CASE account[u] = "active"
      BY <2>1, <2>3, <3>1
    <3>2. CASE account[u] # "active"
      BY <2>1, <2>3, <3>2
    <3> QED
      BY <3>1, <3>2
  <2>4. ASSUME req' = [req EXCEPT ![r] = [NewRequest EXCEPT !.op = "login", !.name = n, !.pc = "looked"]]
        PROVE  Goal
    BY <2>2, <2>4
  <2> HIDE DEF Goal
  <2> QED
    BY <1>1, <2>3, <2>4 DEF LoginRead, Named
<1>2. ASSUME NEW r \in Requests, NEW t \in Tokens, RefreshRead(r, t) PROVE Goal
  <2>1. ASSUME NEW pc \in {"looked", "done"}, NEW reply \in {"none", "unauthorized"}
        PROVE  LET q == [NewRequest EXCEPT !.op = "refresh", !.token = t, !.pc = pc, !.reply = reply]
               IN  q \in Request /\ q.op = "refresh" /\ q.token = t
    BY ConstantsAssumption DEF NewRequest, Request
  <2> QED
    BY <1>2, <2>1 DEF RefreshRead
<1>3. ASSUME NEW r \in Requests, NEW reply \in {"ok", "error"}, Answer(r, reply) PROVE Goal
  <2> DEFINE q == [req[r] EXCEPT !.pc = "done", !.reply = reply]
  <2>1. q \in Request /\ q.pc = "done"
    BY DEF TInv, ReqOK, Request
  <2>2. req' = [req EXCEPT ![r] = q]
    BY <1>3 DEF Answer
  <2> HIDE DEF q
  <2> QED
    BY <2>1, <2>2
<1>4. ASSUME NEW r \in Requests, LoginReturning(r) \/ LoginCreating(r) \/ RefreshCommit(r)
      PROVE  Goal
  BY <1>3, <1>4 DEF LoginReturning, LoginCreating, RefreshCommit
<1>5. ASSUME NEW r \in Requests, InFlight(r), NEW q \in Request, req' = [req EXCEPT ![r] = q],
             q.op = req[r].op, q.name = req[r].name, q.token = req[r].token
      PROVE  Goal
  <2>1. /\ req[r].op = "login" => req[r].name \in Names
        /\ req[r].op = "refresh" => req[r].token \in Tokens /\ token[req[r].token].status # "unused"
    BY <1>5 DEF TInv, ReqOK
  <2> QED
    BY <1>5, <2>1
<1>6. ASSUME NEW r \in Requests, NEW active \in BOOLEAN, NEW u \in Users \cup {NoUser}, InFlight(r),
             req' = [req EXCEPT ![r].user = u,
                                ![r].pc = IF active THEN "read" ELSE "done",
                                ![r].reply = IF active THEN "none" ELSE "unauthorized"]
      PROVE  Goal
  <2> DEFINE q == [req[r] EXCEPT !.user = u, !.pc = IF active THEN "read" ELSE "done",
                                 !.reply = IF active THEN "none" ELSE "unauthorized"]
  <2>1. /\ q \in Request /\ q.op = req[r].op /\ q.name = req[r].name /\ q.token = req[r].token
        /\ req' = [req EXCEPT ![r] = q]
    BY <1>6 DEF TInv, ReqOK, Request
  <2> HIDE DEF q, Goal
  <2> QED
    BY <1>5, <1>6, <2>1
<1>7. ASSUME NEW r \in Requests, LoginLookup(r) PROVE Goal
  <2>1. InFlight(r)
    BY <1>7 DEF LoginLookup, InFlight
  <2>2. ASSUME NEW u \in Users,
               req' = [req EXCEPT ![r].user = u,
                                  ![r].pc = IF account[u] = "active" THEN "read" ELSE "done",
                                  ![r].reply = IF account[u] = "active" THEN "none" ELSE "unauthorized"]
        PROVE  Goal
    BY <1>6, <2>1, <2>2
  <2>3. ASSUME req' = [req EXCEPT ![r].pc = "read"] PROVE Goal
    <3> DEFINE q == [req[r] EXCEPT !.pc = "read"]
    <3>1. /\ q \in Request /\ q.op = req[r].op /\ q.name = req[r].name /\ q.token = req[r].token
          /\ req' = [req EXCEPT ![r] = q]
      BY <2>3 DEF TInv, ReqOK, Request
    <3> HIDE DEF q, Goal
    <3> QED
      BY <1>5, <2>1, <3>1
  <2> HIDE DEF Goal
  <2> QED
    BY <1>7, <2>2, <2>3 DEF LoginLookup, Named
<1>8. ASSUME NEW r \in Requests, RefreshUser(r) PROVE Goal
  <2> DEFINE active == account[token[req[r].token].user] = "active"
             q == [req[r] EXCEPT !.pc = IF active THEN "read" ELSE "done",
                                 !.reply = IF active THEN "none" ELSE "unauthorized"]
  <2>1. /\ q \in Request /\ q.op = req[r].op /\ q.name = req[r].name /\ q.token = req[r].token
        /\ req' = [req EXCEPT ![r] = q]
    BY <1>8 DEF RefreshUser, TInv, ReqOK, Request
  <2>2. InFlight(r)
    BY <1>8 DEF RefreshUser, InFlight
  <2> HIDE DEF q, Goal
  <2> QED
    BY <1>5, <2>1, <2>2
<1> HIDE DEF Goal
<1>9. UNCHANGED req \/ Goal
  BY <1>1, <1>2, <1>4, <1>7, <1>8 DEF Next, vars, history, Logout, DeleteUser, SetActive, Expire
<1> QED
  BY <1>9 DEF Goal

LEMMA TypeStep == TInv /\ [Next]_vars => TInv'
<1> SUFFICES ASSUME TInv, [Next]_vars PROVE TInv'
  OBVIOUS
<1>1. /\ TokenOK'
      /\ \A t \in Tokens : token[t].status # "unused" => token'[t].status # "unused"
  BY TokenWriters, TokensStay DEF TInv
<1>2. ReqOK'
  BY <1>1, RequestWriters DEF TInv, ReqOK, InFlight
<1>3. RestOK'
  <2>1. ASSUME NEW r \in Requests, LoginReturning(r) PROVE RestOK'
    BY <2>1 DEF LoginReturning, TInv, RestOK
  <2>2. ASSUME NEW r \in Requests, LoginCreating(r) PROVE RestOK'
    <3>1. req[r].name \in Names
      BY <2>2 DEF LoginCreating, TInv, ReqOK, InFlight
    <3> QED
      BY <2>2, <3>1 DEF LoginCreating, history, TInv, RestOK, Account
  <2>3. ASSUME NEW u \in Users, Logout(u) \/ DeleteUser(u) \/ \E active \in BOOLEAN : SetActive(u, active)
        PROVE  RestOK'
    BY <2>3 DEF Logout, InFlightOf, DeleteUser, SetActive, history, TInv, RestOK, Account
  <2>4. ASSUME NEW r \in Requests, RefreshCommit(r) \/ \E t \in Tokens : RefreshRead(r, t) PROVE RestOK'
    BY <2>4 DEF RefreshCommit, RefreshRead, TInv, RestOK
  <2> QED
    BY <2>1, <2>2, <2>3, <2>4 DEF Next, vars, history, LoginRead, LoginLookup, RefreshUser, Expire, TInv, RestOK
<1> QED
  BY <1>1, <1>2, <1>3 DEF TInv

\* Type correctness of Sessions: every variable keeps its type, and every token issued
\* has a user.
THEOREM TypeCorrect == Spec => []TypeOK
<1>1. TInv => TypeOK
  BY DEF TInv, TypeOK, TokenOK, ReqOK, RestOK
<1> QED
  BY <1>1, TypeInit, TypeStep, PTL DEF Spec

-----------------------------------------------------------------------------

LEMMA ParentSpentStep == TInv /\ ParentSpent /\ [Next]_vars => ParentSpent'
<1> SUFFICES ASSUME TInv, ParentSpent, [Next]_vars PROVE ParentSpent'
  OBVIOUS
<1> USE ConstantsAssumption
<1>1. TokenOK /\ \A t \in Tokens : token[t] \in Token
  BY DEF TInv, TokenOK
<1>2. CASE UNCHANGED token
  BY <1>2 DEF ParentSpent
<1>3. CASE TokenIssued
  <2>1. PICK t \in Tokens, u \in Users :
          token[t].status = "unused" /\ token' = [token EXCEPT ![t] = Issued(u, NoToken)]
    BY <1>3 DEF TokenIssued
  <2> QED
    BY <1>1, <2>1, IssuedIsToken DEF ParentSpent, TokenOK, Token
<1>4. CASE TokenRotated
  <2>1. PICK t \in Tokens, s \in Tokens :
          /\ token[t].status # "unused" /\ token[s].status = "unused"
          /\ token' = [token EXCEPT ![t] = [token[t] EXCEPT !.status = "revoked"],
                                    ![s] = Issued(token[t].user, t)]
    BY <1>4 DEF TokenRotated
  <2>2. LET old == [token[t] EXCEPT !.status = "revoked"]
        IN  old.status = "revoked" /\ old.parent = token[t].parent
    BY <1>1, Struck
  <2>3. Issued(token[t].user, t).parent = t /\ s # t
    BY <2>1 DEF Issued
  <2> QED
    BY <1>1, <2>1, <2>2, <2>3 DEF ParentSpent, TokenOK, Token
<1>5. CASE TokensStruck
  <2>1. ASSUME NEW t \in Tokens
        PROVE  /\ token'[t].parent = token[t].parent
               /\ token'[t].status = token[t].status \/ token'[t].status \in {"revoked", "deleted"}
    <3>1. ASSUME NEW s \in {"revoked", "deleted"}, token'[t] = [token[t] EXCEPT !.status = s]
          PROVE  token'[t].status = s /\ token'[t].parent = token[t].parent
      <4>1. LET new == [token[t] EXCEPT !.status = s]
            IN  new.status = s /\ new.parent = token[t].parent
        BY <1>1, Struck
      <4> QED
        BY <3>1, <4>1
    <3> QED
      BY <1>5, <3>1 DEF TokensStruck
  <2>2. \A t \in Tokens : token[t].parent \in Tokens \cup {NoToken}
    BY <1>1 DEF Token
  <2> QED
    BY <2>1, <2>2 DEF ParentSpent
<1>6. CASE TokenAged
  BY <1>1, <1>6 DEF TokenAged, ParentSpent, TokenOK, Token
<1> QED
  BY <1>2, <1>3, <1>4, <1>5, <1>6, TokenWriters

\* The parent of a token is never live again, for any number of tokens and requests.
THEOREM ParentsAreSpent == Spec => []ParentSpent
<1>1. Init => ParentSpent
  BY DEF Init, ParentSpent, NewToken
<1> QED
  BY <1>1, TypeInit, TypeStep, ParentSpentStep, PTL DEF Spec

\* A revoked token stays revoked, whatever was in flight when it was revoked.
THEOREM RevocationIsForever == Spec => RevokedForever
<1> DEFINE Keeps == \A t \in Tokens : token[t].status = "revoked" => token'[t].status \in {"revoked", "deleted"}
<1>1. TInv /\ [Next]_vars => Keeps
  <2> SUFFICES ASSUME TInv, [Next]_vars, NEW t \in Tokens, token[t].status = "revoked"
               PROVE  token'[t].status \in {"revoked", "deleted"}
    OBVIOUS
  <2>1. TokenOK /\ token[t] \in Token
    BY DEF TInv, TokenOK
  <2>2. \A s \in {"revoked", "deleted"} : [token[t] EXCEPT !.status = s].status = s
    BY <2>1 DEF Token
  <2>3. CASE TokenRotated
    BY <2>1, <2>2, <2>3 DEF TokenRotated, TokenOK
  <2>4. CASE TokensStruck
    BY <2>2, <2>4 DEF TokensStruck
  <2> QED
    BY <2>1, <2>3, <2>4, TokenWriters DEF TokenIssued, TokenAged, TokenOK
<1> QED
  BY <1>1, TypeInit, TypeStep, PTL DEF Spec, RevokedForever

-----------------------------------------------------------------------------

LEMMA OwnedStep == TInv /\ TokensOwned /\ [Next]_vars => TokensOwned'
<1> SUFFICES ASSUME TInv, TokensOwned, [Next]_vars PROVE TokensOwned'
  OBVIOUS
<1>0. \A t \in Tokens : token[t] \in Token
  BY DEF TInv, TokenOK
<1>1. ASSUME NEW r \in Requests, LoginReturning(r) PROVE TokensOwned'
  <2>1. PICK u : u = req[r].user
    OBVIOUS
  <2>2. UNCHANGED token \/ (Exists(u) /\ \E t \in Tokens : token' = [token EXCEPT ![t] = Issued(u, NoToken)])
    BY <1>1, <2>1 DEF LoginReturning
  <2> QED
    BY <1>0, <1>1, <2>2 DEF TInv, TokenOK, LoginReturning, TokensOwned, Exists, Issued
<1>2. ASSUME NEW r \in Requests, LoginCreating(r) PROVE TokensOwned'
  <2>1. CASE UNCHANGED <<account, token>>
    BY <2>1 DEF TokensOwned, Exists
  <2>2. ASSUME NEW u \in Users, NEW t \in Tokens, account[u] = "unused",
               account' = [account EXCEPT ![u] = "active"],
               token' = [token EXCEPT ![t] = Issued(u, NoToken)]
        PROVE  TokensOwned'
    BY <2>2 DEF TInv, TokenOK, RestOK, TokensOwned, Exists, Issued
  <2> QED
    BY <1>2, <2>1, <2>2 DEF LoginCreating
<1>3. ASSUME NEW r \in Requests, RefreshCommit(r) PROVE TokensOwned'
  <2>1. CASE UNCHANGED token
    BY <1>3, <2>1 DEF RefreshCommit, TokensOwned, Exists
  <2>2. ASSUME NEW t \in Tokens, NEW s \in Tokens, token[t].status \in {"live", "expired", "revoked"},
               token[s].status = "unused",
               token' = [token EXCEPT ![t].status = "revoked", ![s] = Issued(token[t].user, t)]
        PROVE  TokensOwned'
    <3>1. account' = account /\ Exists(token[t].user) /\ s # t
      BY <1>3, <2>2 DEF RefreshCommit, TokensOwned
    <3>2. Issued(token[t].user, t).user = token[t].user
      BY DEF Issued
    <3>3. token'[t].user = token[t].user /\ token'[s].user = token[t].user
      BY <1>0, <2>2, <3>1, <3>2 DEF Token, TInv, TokenOK
    <3> QED
      BY <1>0, <2>2, <3>1, <3>3 DEF TInv, TokenOK, TokensOwned, Exists
  <2>3. req[r].token \in Tokens
    BY <1>3 DEF RefreshCommit, TInv, ReqOK, InFlight
  <2> QED
    BY <1>3, <2>1, <2>2, <2>3 DEF RefreshCommit
<1>4. ASSUME NEW u \in Users, Logout(u) PROVE TokensOwned'
  <2>1. \A t \in Tokens : \/ token'[t] = token[t]
                          \/ /\ token[t].status \in {"live", "expired"}
                             /\ token'[t].user = token[t].user
    BY <1>0, <1>4 DEF Logout, Token
  <2> QED
    BY <1>4, <2>1 DEF Logout, TokensOwned, Exists
<1>5. ASSUME NEW u \in Users, DeleteUser(u) PROVE TokensOwned'
  <2>1. \A t \in Tokens : \/ token'[t] = token[t] /\ token[t].user # u
                          \/ token'[t].status = "deleted"
    BY <1>0, <1>5 DEF DeleteUser, Token
  <2> QED
    BY <1>5, <2>1 DEF DeleteUser, TInv, RestOK, TokensOwned, Exists
<1>6. ASSUME NEW u \in Users, NEW active \in BOOLEAN, SetActive(u, active) PROVE TokensOwned'
  BY <1>6 DEF SetActive, TInv, RestOK, TokensOwned, Exists
<1>7. ASSUME NEW t \in Tokens, Expire(t) PROVE TokensOwned'
  BY <1>0, <1>7 DEF Expire, TInv, TokenOK, Token, TokensOwned, Exists
<1> QED
  BY <1>1, <1>2, <1>3, <1>4, <1>5, <1>6, <1>7
  DEF Next, vars, history, LoginRead, LoginLookup, RefreshRead, RefreshUser, TokensOwned, Exists

LEMMA OneAccountStep == TInv /\ OneAccountPerName /\ [Next]_vars => OneAccountPerName'
<1> SUFFICES ASSUME TInv, OneAccountPerName, [Next]_vars PROVE OneAccountPerName'
  OBVIOUS
<1>1. ASSUME NEW r \in Requests, LoginCreating(r) PROVE OneAccountPerName'
  <2>1. CASE UNCHANGED <<name, account>>
    BY <2>1 DEF OneAccountPerName, Exists
  <2>2. ASSUME NEW u \in Users, Named(req[r].name) = {},
               account' = [account EXCEPT ![u] = "active"], name' = [name EXCEPT ![u] = req[r].name]
        PROVE  OneAccountPerName'
    BY <2>2 DEF TInv, RestOK, OneAccountPerName, Exists, Named
  <2> QED
    BY <1>1, <2>1, <2>2 DEF LoginCreating
<1>2. ASSUME NEW u \in Users, DeleteUser(u) \/ \E active \in BOOLEAN : SetActive(u, active)
      PROVE  OneAccountPerName'
  BY <1>2 DEF DeleteUser, SetActive, TInv, RestOK, OneAccountPerName, Exists
<1> QED
  BY <1>1, <1>2
  DEF Next, vars, history, LoginRead, LoginLookup, LoginReturning, RefreshRead, RefreshUser, RefreshCommit, Logout, Expire,
      OneAccountPerName, Exists

\* However many first logins with one display name overlap, it names one account; and no
\* token that can be presented outlives its account, nor is issued after it is gone.
THEOREM AccountsAreSound == Spec => []AccountsSound
<1>1. Init => OneAccountPerName /\ TokensOwned
  BY DEF Init, OneAccountPerName, TokensOwned, Exists, NewToken
<1>2. TInv /\ OneAccountPerName /\ TokensOwned /\ [Next]_vars => OneAccountPerName' /\ TokensOwned'
  BY OneAccountStep, OwnedStep
<1> QED
  BY <1>1, <1>2, TypeInit, TypeStep, PTL DEF Spec, AccountsSound

-----------------------------------------------------------------------------
(* Refreshes that overlap, and refreshes in flight at a logout.               *)

\* A request that starts to rotate a token found it live; it goes on doing so until it
\* is answered.
LEMMA RotatingStep ==
  ASSUME TInv, [Next]_vars, NEW q \in Requests, NEW t \in Tokens, Rotating(q, t)'
  PROVE  Rotating(q, t) \/ (RefreshRead(q, t) /\ token[t].status = "live")
<1>0. req \in [Requests -> Request]
  BY DEF TInv, ReqOK
<1>1. ASSUME NEW r \in Requests, NEW n \in Names, LoginRead(r, n) PROVE Rotating(q, t)
  <2>1. req'[r].op = "login" /\ \A p \in Requests \ {r} : req'[p] = req[p]
    BY <1>0, <1>1 DEF LoginRead, NewRequest
  <2> QED
    BY <2>1 DEF Rotating, InFlight
<1>2. ASSUME NEW r \in Requests, LoginLookup(r) PROVE Rotating(q, t)
  <2>1. req'[r].op = "login" /\ \A p \in Requests \ {r} : req'[p] = req[p]
    <3>1. req[r] \in Request /\ req[r].op = "login"
      BY <1>0, <1>2 DEF LoginLookup
    <3>2. ASSUME NEW u \in Users,
                 req' = [req EXCEPT ![r].user = u,
                                    ![r].pc = IF account[u] = "active" THEN "read" ELSE "done",
                                    ![r].reply = IF account[u] = "active" THEN "none" ELSE "unauthorized"]
          PROVE  req'[r].op = "login" /\ \A p \in Requests \ {r} : req'[p] = req[p]
      BY <1>0, <3>1, <3>2 DEF Request
    <3>3. ASSUME req' = [req EXCEPT ![r].pc = "read"]
          PROVE  req'[r].op = "login" /\ \A p \in Requests \ {r} : req'[p] = req[p]
      BY <1>0, <3>1, <3>3 DEF Request
    <3> QED
      BY <1>2, <3>2, <3>3 DEF LoginLookup, Named
  <2> QED
    BY <2>1 DEF Rotating, InFlight
<1>3. ASSUME NEW r \in Requests, NEW reply, Answer(r, reply) PROVE Rotating(q, t)
  <2>1. req'[r].pc = "done" /\ \A p \in Requests \ {r} : req'[p] = req[p]
    BY <1>0, <1>3 DEF Answer
  <2> QED
    BY <2>1 DEF Rotating, InFlight
<1>4. ASSUME NEW r \in Requests, LoginReturning(r) \/ LoginCreating(r) \/ RefreshCommit(r)
      PROVE  Rotating(q, t)
  BY <1>3, <1>4 DEF LoginReturning, LoginCreating, RefreshCommit
<1>5. ASSUME NEW r \in Requests, NEW c \in Tokens, RefreshRead(r, c)
      PROVE  Rotating(q, t) \/ (RefreshRead(q, t) /\ token[t].status = "live")
  <2>1. /\ \A p \in Requests \ {r} : req'[p] = req[p]
        /\ req'[r].token = c
        /\ req'[r].pc # "done" => token[c].status = "live"
    BY <1>0, <1>5 DEF RefreshRead, NewRequest
  <2> QED
    BY <1>5, <2>1 DEF Rotating, InFlight
<1>6. ASSUME NEW r \in Requests, RefreshUser(r) PROVE Rotating(q, t)
  <2>1. /\ InFlight(r) /\ req'[r].op = req[r].op /\ req'[r].token = req[r].token
        /\ \A p \in Requests \ {r} : req'[p] = req[p]
    BY <1>0, <1>6 DEF RefreshUser, InFlight
  <2> QED
    BY <2>1 DEF Rotating, InFlight
<1> QED
  BY <1>1, <1>2, <1>4, <1>5, <1>6
  DEF Next, vars, Logout, DeleteUser, SetActive, Expire, Rotating, InFlight

\* The parents of the tokens: only a commit of a refresh makes a token a parent.
LEMMA ParentsStep ==
  ASSUME TInv, [Next]_vars, NEW t \in Tokens, NEW s \in Tokens,
         token'[s].parent = t, token[s].parent # t
  PROVE  /\ token[s].status = "unused" /\ \A c \in Tokens \ {s} : token'[c].parent = token[c].parent
         /\ \E r \in Requests : RefreshCommit(r) /\ req[r].token = t
<1>0. TokenOK /\ \A c \in Tokens : token[c] \in Token
  BY DEF TInv, TokenOK
<1>1. \/ UNCHANGED token \/ TokenIssued \/ TokensStruck \/ TokenAged
      \/ \E r \in Requests : RefreshCommit(r)
  BY TokenWriters
<1>2. CASE TokenIssued
  BY <1>0, <1>2, IssuedIsToken, ConstantsAssumption DEF TokenIssued, TokenOK
<1>3. CASE TokensStruck
  <2>1. \A c \in Tokens, k \in {"revoked", "deleted"} : [token[c] EXCEPT !.status = k].parent = token[c].parent
    BY <1>0 DEF Token
  <2> QED
    BY <1>3, <2>1 DEF TokensStruck
<1>4. CASE TokenAged
  BY <1>0, <1>4 DEF TokenAged, TokenOK, Token
<1>5. ASSUME NEW r \in Requests, RefreshCommit(r)
      PROVE  /\ token[s].status = "unused" /\ \A c \in Tokens \ {s} : token'[c].parent = token[c].parent
             /\ req[r].token = t
  <2> DEFINE p == req[r].token
  <2>1. p \in Tokens /\ token[p].status # "unused"
    BY <1>5 DEF RefreshCommit, TInv, ReqOK, InFlight
  <2>2. \/ UNCHANGED token
        \/ \E n \in Tokens : /\ token[n].status = "unused"
                             /\ token' = [token EXCEPT ![p].status = "revoked",
                                                       ![n] = Issued(token[p].user, p)]
    BY <1>5 DEF RefreshCommit
  <2> HIDE DEF p
  <2>3. PICK n \in Tokens : /\ token[n].status = "unused"
                            /\ token' = [token EXCEPT ![p].status = "revoked",
                                                      ![n] = Issued(token[p].user, p)]
    BY <2>2
  <2>4. Issued(token[p].user, p).parent = p /\ n # p
    BY <2>1, <2>3 DEF Issued
  <2>5. token'[n].parent = p /\ \A c \in Tokens \ {n} : token'[c].parent = token[c].parent
    BY <1>0, <2>1, <2>3, <2>4 DEF TokenOK, Token
  <2> QED
    BY <2>3, <2>5 DEF p
<1> QED
  BY <1>1, <1>2, <1>3, <1>4, <1>5

\* Two refreshes that rotate one token, or one that rotates a token which already has a
\* successor, are what `shared` records.
RaceInv ==
    /\ \A q, r \in Requests, t \in Tokens : Rotating(q, t) /\ Rotating(r, t) => q = r \/ t \in shared
    /\ \A r \in Requests, s, t \in Tokens : Rotating(r, t) /\ token[s].parent = t => t \in shared
    /\ RotatedOnce

LEMMA SharedGrows == ASSUME [Next]_vars PROVE shared \subseteq shared'
BY DEF Next, vars, history, LoginRead, LoginLookup, LoginReturning, LoginCreating, RefreshRead, RefreshUser,
       RefreshCommit, Logout, DeleteUser, SetActive, Expire

LEMMA RaceStep == TInv /\ ParentSpent /\ RaceInv /\ [Next]_vars => RaceInv'
<1> SUFFICES ASSUME TInv, ParentSpent, RaceInv, [Next]_vars PROVE RaceInv'
  OBVIOUS
<1>0. shared \subseteq shared'
  BY SharedGrows
<1>1. ASSUME NEW q \in Requests, NEW r \in Requests, NEW t \in Tokens, RefreshRead(q, t), token[t].status = "live",
             Rotating(r, t)', Rotating(q, t)', q # r
      PROVE  t \in shared'
  <2>1. req'[r] = req[r]
    BY <1>1 DEF RefreshRead, TInv, ReqOK
  <2>2. Rotating(r, t)
    BY <1>1, <2>1 DEF Rotating, InFlight
  <2> QED
    BY <1>1, <2>2 DEF RefreshRead
<1>2. ASSUME NEW q \in Requests, NEW r \in Requests, NEW t \in Tokens, Rotating(q, t)', Rotating(r, t)', q # r
      PROVE  t \in shared'
  <2>1. \/ Rotating(q, t)
        \/ RefreshRead(q, t) /\ token[t].status = "live"
    BY <1>2, RotatingStep
  <2>2. \/ Rotating(r, t)
        \/ RefreshRead(r, t) /\ token[t].status = "live"
    BY <1>2, RotatingStep
  <2> QED
    BY <1>0, <1>1, <1>2, <2>1, <2>2 DEF RaceInv
<1>3. ASSUME NEW r \in Requests, NEW s \in Tokens, NEW t \in Tokens, Rotating(r, t)', token'[s].parent = t
      PROVE  t \in shared'
  <2>1. CASE token[s].parent = t
    <3>1. CASE Rotating(r, t)
      BY <1>0, <2>1, <3>1 DEF RaceInv
    <3>2. CASE token[t].status = "live"
      BY <2>1, <3>2, ConstantsAssumption DEF ParentSpent
    <3> QED
      BY <1>3, <3>1, <3>2, RotatingStep
  <2>2. CASE token[s].parent # t
    <3>1. PICK q \in Requests : RefreshCommit(q) /\ req[q].token = t
      BY <1>3, <2>2, ParentsStep
    <3>2. Rotating(q, t) /\ req[q].pc = "read"
      BY <3>1 DEF RefreshCommit, Rotating, InFlight
    <3>3. req'[q].pc = "done"
      <4>1. req[q] \in Request /\ \E reply \in {"ok", "error"} : Answer(q, reply)
        BY <3>1 DEF RefreshCommit, TInv, ReqOK
      <4> QED
        BY <4>1 DEF Answer, Request, TInv, ReqOK
    <3>4. r # q
      BY <1>3, <3>3 DEF Rotating, InFlight
    <3>5. ~RefreshRead(r, t)
      <4>1. RefreshRead(r, t) => req'[q] = req[q]
        BY <3>4 DEF RefreshRead, TInv, ReqOK
      <4> QED
        BY <3>2, <3>3, <4>1
    <3>6. Rotating(r, t)
      BY <1>3, <3>5, RotatingStep
    <3> QED
      BY <1>0, <3>2, <3>4, <3>6 DEF RaceInv
  <2> QED
    BY <2>1, <2>2
<1>4. RotatedOnce'
  <2> SUFFICES ASSUME NEW s \in Tokens, NEW c \in Tokens, token'[s].parent = token'[c].parent,
                      token'[s].parent # NoToken, s # c
               PROVE  token'[s].parent \in shared'
    BY DEF RotatedOnce
  <2> DEFINE t == token'[s].parent
  <2>1. t \in Tokens
    BY TypeStep DEF TInv, TokenOK, Token
  <2>2. CASE token[s].parent = t /\ token[c].parent = t
    BY <1>0, <2>2 DEF RaceInv, RotatedOnce
  <2>3. ASSUME NEW n \in {s, c}, NEW m \in {s, c}, n # m, token[n].parent # t PROVE t \in shared'
    <3> HIDE DEF t
    <3>1. token'[n].parent = t /\ token'[m].parent = t
      BY <2>3 DEF t
    <3>2. /\ token[m].parent = t
          /\ \E r \in Requests : RefreshCommit(r) /\ req[r].token = t
      BY <2>1, <2>3, <3>1, ParentsStep
    <3>3. PICK r \in Requests : Rotating(r, t)
      BY <3>2 DEF RefreshCommit, Rotating, InFlight
    <3> QED
      BY <1>0, <2>1, <3>2, <3>3 DEF RaceInv
  <2> QED
    BY <2>2, <2>3
<1> QED
  BY <1>2, <1>3, <1>4 DEF RaceInv

\* Rotation is one to one (FR-005), for any number of tokens and requests: a token has two
\* successors only if two refreshes that overlapped both found it valid.
THEOREM RotationIsOneToOne == Spec => []RotatedOnce
<1>1. Init => RaceInv /\ ParentSpent
  BY ConstantsAssumption DEF Init, RaceInv, Rotating, InFlight, NewRequest, RotatedOnce, ParentSpent, NewToken
<1>2. RaceInv => RotatedOnce
  BY DEF RaceInv
<1> QED
  BY <1>1, <1>2, TypeInit, TypeStep, ParentSpentStep, RaceStep, PTL DEF Spec

\* The live tokens of a user who signed off, and those a refresh of theirs is about to
\* exchange, are recorded as escaped; and a user who signed off has an account.
EscapeInv ==
    /\ SignedOffIsFinal
    /\ \A r \in Requests, t \in Tokens :
          Rotating(r, t) /\ token[t].user \in signedOff => t \in escaped
    /\ \A u \in signedOff : account[u] # "unused"

\* What a step that issues no token and lets nobody sign off makes of EscapeInv.
LEMMA EscapeKept ==
  ASSUME TInv, EscapeInv, [Next]_vars, UNCHANGED <<signedOff, escaped>>,
         \A u \in Users : account[u] # "unused" => account'[u] # "unused",
         \A t \in Tokens : /\ token'[t].user = token[t].user
                           /\ token'[t].status = "live" => token[t].status = "live"
  PROVE  EscapeInv'
<1>1. SignedOffIsFinal'
  BY DEF EscapeInv, SignedOffIsFinal
<1>2. ASSUME NEW r \in Requests, NEW t \in Tokens, Rotating(r, t)', token'[t].user \in signedOff'
      PROVE  t \in escaped'
  BY <1>2, RotatingStep DEF EscapeInv, SignedOffIsFinal
<1>3. \A u \in signedOff' : account'[u] # "unused"
  BY DEF EscapeInv, TInv, RestOK
<1> QED
  BY <1>1, <1>2, <1>3 DEF EscapeInv

LEMMA EscapeStep == TInv /\ EscapeInv /\ [Next]_vars => EscapeInv'
<1> SUFFICES ASSUME TInv, EscapeInv, [Next]_vars PROVE EscapeInv'
  OBVIOUS
<1>0. TokenOK /\ RestOK /\ \A t \in Tokens : token[t] \in Token
  BY DEF TInv, TokenOK
<1>1. ASSUME NEW r \in Requests, LoginReturning(r) PROVE EscapeInv'
  <2>1. PICK u : u = req[r].user
    OBVIOUS
  <2>2. \/ UNCHANGED <<token, signedOff>>
        \/ /\ signedOff' = signedOff \ {u}
           /\ \E t \in Tokens : /\ token[t].status = "unused"
                                /\ token' = [token EXCEPT ![t] = Issued(u, NoToken)]
    BY <1>1, <2>1 DEF LoginReturning
  <2>3. UNCHANGED <<account, escaped>>
    BY <1>1 DEF LoginReturning
  <2>4. CASE UNCHANGED <<token, signedOff>>
    BY <2>3, <2>4, EscapeKept
  <2>5. ASSUME NEW t \in Tokens, token[t].status = "unused", signedOff' = signedOff \ {u},
               token' = [token EXCEPT ![t] = Issued(u, NoToken)]
        PROVE  EscapeInv'
    <3>1. /\ token'[t].user = u /\ \A c \in Tokens \ {t} : token'[c] = token[c]
      BY <1>0, <2>5 DEF TokenOK, Issued
    <3>2. \A p \in Requests : ~Rotating(p, t)
      BY <2>5 DEF Rotating, TInv, ReqOK
    <3>3. \A p \in Requests, c \in Tokens : Rotating(p, c)' => Rotating(p, c) \/ token[c].status = "live"
      BY RotatingStep
    <3> QED
      BY <2>3, <2>5, <3>1, <3>2, <3>3 DEF EscapeInv, SignedOffIsFinal
  <2> QED
    BY <2>2, <2>4, <2>5
<1>2. ASSUME NEW r \in Requests, LoginCreating(r) PROVE EscapeInv'
  <2>0. UNCHANGED <<signedOff, escaped>>
    BY <1>2 DEF LoginCreating, history
  <2>1. CASE UNCHANGED <<account, token>>
    BY <2>0, <2>1, EscapeKept
  <2>2. ASSUME NEW u \in Users, NEW t \in Tokens, account[u] = "unused", token[t].status = "unused",
               account' = [account EXCEPT ![u] = "active"],
               token' = [token EXCEPT ![t] = Issued(u, NoToken)]
        PROVE  EscapeInv'
    <3>1. /\ token'[t].user = u /\ \A c \in Tokens \ {t} : token'[c] = token[c]
      BY <1>0, <2>2 DEF TokenOK, Issued
    <3>2. u \notin signedOff
      BY <2>2 DEF EscapeInv
    <3>3. \A p \in Requests, c \in Tokens : Rotating(p, c)' => Rotating(p, c) \/ token[c].status = "live"
      BY RotatingStep
    <3>4. \A v \in signedOff : account'[v] # "unused"
      BY <1>0, <2>2 DEF EscapeInv, RestOK
    <3> QED
      BY <2>0, <2>2, <3>1, <3>2, <3>3, <3>4 DEF EscapeInv, SignedOffIsFinal
  <2> QED
    BY <1>2, <2>1, <2>2 DEF LoginCreating
<1>3. ASSUME NEW r \in Requests, RefreshCommit(r) PROVE EscapeInv'
  <2> DEFINE t == req[r].token
  <2>1. t \in Tokens /\ Rotating(r, t) /\ UNCHANGED <<account, signedOff>> /\ token[t].status # "unused"
    BY <1>3 DEF RefreshCommit, TInv, ReqOK, InFlight, Rotating
  <2>2. \/ UNCHANGED <<token, escaped>>
        \/ \E s \in Tokens :
              /\ token[s].status = "unused"
              /\ token' = [token EXCEPT ![t].status = "revoked", ![s] = Issued(token[t].user, t)]
              /\ escaped' = IF t \in escaped THEN escaped \cup {s} ELSE escaped
    BY <1>3 DEF RefreshCommit
  <2> HIDE DEF t
  <2>3. CASE UNCHANGED <<token, escaped>>
    BY <2>1, <2>3, EscapeKept
  <2>4. ASSUME NEW s \in Tokens, token[s].status = "unused",
               token' = [token EXCEPT ![t].status = "revoked", ![s] = Issued(token[t].user, t)],
               escaped' = IF t \in escaped THEN escaped \cup {s} ELSE escaped
        PROVE  EscapeInv'
    <3>1. Issued(token[t].user, t).user = token[t].user /\ s # t
      BY <2>1, <2>4 DEF Issued
    <3>2. /\ token'[s].user = token[t].user /\ token'[t].status = "revoked"
          /\ token'[t].user = token[t].user
          /\ \A c \in Tokens \ {s, t} : token'[c] = token[c]
      BY <1>0, <2>1, <2>4, <3>1 DEF TokenOK, Token
    <3>3. token[t].user \in signedOff => t \in escaped
      BY <2>1 DEF EscapeInv
    <3>4. \A p \in Requests, c \in Tokens : Rotating(p, c)' => Rotating(p, c) \/ token[c].status = "live"
      BY RotatingStep
    <3>5. SignedOffIsFinal'
      BY <2>1, <2>4, <3>2, <3>3 DEF EscapeInv, SignedOffIsFinal
    <3>6. ASSUME NEW p \in Requests, NEW c \in Tokens, Rotating(p, c)', token'[c].user \in signedOff'
          PROVE  c \in escaped'
      <4>1. c # s
        BY <2>4, <3>4, <3>6 DEF Rotating, TInv, ReqOK
      <4>2. token[c].user \in signedOff
        BY <2>1, <3>2, <3>6, <4>1
      <4> QED
        BY <2>4, <3>4, <3>6, <4>2 DEF EscapeInv, SignedOffIsFinal
    <3> QED
      BY <2>1, <3>5, <3>6 DEF EscapeInv
  <2> QED
    BY <2>2, <2>3, <2>4
<1>4. ASSUME NEW u \in Users, Logout(u) PROVE EscapeInv'
  <2>1. \A t \in Tokens : \/ token'[t] = token[t] /\ (token[t].user # u \/ token[t].status # "live")
                          \/ token'[t].status = "revoked" /\ token'[t].user = token[t].user
    BY <1>0, <1>4 DEF Logout, Token
  <2>2. UNCHANGED <<account, req>> /\ signedOff' = signedOff \cup {u}
        /\ escaped' = InFlightOf(u) \cup {t \in escaped : token[t].user # u}
    BY <1>4 DEF Logout
  <2>3. account[u] # "unused"
    BY <1>4 DEF Logout, Exists
  <2> QED
    BY <2>1, <2>2, <2>3 DEF EscapeInv, SignedOffIsFinal, InFlightOf, Rotating, InFlight
<1>5. ASSUME NEW u \in Users, DeleteUser(u) PROVE EscapeInv'
  <2>1. \A t \in Tokens : token'[t].user = token[t].user /\ (token'[t] = token[t] \/ token'[t].status = "deleted")
    BY <1>0, <1>5 DEF DeleteUser, Token
  <2>2. UNCHANGED <<signedOff, escaped>> /\ \A v \in Users : account[v] # "unused" => account'[v] # "unused"
    BY <1>0, <1>5 DEF DeleteUser, RestOK, history
  <2> QED
    BY <2>1, <2>2, EscapeKept
<1>6. ASSUME NEW u \in Users, NEW active \in BOOLEAN, SetActive(u, active) PROVE EscapeInv'
  <2>1. UNCHANGED <<token, signedOff, escaped>> /\ \A v \in Users : account[v] # "unused" => account'[v] # "unused"
    BY <1>0, <1>6 DEF SetActive, RestOK, history
  <2> QED
    BY <2>1, EscapeKept
<1>7. ASSUME NEW t \in Tokens, Expire(t) PROVE EscapeInv'
  <2>1. UNCHANGED <<account, signedOff, escaped>>
    BY <1>7 DEF Expire, history
  <2>2. ASSUME NEW c \in Tokens
        PROVE  token'[c].user = token[c].user /\ (token'[c].status = "live" => token[c].status = "live")
    BY <1>0, <1>7 DEF Expire, TokenOK, Token
  <2>3. \A v \in Users : account[v] # "unused" => account'[v] # "unused"
    BY <2>1
  <2>4. \A c \in Tokens : token'[c].user = token[c].user /\ (token'[c].status = "live" => token[c].status = "live")
    BY <2>2
  <2> QED
    BY <2>1, <2>3, <2>4, EscapeKept
<1>8. CASE UNCHANGED <<account, token, signedOff, escaped>>
  BY <1>8, EscapeKept
<1> QED
  BY <1>1, <1>2, <1>3, <1>4, <1>5, <1>6, <1>7, <1>8
  DEF Next, vars, history, LoginRead, LoginLookup, RefreshRead, RefreshUser

\* Logout leaves its user no live token until they log in again (FR-004), but what comes
\* of a refresh that was in flight when the logout committed.
THEOREM LogoutIsFinal == Spec => []SignedOffIsFinal
<1>1. Init => EscapeInv
  BY DEF Init, EscapeInv, Rotating, InFlight, NewRequest, SignedOffIsFinal, NewToken
<1>2. EscapeInv => SignedOffIsFinal
  BY DEF EscapeInv
<1> QED
  BY <1>1, <1>2, TypeInit, TypeStep, EscapeStep, PTL DEF Spec
=============================================================================
