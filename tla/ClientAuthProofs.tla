-------------------------- MODULE ClientAuthProofs --------------------------
(* Theorems about ClientAuth, for every number of pages, users, tokens and requests. *)
EXTENDS ClientAuth, SessionsProofs, TLAPS

Used(t) == token[t].status # "unused"

Answered(r) == req[r].pc = "done" /\ req[r].reply = "ok"

\* What the logout of leftBy's tokens leaves of a token, ...
Reached(t) == token[t].user # leftBy \/ token[t].status # "live" \/ t \in escaped

\* ... and of what a refresh brings: before its commit, and after it.
PendingReached(r) ==
    /\ InFlight(r) => token[req[r].token].user # leftBy \/ req[r].token \in escaped
    /\ Answered(r) => Reached(issued[r])

Sound(session) ==
    session.token # NoToken =>
        /\ Used(session.token)
        /\ ~session.crossed => /\ token[session.token].user = session.user
                               /\ session.bearer = session.user
        /\ Reached(session.token)

\* A response names the token its request created.
Tied(r) ==
    /\ Answered(r) <=> issued[r] # NoToken
    /\ issued[r] # NoToken =>
          /\ Used(issued[r])
          /\ req[r].op = "refresh" => /\ req[r].token \in Tokens /\ Used(req[r].token)
                                      /\ token[issued[r]].user = token[req[r].token].user

\* What a page waits for is its own request, on the token it presented; meanwhile its
\* session is the one it presented the token of, or crossed.
Waits(p) ==
    /\ page[p].refreshing # NoRequest =>
          LET r == page[p].refreshing IN
          /\ req[r].op = "refresh" /\ req[r].pc # "new"
          /\ page[p].sent \in Tokens /\ req[r].token = page[p].sent
          /\ ~page[p].session.crossed => page[p].session.token = page[p].sent
          /\ PendingReached(r)
    /\ page[p].login # NoRequest =>
          req[page[p].login].op = "login" /\ req[page[p].login].pc # "new"

\* A page at rest has replaced or forgotten what it presented.
Replaced(p) ==
    page[p].refreshing = NoRequest /\ page[p].session.token # NoToken
        => page[p].session.token # page[p].sent

Held == {stored.token} \cup {page[p].session.token : p \in Pages} \cup {page[p].sent : p \in Pages}

Apart ==
    /\ \A q, r \in Requests : issued[q] = issued[r] /\ issued[q] # NoToken => q = r
    /\ \A p, q \in Pages : p # q =>
          /\ page[p].refreshing # NoRequest => page[p].refreshing # page[q].refreshing
          /\ page[p].login # NoRequest => page[p].login # page[q].login

\* A response nobody has received yet names a token no page and not the storage has.
Undelivered ==
    /\ \A t \in Held : t # NoToken => Used(t)
    /\ \A r \in Requests : Owned(r) /\ issued[r] # NoToken => issued[r] \notin Held

BrowserOK ==
    /\ stored \in Session
    /\ page \in [Pages -> Page]
    /\ issued \in [Requests -> Tokens \cup {NoToken}]
    /\ leftBy \in Users \cup {NoUser}

CInv ==
    /\ BrowserOK
    /\ \A session \in Kept : Sound(session)
    /\ \A r \in Requests : Tied(r)
    /\ \A p \in Pages : Waits(p) /\ Replaced(p)
    /\ Apart /\ Undelivered

-----------------------------------------------------------------------------
(* What the server does to what the browser holds.                            *)

\* A token keeps its user, and only a token that has not been issued becomes live.
LEMMA TokensAge ==
  ASSUME TInv, [Next]_vars, NEW t \in Tokens, Used(t)
  PROVE  /\ Used(t)' /\ token'[t].user = token[t].user
         /\ token'[t].status = "live" => token[t].status = "live"
<1>0. token \in [Tokens -> Token] /\ token[t] \in Token
  BY DEF TInv, TokenOK
<1>1. CASE UNCHANGED token
  BY <1>1 DEF Used
<1>2. CASE TokenIssued
  BY <1>0, <1>2 DEF TokenIssued, Used
<1>3. CASE TokenRotated
  BY <1>0, <1>3 DEF TokenRotated, Used, Token
<1>4. CASE TokensStruck
  BY <1>0, <1>4 DEF TokensStruck, Used, Token
<1>5. CASE TokenAged
  BY <1>0, <1>5 DEF TokenAged, Used, Token
<1> QED
  BY <1>1, <1>2, <1>3, <1>4, <1>5, TokenWriters

\* A request that has begun keeps its operation and its token, and its answer.
LEMMA RequestsAge ==
  ASSUME TInv, [Next]_vars, NEW r \in Requests, req[r].pc # "new"
  PROVE  /\ req'[r].pc # "new" /\ req'[r].op = req[r].op /\ req'[r].token = req[r].token
         /\ InFlight(r)' => InFlight(r)
         /\ req[r].pc = "done" => req'[r] = req[r]
<1>0. req \in [Requests -> Request] /\ req[r] \in Request
  BY DEF TInv, ReqOK
<1> DEFINE Goal == /\ req'[r].pc # "new" /\ req'[r].op = req[r].op /\ req'[r].token = req[r].token
                   /\ InFlight(r)' => InFlight(r)
                   /\ req[r].pc = "done" => req'[r] = req[r]
<1>1. CASE req'[r] = req[r]
  BY <1>1 DEF InFlight
<1>2. ASSUME NEW q \in Requests, NEW n \in Names, LoginRead(q, n) PROVE Goal
  BY <1>0, <1>1, <1>2 DEF LoginRead, MayStart
<1>3. ASSUME NEW q \in Requests, NEW t \in Tokens, RefreshRead(q, t) PROVE Goal
  BY <1>0, <1>1, <1>3 DEF RefreshRead, MayStart
<1>4. ASSUME NEW q \in Requests, NEW reply, req[q].pc # "done", Answer(q, reply) PROVE Goal
  BY <1>0, <1>4 DEF Answer, InFlight, Request
<1>5. ASSUME NEW q \in Requests, LoginReturning(q) \/ LoginCreating(q) \/ RefreshCommit(q) PROVE Goal
  BY <1>4, <1>5 DEF LoginReturning, LoginCreating, RefreshCommit
<1>6. ASSUME NEW q \in Requests, LoginLookup(q) PROVE Goal
  <2>0. req[q].pc = "looked"
    BY <1>6 DEF LoginLookup
  <2>1. ASSUME NEW u,
               req' = [req EXCEPT ![q].user = u,
                                  ![q].pc = IF account[u] = "active" THEN "read" ELSE "done",
                                  ![q].reply = IF account[u] = "active" THEN "none" ELSE "unauthorized"]
        PROVE  Goal
    BY <1>0, <2>0, <2>1 DEF InFlight, Request
  <2>2. ASSUME req' = [req EXCEPT ![q].pc = "read"] PROVE Goal
    BY <1>0, <2>0, <2>2 DEF InFlight, Request
  <2> HIDE DEF Goal
  <2> QED
    BY <1>6, <2>1, <2>2 DEF LoginLookup
<1>7. ASSUME NEW q \in Requests, RefreshUser(q) PROVE Goal
  BY <1>0, <1>7 DEF RefreshUser, InFlight, Request
<1>8. CASE UNCHANGED req
  BY <1>1, <1>8
<1> QED
  BY <1>2, <1>3, <1>5, <1>6, <1>7, <1>8 DEF Next, vars, Logout, DeleteUser, SetActive, Expire

\* Only the next logout of its user takes a token out of `escaped`.
LEMMA EscapesAge ==
  ASSUME TInv, [Next]_vars, NEW t \in escaped
  PROVE  t \in escaped' \/ \E u \in Users : Logout(u) /\ token[t].user = u
<1>0. t \in Tokens
  BY DEF TInv, RestOK
<1>1. ASSUME NEW u \in Users, Logout(u) PROVE t \in escaped' \/ token[t].user = u
  BY <1>0, <1>1 DEF Logout
<1>2. ASSUME NEW r \in Requests, RefreshCommit(r) PROVE t \in escaped'
  BY <1>2 DEF RefreshCommit
<1> QED
  BY <1>1, <1>2 DEF Next, vars, history, LoginRead, LoginLookup, LoginReturning, LoginCreating, RefreshRead, RefreshUser,
     DeleteUser, SetActive, Expire

\* A step of the server, and what `leftBy` makes of it.
Leaves ==
    /\ [Next]_vars
    /\ leftBy' \in {leftBy, NoUser} \/ \E u \in Users : Logout(u) /\ leftBy' = u

LEMMA LogoutReaches ==
  ASSUME TInv, NEW u \in Users, Logout(u), NEW t \in Tokens, token[t].user = u
  PROVE  token'[t].status # "live" /\ \A r \in Requests : Rotating(r, t) => t \in escaped'
<1>1. token \in [Tokens -> Token] /\ token[t] \in Token
  BY DEF TInv, TokenOK
<1>2. token'[t].status # "live"
  BY <1>1 DEF Logout, Token
<1>3. \A r \in Requests : Rotating(r, t) => t \in escaped'
  BY DEF Logout, InFlightOf
<1> QED
  BY <1>2, <1>3

LEMMA ReachedKept ==
  ASSUME TInv, Leaves, NEW t \in Tokens, Used(t), Reached(t) PROVE Reached(t)'
<1>1. /\ token'[t].user = token[t].user /\ token[t].user \in Users
      /\ token'[t].status = "live" => token[t].status = "live"
  BY TokensAge DEF Leaves, TInv, TokenOK, Used
<1>2. ASSUME NEW u \in Users, Logout(u), token[t].user = u PROVE token'[t].status # "live"
  BY <1>2, LogoutReaches
<1>3. token[t].user # NoUser
  BY <1>1, ConstantsAssumption
<1> QED
  BY <1>1, <1>2, <1>3, EscapesAge DEF Leaves, Reached

LEMMA SoundKept ==
  ASSUME TInv, Leaves, NEW session \in Session, Sound(session) PROVE Sound(session)'
<1>1. CASE session.token = NoToken
  BY <1>1 DEF Sound
<1>2. CASE session.token # NoToken
  <2>1. PICK t \in Tokens : t = session.token
    BY <1>2 DEF Session
  <2>2. Used(t) /\ Reached(t)
    BY <1>2, <2>1 DEF Sound
  <2>3. Used(t)' /\ token'[t].user = token[t].user /\ Reached(t)'
    BY <2>2, TokensAge, ReachedKept DEF Leaves
  <2> QED
    BY <1>2, <2>1, <2>3 DEF Sound
<1> QED
  BY <1>1, <1>2

-----------------------------------------------------------------------------
(* What every step, whoever takes it, leaves of what the browser waits for and holds. *)

Carried ==
    /\ \A r \in Requests : Tied(r)'
    /\ \A session \in Kept : Sound(session)'
    /\ \A t \in Held : t # NoToken => Used(t)'
    /\ \A r \in Requests : Owned(r) =>
          /\ req'[r].op = req[r].op /\ req'[r].pc # "new" /\ req'[r].token = req[r].token
          /\ req'[r].op = "refresh" => PendingReached(r)'
          /\ issued'[r] # NoToken => issued'[r] \notin Held
    /\ \A q, r \in Requests : issued'[q] = issued'[r] /\ issued'[q] # NoToken => q = r

LEMMA HeldIsToken ==
  ASSUME BrowserOK PROVE Kept \subseteq Session /\ Held \subseteq Tokens \cup {NoToken}
  BY DEF BrowserOK, Kept, Held, Page, Session

LEMMA OwnedPending ==
  ASSUME CInv, NEW r \in Requests, Owned(r)
  PROVE  /\ req[r].pc # "new" /\ req[r].op \in {"login", "refresh"}
         /\ req[r].op = "refresh" => PendingReached(r)
  BY PagesAssumption DEF CInv, Owned, Waits

LEMMA TiedKept ==
  ASSUME TInv, CInv, [Next]_vars, NEW r \in Requests, issued'[r] = issued[r], Answered(r)' => Answered(r)
  PROVE  Tied(r)'
<1>0. Tied(r)
  BY DEF CInv
<1>1. CASE ~Answered(r)
  BY <1>0, <1>1 DEF Tied
<1>2. CASE Answered(r)
  <2>1. req'[r] = req[r] /\ Answered(r)'
    BY <1>2, RequestsAge DEF Answered
  <2>2. PICK s \in Tokens : s = issued[r] /\ s # NoToken /\ Used(s)
    BY <1>0, <1>2 DEF Tied, CInv, BrowserOK
  <2>3. Used(s)' /\ token'[s].user = token[s].user
    BY <2>2, TokensAge
  <2>4. CASE req[r].op = "refresh"
    <3>1. PICK t \in Tokens : t = req[r].token /\ Used(t) /\ token[s].user = token[t].user
      BY <1>0, <2>2, <2>4 DEF Tied
    <3>2. Used(t)' /\ token'[t].user = token[t].user
      BY <3>1, TokensAge
    <3> QED
      BY <2>1, <2>2, <2>3, <3>1, <3>2 DEF Tied
  <2> QED
    BY <2>1, <2>2, <2>3, <2>4 DEF Tied
<1> QED
  BY <1>1, <1>2

\* What a logout of its user, or an answer to someone else, leaves of a refresh.
LEMMA RotatingReached ==
  ASSUME TInv, Leaves, NEW r \in Requests, NEW t \in Tokens, Rotating(r, t), 
         token[t].user # leftBy \/ t \in escaped
  PROVE  token'[t].user # leftBy' \/ t \in escaped'
<1>1. Used(t)
  BY DEF Rotating, TInv, ReqOK, Used
<1>2. token'[t].user = token[t].user /\ token[t].user \in Users
  BY <1>1, TokensAge DEF Leaves, TInv, TokenOK, Used
<1>3. ASSUME NEW u \in Users, Logout(u), token[t].user = u PROVE t \in escaped'
  BY <1>3, LogoutReaches
<1>4. token[t].user # NoUser
  BY <1>2, ConstantsAssumption
<1> QED
  BY <1>2, <1>3, <1>4, EscapesAge DEF Leaves

LEMMA PendingKept ==
  ASSUME TInv, CInv, Leaves, NEW r \in Requests, req[r].op = "refresh", req[r].pc # "new", PendingReached(r),
         issued'[r] = issued[r], Answered(r)' => Answered(r)
  PROVE  PendingReached(r)'
<1>1. ASSUME InFlight(r)' PROVE token'[req'[r].token].user # leftBy' \/ req'[r].token \in escaped'
  <2>1. InFlight(r) /\ req'[r].token = req[r].token
    BY <1>1, RequestsAge DEF Leaves
  <2>2. PICK t \in Tokens : t = req[r].token /\ Rotating(r, t)
    BY <2>1 DEF TInv, ReqOK, Rotating
  <2>3. token[t].user # leftBy \/ t \in escaped
    BY <2>1, <2>2 DEF PendingReached
  <2> QED
    BY <2>1, <2>2, <2>3, RotatingReached
<1>2. ASSUME Answered(r)' PROVE Reached(issued[r])'
  <2>1. Answered(r) /\ Tied(r)
    BY <1>2 DEF CInv
  <2>2. PICK s \in Tokens : s = issued[r] /\ Used(s) /\ Reached(s)
    BY <2>1 DEF Tied, CInv, BrowserOK, PendingReached
  <2>3. Reached(s)'
    BY <2>2, ReachedKept
  <2> QED
    BY <2>2, <2>3 DEF Reached
<1> QED
  BY <1>1, <1>2 DEF PendingReached

LEMMA HeldKept ==
  ASSUME TInv, CInv, Leaves
  PROVE  /\ \A session \in Kept : Sound(session)'
         /\ \A t \in Held : t # NoToken => Used(t)'
         /\ \A r \in Requests : Owned(r) =>
               req'[r].op = req[r].op /\ req'[r].pc # "new" /\ req'[r].token = req[r].token
<1>1. Kept \subseteq Session /\ Held \subseteq Tokens \cup {NoToken}
  BY HeldIsToken DEF CInv
<1>2. \A session \in Kept : Sound(session)'
  BY <1>1, SoundKept DEF CInv
<1>3. \A t \in Held : t # NoToken => Used(t)'
  BY <1>1, TokensAge DEF CInv, Undelivered, Leaves
<1>4. ASSUME NEW r \in Requests, Owned(r)
      PROVE  req'[r].op = req[r].op /\ req'[r].pc # "new" /\ req'[r].token = req[r].token
  BY <1>4, OwnedPending, RequestsAge DEF Leaves
<1> QED
  BY <1>2, <1>3, <1>4

\* A step of the server that answers no request with a new token.
LEMMA QuietCarried ==
  ASSUME TInv, CInv, Leaves, UNCHANGED issued, \A r \in Requests : Answered(r)' => Answered(r)
  PROVE  Carried
<1>1. \A r \in Requests : Tied(r)'
  BY TiedKept DEF Leaves
<1>2. ASSUME NEW r \in Requests, Owned(r), req'[r].op = "refresh" PROVE PendingReached(r)'
  BY <1>2, HeldKept, OwnedPending, PendingKept
<1>3. \A r \in Requests : Owned(r) /\ issued'[r] # NoToken => issued'[r] \notin Held
  BY DEF CInv, Undelivered
<1>4. \A q, r \in Requests : issued'[q] = issued'[r] /\ issued'[q] # NoToken => q = r
  BY DEF CInv, Apart
<1> QED
  BY <1>1, <1>2, <1>3, <1>4, HeldKept DEF Carried

\* The response to a request that succeeds names the one token the step issues.
LEMMA Serves ==
  ASSUME TInv, NEW r \in Requests, Serve(r), issued \in [Requests -> Tokens \cup {NoToken}]
  PROVE  /\ Next /\ UNCHANGED <<stored, page, leftBy>> /\ InFlight(r)
         /\ \A q \in Requests \ {r} : req'[q] = req[q] /\ issued'[q] = issued[q]
         /\ \/ ~Answered(r)' /\ issued'[r] = NoToken
            \/ /\ Answered(r)'
               /\ \E s \in Tokens :
                     /\ issued'[r] = s /\ ~Used(s) /\ Used(s)'
                     /\ req[r].op = "refresh" => /\ token'[s].user = token[req[r].token].user
                                                 /\ req[r].token \in escaped => s \in escaped'
<1>0. /\ req \in [Requests -> Request] /\ req[r] \in Request /\ token \in [Tokens -> Token]
      /\ UNCHANGED <<stored, page, leftBy>>
  BY DEF TInv, ReqOK, TokenOK, Serve
<1>1. Next
  BY DEF Serve, Next
<1> DEFINE P(t) == token[t].status = "unused" /\ token'[t].status # "unused"
           c == CHOOSE t \in Tokens : P(t)
<1>2. issued' = [issued EXCEPT ![r] = IF \E t \in Tokens : P(t) THEN c ELSE NoToken]
  BY DEF Serve
<1>3. (\E t \in Tokens : P(t)) => c \in Tokens /\ P(c)
  OBVIOUS
<1> HIDE DEF c
<1>4. /\ \A q \in Requests \ {r} : issued'[q] = issued[q]
      /\ issued'[r] = IF \E t \in Tokens : P(t) THEN c ELSE NoToken
  BY <1>2
<1>5. ASSUME UNCHANGED token PROVE issued'[r] = NoToken
  BY <1>4, <1>5
<1>6. ASSUME NEW s \in Tokens, P(s), \A t \in Tokens \ {s} : ~P(t) PROVE issued'[r] = s
  BY <1>3, <1>4, <1>6
<1>7. ASSUME NEW reply, Answer(r, reply)
      PROVE  /\ \A q \in Requests \ {r} : req'[q] = req[q]
             /\ Answered(r)' <=> reply = "ok"
  BY <1>0, <1>7 DEF Answer, Answered, Request
<1> DEFINE Goal == 
      /\ InFlight(r)
      /\ \A q \in Requests \ {r} : req'[q] = req[q]
      /\ \/ ~Answered(r)' /\ issued'[r] = NoToken
         \/ /\ Answered(r)'
            /\ \E s \in Tokens :
                  /\ issued'[r] = s /\ ~Used(s) /\ Used(s)'
                  /\ req[r].op = "refresh" => /\ token'[s].user = token[req[r].token].user
                                              /\ req[r].token \in escaped => s \in escaped'
<1>8. ASSUME NEW u, NEW s \in Tokens, req[r].op = "login", InFlight(r), token[s].status = "unused",
             token' = [token EXCEPT ![s] = Issued(u, NoToken)], Answer(r, "ok")
      PROVE  Goal
  <2>1. token'[s].status = "live" /\ \A t \in Tokens \ {s} : token'[t] = token[t]
    BY <1>0, <1>8 DEF Issued
  <2>2. P(s) /\ \A t \in Tokens \ {s} : ~P(t)
    BY <1>8, <2>1
  <2>3. issued'[r] = s
    BY <1>6, <2>2
  <2> QED
    BY <1>7, <1>8, <2>2, <2>3 DEF Used
<1>9. ASSUME InFlight(r), UNCHANGED token, Answer(r, "error") PROVE Goal
  BY <1>5, <1>7, <1>9
<1>10. ASSUME LoginLookup(r) PROVE Goal
  <2>1. UNCHANGED token /\ InFlight(r)
    BY <1>10 DEF LoginLookup, InFlight
  <2>2. ASSUME NEW u,
               req' = [req EXCEPT ![r].user = u,
                                  ![r].pc = IF account[u] = "active" THEN "read" ELSE "done",
                                  ![r].reply = IF account[u] = "active" THEN "none" ELSE "unauthorized"]
        PROVE  ~Answered(r)' /\ \A q \in Requests \ {r} : req'[q] = req[q]
    BY <1>0, <2>2 DEF Answered, Request
  <2>3. ASSUME req' = [req EXCEPT ![r].pc = "read"]
        PROVE  ~Answered(r)' /\ \A q \in Requests \ {r} : req'[q] = req[q]
    BY <1>0, <2>3 DEF Answered, Request
  <2>4. ~Answered(r)' /\ \A q \in Requests \ {r} : req'[q] = req[q]
    BY <1>10, <2>2, <2>3 DEF LoginLookup
  <2> QED
    BY <1>5, <2>1, <2>4
<1>11. ASSUME RefreshUser(r) PROVE Goal
  <2>1. UNCHANGED token /\ InFlight(r)
    BY <1>11 DEF RefreshUser, InFlight
  <2>2. ~Answered(r)' /\ \A q \in Requests \ {r} : req'[q] = req[q]
    BY <1>0, <1>11 DEF RefreshUser, Answered, Request
  <2> QED
    BY <1>5, <2>1, <2>2
<1>12. ASSUME LoginReturning(r) PROVE Goal
  <2> PICK u : u = req[r].user
    OBVIOUS
  <2>1. /\ req[r].op = "login" /\ InFlight(r)
        /\ \/ Answer(r, "ok") /\ \E s \in Tokens : /\ token[s].status = "unused"
                                                   /\ token' = [token EXCEPT ![s] = Issued(u, NoToken)]
           \/ Answer(r, "error") /\ UNCHANGED token
    BY <1>12 DEF LoginReturning, InFlight
  <2> HIDE DEF Goal
  <2> QED
    BY <1>8, <1>9, <2>1
<1>13. ASSUME LoginCreating(r) PROVE Goal
  <2>1. /\ req[r].op = "login" /\ InFlight(r)
        /\ \/ Answer(r, "ok") /\ \E u \in Users, s \in Tokens : /\ token[s].status = "unused"
                                                   /\ token' = [token EXCEPT ![s] = Issued(u, NoToken)]
           \/ Answer(r, "error") /\ UNCHANGED token
    BY <1>13 DEF LoginCreating, InFlight
  <2> HIDE DEF Goal
  <2> QED
    BY <1>8, <1>9, <2>1
<1>14. ASSUME RefreshCommit(r) PROVE Goal
  <2>1. InFlight(r) /\ req[r].op = "refresh"
    BY <1>14 DEF RefreshCommit, InFlight
  <2>2. PICK t \in Tokens : t = req[r].token /\ token[t].status # "unused"
    BY <2>1 DEF TInv, ReqOK
  <2>3. \/ Answer(r, "error") /\ UNCHANGED token
        \/ /\ Answer(r, "ok")
           /\ \E s \in Tokens :
                 /\ token[s].status = "unused"
                 /\ token' = [token EXCEPT ![t].status = "revoked", ![s] = Issued(token[t].user, t)]
                 /\ escaped' = IF t \in escaped THEN escaped \cup {s} ELSE escaped
    BY <1>14, <2>2 DEF RefreshCommit
  <2>4. ASSUME NEW s \in Tokens, token[s].status = "unused", Answer(r, "ok"),
               token' = [token EXCEPT ![t].status = "revoked", ![s] = Issued(token[t].user, t)],
               escaped' = IF t \in escaped THEN escaped \cup {s} ELSE escaped
        PROVE  Goal
    <3>1. Issued(token[t].user, t).user = token[t].user /\ Issued(token[t].user, t).status = "live" /\ s # t
      BY <2>2, <2>4 DEF Issued
    <3>2. /\ token'[s].user = token[t].user /\ token'[s].status = "live"
          /\ \A k \in Tokens \ {s} : P(k) => FALSE
      BY <1>0, <2>2, <2>4, <3>1 DEF Token
    <3>3. issued'[r] = s
      BY <1>6, <2>4, <3>2
    <3> QED
      BY <1>7, <2>1, <2>2, <2>4, <3>2, <3>3 DEF Used
  <2> HIDE DEF Goal
  <2> QED
    BY <1>9, <2>1, <2>3, <2>4
<1>15. Goal
  <2> HIDE DEF Goal
  <2> QED
    BY <1>10, <1>11, <1>12, <1>13, <1>14 DEF Serve
<1> QED
  BY <1>0, <1>1, <1>4, <1>15

LEMMA ServeCarried == ASSUME TInv, CInv, NEW r \in Requests, Serve(r) PROVE Carried
<1>0. issued \in [Requests -> Tokens \cup {NoToken}]
  BY DEF CInv, BrowserOK
<1>1. /\ Leaves /\ InFlight(r)
      /\ \A q \in Requests \ {r} : req'[q] = req[q] /\ issued'[q] = issued[q]
  BY <1>0, Serves DEF Leaves
<1>2. /\ req'[r].op = req[r].op /\ req'[r].token = req[r].token
      /\ InFlight(r)' => InFlight(r)
  BY <1>1, RequestsAge DEF Leaves, InFlight
<1>3. \A q \in Requests \ {r} : Tied(q)'
  BY <1>1, TiedKept DEF Leaves, Answered
<1>4. ASSUME NEW q \in Requests \ {r}, Owned(q), req'[q].op = "refresh" PROVE PendingReached(q)'
  BY <1>1, <1>4, OwnedPending, PendingKept DEF Answered
<1>5. CASE ~Answered(r)' /\ issued'[r] = NoToken
  <2>1. Tied(r)'
    BY <1>5 DEF Tied
  <2>2. ASSUME Owned(r), req'[r].op = "refresh" PROVE PendingReached(r)'
    <3>1. ASSUME InFlight(r)' PROVE token'[req'[r].token].user # leftBy' \/ req'[r].token \in escaped'
      <4>1. PICK t \in Tokens : t = req[r].token /\ Rotating(r, t)
        BY <1>1, <1>2, <2>2 DEF TInv, ReqOK, Rotating
      <4>2. token[t].user # leftBy \/ t \in escaped
        BY <1>1, <1>2, <2>2, <4>1, OwnedPending DEF PendingReached
      <4> QED
        BY <1>1, <1>2, <4>1, <4>2, RotatingReached
    <3> QED
      BY <1>5, <3>1 DEF PendingReached
  <2>3. \A q \in Requests : Owned(q) /\ issued'[q] # NoToken => issued'[q] \notin Held
    BY <1>1, <1>5 DEF CInv, Undelivered
  <2>4. \A p, q \in Requests : issued'[p] = issued'[q] /\ issued'[p] # NoToken => p = q
    BY <1>1, <1>5 DEF CInv, Apart
  <2> QED
    BY <1>1, <1>3, <1>4, <2>1, <2>2, <2>3, <2>4, HeldKept DEF Carried
<1>6. ASSUME Answered(r)', NEW s \in Tokens, issued'[r] = s, ~Used(s), Used(s)',
             req[r].op = "refresh" => /\ token'[s].user = token[req[r].token].user
                                      /\ req[r].token \in escaped => s \in escaped'
      PROVE  Carried
  <2>0. s # NoToken
    BY ConstantsAssumption
  <2>1. ASSUME req[r].op = "refresh"
        PROVE  \E t \in Tokens : /\ t = req[r].token /\ Rotating(r, t) /\ Used(t)'
                                 /\ token'[t].user = token[t].user
    <3>1. PICK t \in Tokens : t = req[r].token /\ Rotating(r, t) /\ Used(t)
      BY <1>1, <2>1 DEF TInv, ReqOK, Rotating, Used
    <3> QED
      BY <1>1, <3>1, TokensAge DEF Leaves
  <2>2. Tied(r)'
    <3>1. CASE req[r].op = "refresh"
      BY <1>2, <1>6, <2>0, <2>1, <3>1 DEF Tied
    <3> QED
      BY <1>2, <1>6, <2>0, <3>1 DEF Tied
  <2>3. ASSUME Owned(r), req'[r].op = "refresh" PROVE PendingReached(r)'
    <3>1. PICK t \in Tokens : t = req[r].token /\ Rotating(r, t) /\ token'[t].user = token[t].user
      BY <1>2, <2>1, <2>3
    <3>2. token[t].user # leftBy \/ t \in escaped
      BY <1>1, <1>2, <2>3, <3>1, OwnedPending DEF PendingReached
    <3>3. Reached(s)'
      <4>1. leftBy' = leftBy
        BY <1>0, Serves
      <4> QED
        BY <1>2, <1>6, <2>3, <3>1, <3>2, <4>1 DEF Reached
    <3>4. ~InFlight(r)'
      BY <1>6 DEF Answered, InFlight
    <3> QED
      BY <1>6, <3>3, <3>4 DEF PendingReached, Reached
  <2>4. \A q \in Requests : Owned(q) /\ issued'[q] # NoToken => issued'[q] \notin Held
    BY <1>1, <1>6, <2>0 DEF CInv, Undelivered
  <2>5. \A q \in Requests \ {r} : issued'[q] # s
    BY <1>1, <1>6, <2>0 DEF CInv, Tied
  <2>6. \A p, q \in Requests : issued'[p] = issued'[q] /\ issued'[p] # NoToken => p = q
    BY <1>1, <1>6, <2>5 DEF CInv, Apart
  <2> QED
    BY <1>1, <1>3, <1>4, <2>2, <2>3, <2>4, <2>6, HeldKept DEF Carried
<1> QED
  BY <1>0, <1>5, <1>6, Serves

-----------------------------------------------------------------------------
(* What the pages do.                                                         *)

\* What a page waits for, after any step.
LEMMA WaitingKept ==
  ASSUME CInv, Carried, NEW p \in Pages, NEW r \in Requests
  PROVE  /\ page[p].refreshing = r =>
              /\ req'[r].op = "refresh" /\ req'[r].pc # "new" /\ page[p].sent \in Tokens
              /\ req'[r].token = page[p].sent /\ PendingReached(r)'
              /\ ~page[p].session.crossed => page[p].session.token = page[p].sent
         /\ page[p].login = r => req'[r].op = "login" /\ req'[r].pc # "new"
<1>1. Waits(p) /\ r # NoRequest
  BY PagesAssumption DEF CInv
<1>2. ASSUME r \in {page[p].refreshing, page[p].login}
      PROVE  /\ req'[r].op = req[r].op /\ req'[r].pc # "new" /\ req'[r].token = req[r].token
             /\ req'[r].op = "refresh" => PendingReached(r)'
  BY <1>2 DEF Carried, Owned
<1> QED
  BY <1>1, <1>2 DEF Waits

\* A page that waits for what it waited for.
LEMMA StillWaits ==
  ASSUME CInv, Carried, NEW p \in Pages,
         page'[p].refreshing = page[p].refreshing, page'[p].sent = page[p].sent,
         page'[p].session = page[p].session \/ page'[p].session.crossed,
         page'[p].login \in {page[p].login, NoRequest}
  PROVE  Waits(p)'
<1>2. page[p] \in Page
  BY DEF CInv, BrowserOK
<1>3. ASSUME NEW r \in Requests, r = page[p].refreshing
      PROVE  /\ req'[r].op = "refresh" /\ req'[r].pc # "new" /\ page[p].sent \in Tokens
             /\ req'[r].token = page[p].sent /\ PendingReached(r)'
             /\ ~page'[p].session.crossed => page'[p].session.token = page[p].sent
  BY <1>3, WaitingKept
<1>4. \A r \in Requests : r = page[p].login => req'[r].op = "login" /\ req'[r].pc # "new"
  BY WaitingKept
<1> QED
  BY <1>2, <1>3, <1>4 DEF Waits, Page, PendingReached, Answered, Reached, InFlight

\* A page that a step leaves alone.
LEMMA WaitsKept ==
  ASSUME CInv, Carried, NEW p \in Pages, page'[p] = page[p] PROVE Waits(p)' /\ Replaced(p)'
<1>1. Replaced(p) /\ page[p] \in Page
  BY DEF CInv, BrowserOK
<1> QED
  BY <1>1, StillWaits DEF Replaced

\* A step that leaves the pages and the storage alone.
LEMMA StillStep ==
  ASSUME CInv, Carried, UNCHANGED <<stored, page>>, leftBy' \in Users \cup {NoUser},
         issued' \in [Requests -> Tokens \cup {NoToken}]
  PROVE  CInv'
<1>1. BrowserOK'
  BY DEF CInv, BrowserOK
<1>2. \A session \in Kept' : Sound(session)'
  BY DEF Kept, Carried
<1>3. Apart'
  BY DEF CInv, Apart, Carried
<1>4. Undelivered'
  <2>1. Held' = Held /\ \A r \in Requests : Owned(r)' <=> Owned(r)
    BY DEF Held, Owned
  <2> QED
    BY <2>1 DEF Undelivered, Carried
<1> QED
  BY <1>1, <1>2, <1>3, <1>4, WaitsKept DEF CInv, Carried

\* A step of one page, which may store its session: the tokens it holds then are old, or
\* what it was waiting for; what it waits for then is old, or was sent by nobody.
LEMMA PageStep ==
  ASSUME CInv, Carried, NEW p \in Pages, NEW new \in Page,
         page' = [page EXCEPT ![p] = new], stored' \in {stored, new.session},
         UNCHANGED issued, leftBy' \in Users \cup {NoUser},
         Sound(new.session)', Waits(p)', Replaced(p)',
         \A t \in {new.session.token, new.sent} :
            \/ t \in Held \cup {NoToken}
            \/ \E r \in Requests :
                  /\ r \in {page[p].refreshing, page[p].login} \ {new.refreshing, new.login}
                  /\ t = issued[r] /\ Used(t)',
         new.refreshing \in {page[p].refreshing, NoRequest} \/ Unsent(new.refreshing),
         new.login \in {page[p].login, NoRequest} \/ Unsent(new.login)
  PROVE  CInv'
<1>0. page'[p] = new /\ \A q \in Pages \ {p} : page'[q] = page[q]
  BY DEF CInv, BrowserOK
<1>a. page \in [Pages -> Page] /\ issued \in [Requests -> Tokens \cup {NoToken}]
  BY DEF CInv, BrowserOK
<1>1. BrowserOK'
  BY DEF CInv, BrowserOK, Page
<1>2. \A session \in Kept' : Sound(session)'
  <2>1. \A session \in Kept' : session \in Kept \/ session = new.session
    BY <1>0 DEF Kept
  <2> QED
    BY <2>1 DEF Carried
<1>3. \A q \in Pages : Waits(q)' /\ Replaced(q)'
  BY <1>0, WaitsKept
<1>4. Apart'
  <2>1. \A q, r \in Requests : issued'[q] = issued'[r] /\ issued'[q] # NoToken => q = r
    BY DEF Carried
  <2>2. ASSUME NEW q \in Pages \ {p}
        PROVE  /\ new.refreshing # NoRequest => new.refreshing # page[q].refreshing
               /\ new.login # NoRequest => new.login # page[q].login
    <3>1. page[p].refreshing # NoRequest => page[p].refreshing # page[q].refreshing
      BY DEF CInv, Apart
    <3>2. page[p].login # NoRequest => page[p].login # page[q].login
      BY DEF CInv, Apart
    <3>3. \A r : Unsent(r) => r # page[q].refreshing /\ r # page[q].login
      BY DEF Unsent, Owned
    <3> QED
      BY <3>1, <3>2, <3>3
  <2> QED
    BY <1>0, <2>1, <2>2 DEF Apart, CInv
<1>5. \A t \in Held' : \/ t \in Held \cup {NoToken}
                       \/ \E r \in Requests :
                             /\ r \in {page[p].refreshing, page[p].login} \ {new.refreshing, new.login}
                             /\ t = issued[r] /\ Used(t)'
  <2>1. \A t \in Held' : t \in Held \/ t \in {new.session.token, new.sent}
    BY <1>0 DEF Held
  <2> QED
    BY <2>1
<1>6. ASSUME NEW r \in Requests, Owned(r)', issued'[r] # NoToken PROVE issued'[r] \notin Held'
  <2>1. Owned(r) \/ Unsent(r)
    BY <1>0, <1>6, PagesAssumption DEF Owned
  <2>2. ~Unsent(r)
    BY <1>6 DEF Unsent, CInv, Tied, Answered
  <2>3. issued'[r] \notin Held
    BY <1>6, <2>1, <2>2 DEF Carried
  <2>4. ASSUME NEW q \in Requests, issued[q] = issued[r],
               q \in {page[p].refreshing, page[p].login} \ {new.refreshing, new.login}
        PROVE  FALSE
    <3>1. q = r
      BY <1>6, <2>4 DEF CInv, Apart
    <3>2. PICK o \in Pages \ {p} : r \in {page[o].refreshing, page[o].login}
      BY <1>0, <1>6, <2>4, <3>1 DEF Owned
    <3>3. /\ r = page[p].refreshing => req[r].op = "refresh"
          /\ r = page[p].login => req[r].op = "login"
          /\ r = page[o].refreshing => req[r].op = "refresh"
          /\ r = page[o].login => req[r].op = "login"
      BY PagesAssumption DEF CInv, Waits
    <3>4. /\ page[p].refreshing = r => page[o].refreshing # r
          /\ page[p].login = r => page[o].login # r
      BY <3>2, PagesAssumption DEF CInv, Apart
    <3> QED
      BY <2>4, <3>1, <3>2, <3>3, <3>4
  <2> QED
    BY <1>5, <1>6, <2>3, <2>4
<1>7. Undelivered'
  BY <1>5, <1>6 DEF Undelivered, Carried
<1> QED
  BY <1>1, <1>2, <1>3, <1>4, <1>7 DEF CInv, Carried

LEMMA LoadStep == ASSUME CInv, Carried, UNCHANGED vars, NEW p \in Pages, Load(p) PROVE CInv'
<1> PICK new : new = Loaded(stored)
  OBVIOUS
<1>1. new \in Page /\ new.session = stored /\ new.refreshing = NoRequest /\ new.login = NoRequest /\ new.sent = NoToken
  BY DEF Loaded, Page, CInv, BrowserOK
<1>2. page' = [page EXCEPT ![p] = new] /\ UNCHANGED <<stored, issued, leftBy>> /\ page'[p] = new
  BY DEF Load, CInv, BrowserOK
<1>3. Waits(p)'
  BY <1>1, <1>2 DEF Waits
<1>4. Replaced(p)'
  BY <1>1, <1>2 DEF Replaced
<1>5. Sound(new.session)'
  BY <1>1 DEF Carried, Kept
<1>6. leftBy' \in Users \cup {NoUser} /\ new.session.token \in Held /\ new.sent \in Held \cup {NoToken}
  BY <1>1, <1>2 DEF CInv, BrowserOK, Held
<1> QED
  BY <1>1, <1>2, <1>3, <1>4, <1>5, <1>6, PageStep

LEMMA SubmitStep ==
  ASSUME TInv, CInv, Carried, NEW p \in Pages, NEW r \in Requests, NEW n \in Names, SubmitLogin(p, r, n)
  PROVE  CInv'
<1>0. page[p] \in Page /\ req \in [Requests -> Request]
  BY DEF CInv, BrowserOK, TInv, ReqOK
<1> PICK new : new = [page[p] EXCEPT !.login = r]
  OBVIOUS
<1>1. /\ new \in Page /\ new.session = page[p].session /\ new.refreshing = page[p].refreshing
      /\ new.login = r /\ new.sent = page[p].sent
  BY <1>0 DEF Page
<1>2. /\ page' = [page EXCEPT ![p] = new] /\ page'[p] = new /\ UNCHANGED <<stored, issued, leftBy>>
      /\ Unsent(r)
  BY DEF SubmitLogin, CInv, BrowserOK
<1>3. req'[r].op = "login" /\ req'[r].pc # "new"
  <2>1. ASSUME NEW u, NEW pc, NEW reply, pc # "new",
               req' = [req EXCEPT ![r] = [NewRequest EXCEPT !.op = "login", !.name = n, !.user = u,
                                                            !.pc = pc, !.reply = reply]]
        PROVE  req'[r].op = "login" /\ req'[r].pc # "new"
    BY <1>0, <2>1 DEF NewRequest
  <2>2. ASSUME req' = [req EXCEPT ![r] = [NewRequest EXCEPT !.op = "login", !.name = n, !.pc = "looked"]]
        PROVE  req'[r].op = "login" /\ req'[r].pc # "new"
    BY <1>0, <2>2 DEF NewRequest
  <2>3. ASSUME NEW u \in Users,
               req' = [req EXCEPT ![r] =
                        [NewRequest EXCEPT !.op = "login", !.name = n, !.user = u,
                           !.pc = IF account[u] = "active" THEN "read" ELSE "done",
                           !.reply = IF account[u] = "active" THEN "none" ELSE "unauthorized"]]
        PROVE  req'[r].op = "login" /\ req'[r].pc # "new"
    BY <1>0, <2>3 DEF NewRequest
  <2> QED
    BY <2>2, <2>3 DEF SubmitLogin, LoginRead, Named
<1>4. Waits(p)'
  <2>1. ASSUME NEW q \in Requests, q = page[p].refreshing
        PROVE  /\ req'[q].op = "refresh" /\ req'[q].pc # "new" /\ page[p].sent \in Tokens
               /\ req'[q].token = page[p].sent /\ PendingReached(q)'
               /\ ~page[p].session.crossed => page[p].session.token = page[p].sent
    BY <2>1, WaitingKept
  <2> QED
    BY <1>0, <1>1, <1>2, <1>3, <2>1 DEF Waits, Page, PendingReached, Answered, Reached, InFlight
<1>5. Replaced(p)'
  BY <1>1, <1>2 DEF Replaced, CInv
<1>6. Sound(new.session)' /\ leftBy' \in Users \cup {NoUser} /\ new.session.token \in Held /\ new.sent \in Held
  BY <1>1, <1>2 DEF Carried, Kept, Held, CInv, BrowserOK
<1> QED
  BY <1>1, <1>2, <1>4, <1>5, <1>6, PageStep

LEMMA Refresh401Step ==
  ASSUME TInv, CInv, Carried, NEW p \in Pages, NEW r \in Requests, Refresh401(p, r)
  PROVE  CInv'
<1>0. page[p] \in Page /\ req \in [Requests -> Request]
  BY DEF CInv, BrowserOK, TInv, ReqOK
<1>1. PICK t \in Tokens :
        /\ t = page[p].session.token /\ RefreshRead(r, t)
        /\ page' = [page EXCEPT ![p].refreshing = r, ![p].sent = t]
  BY DEF Refresh401
<1> PICK new : new = [page[p] EXCEPT !.refreshing = r, !.sent = t]
  OBVIOUS
<1>2. /\ new \in Page /\ new.session = page[p].session /\ new.refreshing = r
      /\ new.login = page[p].login /\ new.sent = t
  BY <1>0 DEF Page
<1>3. /\ page' = [page EXCEPT ![p] = new] /\ page'[p] = new /\ UNCHANGED <<stored, issued, leftBy>>
      /\ Unsent(r) /\ t # NoToken
  BY <1>0, <1>1, ConstantsAssumption DEF Refresh401, CInv, BrowserOK
<1>4. /\ req'[r].op = "refresh" /\ req'[r].token = t
      /\ IF token[t].status = "live" THEN req'[r].pc = "looked" 
                                     ELSE req'[r].pc = "done" /\ req'[r].reply = "unauthorized"
  BY <1>0, <1>1 DEF RefreshRead, NewRequest
<1>5. token[t].status = "live" => token'[t].user # leftBy' \/ t \in escaped'
  <2>1. Sound(page[p].session) /\ UNCHANGED <<token, escaped>>
    BY <1>1 DEF CInv, Kept, RefreshRead
  <2> QED
    BY <1>1, <1>3, <2>1 DEF Sound, Reached
<1>6. PendingReached(r)'
  BY <1>4, <1>5 DEF PendingReached, InFlight, Answered
<1>7. Waits(p)'
  <2>1. \A q \in Requests : q = page[p].login => req'[q].op = "login" /\ req'[q].pc # "new"
    BY WaitingKept
  <2>2. PendingReached(page[p].refreshing)'
    BY <1>2, <1>3, <1>6 DEF PendingReached, Answered, Reached, InFlight
  <2>3. /\ page'[p].refreshing = r /\ page'[p].sent = t /\ page'[p].session.token = t
        /\ page'[p].login = page[p].login /\ req'[r].pc # "new"
    BY <1>1, <1>2, <1>3, <1>4
  <2> QED
    BY <1>0, <1>4, <2>1, <2>2, <2>3 DEF Waits, Page
<1>8. Replaced(p)'
  BY <1>2, <1>3, PagesAssumption DEF Replaced
<1>9. Sound(new.session)' /\ leftBy' \in Users \cup {NoUser} /\ new.session.token \in Held /\ new.sent \in Held
  BY <1>1, <1>2, <1>3 DEF Carried, Kept, Held, CInv, BrowserOK
<1> QED
  BY <1>2, <1>3, <1>7, <1>8, <1>9, PageStep

\* A page receives the token of a successful response before anything holds it.
LEMMA Delivered ==
  ASSUME CInv, NEW p \in Pages, NEW r \in Requests, r \in {page[p].refreshing, page[p].login}, Answered(r)
  PROVE  \E d \in Tokens : issued[r] = d /\ Used(d) /\ d \notin Held
<1>1. Owned(r) /\ Tied(r) /\ issued[r] \in Tokens \cup {NoToken}
  BY DEF Owned, CInv, BrowserOK
<1> QED
  BY <1>1 DEF Tied, CInv, Undelivered

LEMMA LoginAnsweredStep ==
  ASSUME TInv, CInv, Carried, NEW p \in Pages, LoginAnswered(p) PROVE CInv'
<1>0. page[p] \in Page /\ UNCHANGED <<vars, issued>>
  BY DEF CInv, BrowserOK, LoginAnswered
<1>1. PICK r \in Requests : r = page[p].login /\ req[r].pc = "done"
  BY <1>0 DEF LoginAnswered, Page
<1>2. r # page[p].refreshing /\ r # NoRequest
  BY <1>1, PagesAssumption DEF CInv, Waits
<1>3. CASE req[r].reply = "ok"
  <2>1. PICK d \in Tokens : issued[r] = d /\ Used(d) /\ d \notin Held
    BY <1>1, <1>3, Delivered DEF Answered
  <2>2. PICK u \in Users : u = token[d].user
    BY <2>1 DEF TInv, TokenOK, Used
  <2> PICK session : session = [token |-> d, bearer |-> u, user |-> u, crossed |-> page[p].refreshing # NoRequest]
    OBVIOUS
  <2>3. /\ session \in Session /\ session.token = d /\ session.bearer = u /\ session.user = u
        /\ session.crossed <=> page[p].refreshing # NoRequest
    BY DEF Session
  <2> PICK new : new = [page[p] EXCEPT !.session = session, !.login = NoRequest]
    OBVIOUS
  <2>4. /\ new \in Page /\ new.session = session /\ new.refreshing = page[p].refreshing
        /\ new.login = NoRequest /\ new.sent = page[p].sent
    BY <1>0, <2>3 DEF Page
  <2>5. page' = [page EXCEPT ![p] = new] /\ stored' = new.session /\ leftBy' = NoUser
    BY <1>1, <1>3, <2>1, <2>2, <2>4 DEF LoginAnswered, Becomes
  <2>6. page'[p] = new
    BY <2>5 DEF CInv, BrowserOK
  <2>7. Sound(new.session)'
    <3>1. d # NoToken /\ u # NoUser
      BY ConstantsAssumption
    <3> QED
      BY <1>0, <2>1, <2>2, <2>3, <2>4, <2>5, <3>1 DEF Sound, Used, Reached, vars
  <2>8. Waits(p)'
    <3>1. page[p].refreshing # NoRequest => new.session.crossed
      BY <2>3, <2>4
    <3>2. CASE page[p].refreshing = NoRequest
      BY <2>4, <2>6, <3>2 DEF Waits
    <3>3. CASE page[p].refreshing # NoRequest
      BY <2>4, <2>6, <3>1, <3>3, StillWaits
    <3> QED
      BY <3>2, <3>3
  <2>9. Replaced(p)'
    <3>1. page[p].sent \in Held
      BY DEF Held
    <3> QED
      BY <2>1, <2>3, <2>4, <2>6, <3>1 DEF Replaced
  <2>10. new.sent \in Held /\ Used(d)'
    BY <1>0, <2>1, <2>4 DEF Held, Used, vars
  <2>11. \A t \in {new.session.token, new.sent} :
            \/ t \in Held \cup {NoToken}
            \/ \E q \in Requests :
                  /\ q \in {page[p].refreshing, page[p].login} \ {new.refreshing, new.login}
                  /\ t = issued[q] /\ Used(t)'
    BY <1>1, <1>2, <2>1, <2>3, <2>4, <2>10
  <2>12. stored' \in {stored, new.session} /\ leftBy' \in Users \cup {NoUser}
    BY <2>5
  <2> QED
    BY <1>0, <2>4, <2>5, <2>7, <2>8, <2>9, <2>11, <2>12, PageStep
<1>4. CASE req[r].reply # "ok"
  <2> PICK new : new = [page[p] EXCEPT !.login = NoRequest]
    OBVIOUS
  <2>1. /\ new \in Page /\ new.session = page[p].session /\ new.refreshing = page[p].refreshing
        /\ new.login = NoRequest /\ new.sent = page[p].sent
    BY <1>0 DEF Page
  <2>2. page' = [page EXCEPT ![p] = new] /\ UNCHANGED <<stored, leftBy>>
    BY <1>1, <1>4, <2>1 DEF LoginAnswered
  <2>3. page'[p] = new
    BY <2>2 DEF CInv, BrowserOK
  <2>4. Waits(p)'
    BY <2>1, <2>3, StillWaits
  <2>5. Replaced(p)'
    BY <2>1, <2>3 DEF Replaced, CInv
  <2>6. Sound(new.session)' /\ leftBy' \in Users \cup {NoUser} /\ new.session.token \in Held /\ new.sent \in Held
    BY <2>1, <2>2 DEF Carried, Kept, Held, CInv, BrowserOK
  <2> QED
    BY <1>0, <2>1, <2>2, <2>4, <2>5, <2>6, PageStep
<1> QED
  BY <1>3, <1>4

\* A page that forgets its session, or leaves it as it is, and goes on waiting or not.
LEMMA ClearStep ==
  ASSUME CInv, Carried, UNCHANGED issued, leftBy' \in Users \cup {NoUser}, NEW p \in Pages, NEW new \in Page,
         page' = [page EXCEPT ![p] = new], stored' \in {stored, new.session},
         new.session = page[p].session \/ (new.session \in Session /\ new.session.token = NoToken),
         \/ new.refreshing = NoRequest /\ (page[p].refreshing = NoRequest \/ new.session.token = NoToken)
         \/ /\ new.refreshing = page[p].refreshing
            /\ new.session = page[p].session \/ new.session.crossed,
         new.login = page[p].login, new.sent = page[p].sent
  PROVE  CInv'
<1>1. page'[p] = new
  BY DEF CInv, BrowserOK
<1>2. Sound(new.session)'
  <2>1. CASE new.session = page[p].session
    BY <2>1 DEF Carried, Kept
  <2>2. CASE new.session.token = NoToken
    BY <2>2 DEF Sound
  <2> QED
    BY <2>1, <2>2
<1>3. Waits(p)'
  <2>1. CASE new.refreshing = page[p].refreshing /\ (new.session = page[p].session \/ new.session.crossed)
    BY <1>1, <2>1, StillWaits
  <2>2. CASE new.refreshing = NoRequest
    <3>1. \A r \in Requests : r = page[p].login => req'[r].op = "login" /\ req'[r].pc # "new"
      BY WaitingKept
    <3> QED
      BY <1>1, <2>2, <3>1 DEF Waits, Page
  <2> QED
    BY <2>1, <2>2
<1>4. Replaced(p)'
  BY <1>1 DEF Replaced, CInv
<1>5. new.session.token \in Held \cup {NoToken} /\ new.sent \in Held
  BY DEF Held
<1> QED
  BY <1>2, <1>3, <1>4, <1>5, PageStep

LEMMA RefreshAnsweredStep ==
  ASSUME TInv, CInv, Carried, NEW p \in Pages, RefreshAnswered(p) PROVE CInv'
<1>0. page[p] \in Page /\ page[p].session \in Session /\ UNCHANGED <<vars, issued, leftBy>> /\ leftBy' \in Users \cup {NoUser}
  BY DEF CInv, BrowserOK, RefreshAnswered, Page
<1>1. PICK r \in Requests : r = page[p].refreshing /\ req[r].pc = "done"
  BY <1>0 DEF RefreshAnswered, Page
<1>2. /\ r # page[p].login /\ r # NoRequest /\ req[r].op = "refresh" /\ req[r].token = page[p].sent
      /\ page[p].sent \in Tokens /\ PendingReached(r)
      /\ ~page[p].session.crossed => page[p].session.token = page[p].sent
  BY <1>1, PagesAssumption DEF CInv, Waits
<1> PICK settled : settled = [page[p] EXCEPT !.refreshing = NoRequest]
  OBVIOUS
<1>3. /\ settled \in Page /\ settled.session = page[p].session /\ settled.refreshing = NoRequest
      /\ settled.login = page[p].login /\ settled.sent = page[p].sent
  BY <1>0 DEF Page
<1>4. CASE req[r].reply = "ok"
  <2>1. PICK d \in Tokens : issued[r] = d /\ Used(d) /\ d \notin Held
    BY <1>1, <1>4, Delivered DEF Answered
  <2>2. PICK u \in Users : u = token[d].user
    BY <2>1 DEF TInv, TokenOK, Used
  <2> PICK new : new = [settled EXCEPT !.session.token = d, !.session.bearer = u]
    OBVIOUS
  <2>3. /\ new \in Page /\ new.session.token = d /\ new.session.bearer = u
        /\ new.session.user = page[p].session.user /\ new.session.crossed = page[p].session.crossed
        /\ new.refreshing = NoRequest /\ new.login = page[p].login /\ new.sent = page[p].sent
    BY <1>0, <1>3 DEF Page, Session
  <2>4. page' = [page EXCEPT ![p] = new] /\ stored' = new.session /\ page'[p] = new
    <3>1. page' = [page EXCEPT ![p] = new] /\ stored' = new.session
      BY <1>1, <1>4, <2>1, <2>2 DEF RefreshAnswered, Becomes
    <3> QED
      BY <3>1 DEF CInv, BrowserOK
  <2>5. ~page[p].session.crossed => page[p].session.user = u
    <3>1. SUFFICES ASSUME ~page[p].session.crossed PROVE page[p].session.user = u
      OBVIOUS
    <3>2. page[p].session.token = page[p].sent /\ page[p].sent # NoToken
      BY <1>2, <3>1, ConstantsAssumption
    <3>3. token[page[p].sent].user = page[p].session.user
      BY <3>1, <3>2 DEF CInv, Kept, Sound
    <3>4. token[d].user = token[req[r].token].user
      BY <1>1, <1>2, <2>1, ConstantsAssumption DEF CInv, Tied
    <3> QED
      BY <1>2, <2>2, <3>3, <3>4
  <2>6. Reached(d)
    BY <1>1, <1>2, <1>4, <2>1 DEF PendingReached, Answered
  <2>7. Sound(new.session)'
    BY <1>0, <2>1, <2>2, <2>3, <2>5, <2>6 DEF Sound, Used, Reached, vars, history
  <2>8. Waits(p)'
    <3>1. \A q \in Requests : q = page[p].login => req'[q].op = "login" /\ req'[q].pc # "new"
      BY WaitingKept
    <3>2. page'[p].refreshing = NoRequest /\ page'[p].login = page[p].login
      BY <2>3, <2>4
    <3> QED
      BY <1>0, <3>1, <3>2 DEF Waits, Page
  <2>9. Replaced(p)'
    <3>1. page[p].sent \in Held
      BY DEF Held
    <3> QED
      BY <2>1, <2>3, <2>4, <3>1 DEF Replaced
  <2>10. new.sent \in Held /\ Used(d)'
    BY <1>0, <2>1, <2>3 DEF Held, Used, vars
  <2>11. \A t \in {new.session.token, new.sent} :
            \/ t \in Held \cup {NoToken}
            \/ \E q \in Requests :
                  /\ q \in {page[p].refreshing, page[p].login} \ {new.refreshing, new.login}
                  /\ t = issued[q] /\ Used(t)'
    BY <1>1, <1>2, <2>1, <2>3, <2>10
  <2>12. stored' \in {stored, new.session}
    BY <2>4
  <2> QED
    BY <1>0, <2>3, <2>4, <2>7, <2>8, <2>9, <2>11, <2>12, PageStep
<1>5. CASE req[r].reply # "ok"
  <2> PICK new : new = [settled EXCEPT !.session = NoSession]
    OBVIOUS
  <2>1. /\ new \in Page /\ new.session = NoSession /\ new.session.token = NoToken /\ new.session \in Session
        /\ new.refreshing = NoRequest /\ new.login = page[p].login /\ new.sent = page[p].sent
    BY <1>3 DEF Page, NoSession, Session
  <2>2. page' = [page EXCEPT ![p] = new] /\ stored' \in {stored, new.session}
    BY <1>1, <1>5, <2>1 DEF RefreshAnswered, Becomes
  <2> QED
    BY <1>0, <2>1, <2>2, ClearStep
<1> QED
  BY <1>4, <1>5

LEMMA RefreshLostStep ==
  ASSUME CInv, Carried, NEW p \in Pages, RefreshLost(p) PROVE CInv'
<1>0. page[p] \in Page /\ UNCHANGED issued /\ leftBy' \in Users \cup {NoUser}
  BY DEF CInv, BrowserOK, RefreshLost
<1> PICK new : new = [page[p] EXCEPT !.session = NoSession, !.refreshing = NoRequest]
  OBVIOUS
<1>1. /\ new \in Page /\ new.session.token = NoToken /\ new.session \in Session
      /\ new.refreshing = NoRequest /\ new.login = page[p].login /\ new.sent = page[p].sent
  BY <1>0 DEF Page, NoSession, Session
<1>2. page' = [page EXCEPT ![p] = new] /\ stored' \in {stored, new.session}
  BY DEF RefreshLost, Becomes
<1> QED
  BY <1>0, <1>1, <1>2, ClearStep

LEMMA LogoutStep ==
  ASSUME CInv, Carried, NEW p \in Pages, LogoutServed(p) \/ LogoutFailed(p) \/ LogoutEnds(p) PROVE CInv'
<1>0. page[p] \in Page /\ UNCHANGED issued /\ leftBy' \in Users \cup {NoUser}
  BY DEF CInv, BrowserOK, LogoutServed, LogoutFailed, LogoutEnds
<1>1. CASE LogoutServed(p) \/ LogoutFailed(p)
  <2> PICK new : new = [page[p] EXCEPT !.leaving = TRUE]
    OBVIOUS
  <2>1. /\ new \in Page /\ new.session = page[p].session
        /\ new.refreshing = page[p].refreshing /\ new.login = page[p].login /\ new.sent = page[p].sent
    BY <1>0 DEF Page
  <2>2. page' = [page EXCEPT ![p] = new] /\ stored' \in {stored, new.session}
    BY <1>1 DEF LogoutServed, LogoutFailed
  <2> QED
    BY <1>0, <2>1, <2>2, ClearStep
<1>2. CASE LogoutEnds(p)
  <2> PICK cleared : cleared = Cleared(p)
    OBVIOUS
  <2>1. cleared \in Session /\ cleared.token = NoToken /\ (cleared.crossed <=> page[p].refreshing # NoRequest)
    BY DEF Cleared, NoSession, Session
  <2> PICK new : new = [page[p] EXCEPT !.leaving = FALSE, !.session = cleared]
    OBVIOUS
  <2>2. /\ new \in Page /\ new.session = cleared
        /\ new.refreshing = page[p].refreshing /\ new.login = page[p].login /\ new.sent = page[p].sent
    BY <1>0, <2>1 DEF Page
  <2>3. page' = [page EXCEPT ![p] = new] /\ stored' \in {stored, new.session}
    BY <1>2 DEF LogoutEnds, Becomes
  <2>4. \/ new.refreshing = NoRequest /\ page[p].refreshing = NoRequest
        \/ new.session.crossed
    BY <2>1, <2>2
  <2> QED
    BY <1>0, <2>1, <2>2, <2>3, <2>4, ClearStep
<1> QED
  BY <1>1, <1>2

-----------------------------------------------------------------------------

\* What a step of the browser is for the server.
LEMMA ClientSteps ==
  ASSUME [ClientNext]_allVars
  PROVE  [Next]_vars
<1>1. ASSUME NEW p \in Pages, NEW r \in Requests, Refresh401(p, r) \/ \E n \in Names : SubmitLogin(p, r, n)
      PROVE  Next
  BY <1>1 DEF Refresh401, SubmitLogin, Next
<1>2. ASSUME NEW p \in Pages, \/ Load(p) \/ LoginAnswered(p) \/ RefreshAnswered(p) \/ RefreshLost(p)
                              \/ LogoutServed(p) \/ LogoutFailed(p) \/ LogoutEnds(p)
      PROVE  Next \/ UNCHANGED vars
  BY <1>2 DEF Load, LoginAnswered, RefreshAnswered, RefreshLost, LogoutServed, LogoutFailed, LogoutEnds, Next
<1>3. ASSUME NEW r \in Requests, Serve(r) PROVE Next
  BY <1>3 DEF Serve, Next
<1>4. CASE Elsewhere
  BY <1>4 DEF Elsewhere, Next
<1>5. CASE UNCHANGED allVars
  BY <1>5 DEF allVars
<1> QED
  BY <1>1, <1>2, <1>3, <1>4, <1>5 DEF ClientNext

\* The browser and its server are a server: what is proved of Sessions holds of it.
THEOREM ServerIsSessions == ClientSpec => Spec
<1>1. ClientInit => Init
  BY DEF ClientInit
<1> QED
  BY <1>1, ClientSteps, PTL DEF ClientSpec, Spec

\* Neither a SELECT nor anything but the end of a request is a successful answer.
LEMMA ReadsAnswerNothing ==
  ASSUME TInv, NEW r \in Requests,
         (\E n \in Names : LoginRead(r, n)) \/ (\E t \in Tokens : RefreshRead(r, t))
  PROVE  \A q \in Requests : Answered(q)' => Answered(q)
<1>0. req \in [Requests -> Request]
  BY DEF TInv, ReqOK
<1>1. ASSUME NEW n \in Names, LoginRead(r, n) PROVE \A q \in Requests : Answered(q)' => Answered(q)
  <2>1. ASSUME NEW u \in Users,
               req' = [req EXCEPT ![r] =
                        [NewRequest EXCEPT !.op = "login", !.name = n, !.user = u,
                           !.pc = IF account[u] = "active" THEN "read" ELSE "done",
                           !.reply = IF account[u] = "active" THEN "none" ELSE "unauthorized"]]
        PROVE  \A q \in Requests : Answered(q)' => Answered(q)
    BY <1>0, <2>1 DEF NewRequest, Answered
  <2>2. ASSUME req' = [req EXCEPT ![r] = [NewRequest EXCEPT !.op = "login", !.name = n, !.pc = "looked"]]
        PROVE  \A q \in Requests : Answered(q)' => Answered(q)
    BY <1>0, <2>2 DEF NewRequest, Answered
  <2> QED
    BY <1>1, <2>1, <2>2 DEF LoginRead, Named
<1>2. ASSUME NEW t \in Tokens, RefreshRead(r, t) PROVE \A q \in Requests : Answered(q)' => Answered(q)
  BY <1>0, <1>2 DEF RefreshRead, NewRequest, Answered
<1> QED
  BY <1>1, <1>2

LEMMA ClientStep == TInv /\ CInv /\ [ClientNext]_allVars => CInv'
<1> SUFFICES ASSUME TInv, CInv, [ClientNext]_allVars PROVE CInv'
  OBVIOUS
<1>0. /\ [Next]_vars /\ leftBy \in Users \cup {NoUser} /\ issued \in [Requests -> Tokens \cup {NoToken}]
  BY ClientSteps DEF CInv, BrowserOK
<1>1. ASSUME UNCHANGED req, UNCHANGED issued, leftBy' \in {leftBy, NoUser} PROVE Carried
  BY <1>0, <1>1, QuietCarried DEF Leaves, Answered
<1>2. ASSUME NEW p \in Pages, Load(p) PROVE CInv'
  BY <1>1, <1>2, LoadStep DEF Load, vars
<1>3. ASSUME NEW p \in Pages, NEW r \in Requests, NEW n \in Names, SubmitLogin(p, r, n) PROVE CInv'
  <2>1. Carried
    BY <1>0, <1>3, ReadsAnswerNothing, QuietCarried DEF SubmitLogin, Leaves
  <2> QED
    BY <1>3, <2>1, SubmitStep
<1>4. ASSUME NEW p \in Pages, NEW r \in Requests, Refresh401(p, r) PROVE CInv'
  <2>1. Carried
    BY <1>0, <1>4, ReadsAnswerNothing, QuietCarried DEF Refresh401, Leaves
  <2> QED
    BY <1>4, <2>1, Refresh401Step
<1>5. ASSUME NEW p \in Pages, LoginAnswered(p) PROVE CInv'
  BY <1>0, <1>1, <1>5, LoginAnsweredStep DEF LoginAnswered, vars
<1>6. ASSUME NEW p \in Pages, RefreshAnswered(p) PROVE CInv'
  BY <1>1, <1>6, RefreshAnsweredStep DEF RefreshAnswered, vars
<1>7. ASSUME NEW p \in Pages, RefreshLost(p) PROVE CInv'
  BY <1>1, <1>7, RefreshLostStep DEF RefreshLost, vars
<1>8. ASSUME NEW p \in Pages, LogoutServed(p) PROVE CInv'
  <2>1. PICK u \in Users : Logout(u) /\ leftBy' = u
    BY <1>8 DEF LogoutServed
  <2>2. Leaves /\ UNCHANGED issued /\ \A q \in Requests : Answered(q)' => Answered(q)
    BY <1>0, <1>8, <2>1 DEF Leaves, LogoutServed, Logout, Answered
  <2> QED
    BY <1>8, <2>2, QuietCarried, LogoutStep
<1>9. ASSUME NEW p \in Pages, LogoutFailed(p) \/ LogoutEnds(p) PROVE CInv'
  BY <1>1, <1>9, LogoutStep DEF LogoutFailed, LogoutEnds, vars
<1>10. ASSUME NEW r \in Requests, Serve(r) PROVE CInv'
  <2>1. issued' \in [Requests -> Tokens \cup {NoToken}]
    BY <1>0, <1>10 DEF Serve
  <2> QED
    BY <1>0, <1>10, <2>1, ServeCarried, StillStep DEF Serve
<1>11. CASE Elsewhere
  <2>1. UNCHANGED client
    BY <1>11 DEF Elsewhere
  <2>2. \A q \in Requests : Answered(q)' => Answered(q)
    BY <1>11, ReadsAnswerNothing DEF Elsewhere, Logout, DeleteUser, SetActive, Expire, Answered
  <2> QED
    BY <1>0, <2>1, <2>2, QuietCarried, StillStep DEF client, Leaves
<1>12. CASE UNCHANGED allVars
  BY <1>0, <1>1, <1>12, StillStep DEF allVars, client, vars
<1> QED
  BY <1>2, <1>3, <1>4, <1>5, <1>6, <1>7, <1>8, <1>9, <1>10, <1>11, <1>12 DEF ClientNext

LEMMA ClientStart == ClientInit => TInv /\ CInv
<1> SUFFICES ASSUME ClientInit PROVE TInv /\ CInv
  OBVIOUS
<1>1. TInv
  BY TypeInit DEF ClientInit
<1>2. NoSession \in Session /\ NoSession.token = NoToken
  BY DEF NoSession, Session
<1>3. \A p \in Pages : /\ page[p].session = NoSession /\ page[p].refreshing = NoRequest
                       /\ page[p].login = NoRequest /\ page[p].sent = NoToken
  BY DEF ClientInit, Loaded
<1>4. stored = NoSession /\ \A r \in Requests : issued[r] = NoToken /\ req[r].pc = "new"
  BY DEF ClientInit, Init, NewRequest
<1>5. BrowserOK
  BY <1>2 DEF ClientInit, BrowserOK, Loaded, Page
<1>6. \A session \in Kept : Sound(session)
  BY <1>2, <1>3, <1>4 DEF Kept, Sound
<1>7. \A r \in Requests : Tied(r)
  BY <1>4 DEF Tied, Answered
<1>8. \A p \in Pages : Waits(p) /\ Replaced(p)
  BY <1>2, <1>3 DEF Waits, Replaced
<1>9. Apart /\ Undelivered
  BY <1>2, <1>3, <1>4 DEF Apart, Undelivered, Held
<1> QED
  BY <1>1, <1>5, <1>6, <1>7, <1>8, <1>9 DEF CInv

LEMMA ClientInvariant == ClientSpec => [](TInv /\ CInv)
<1>1. TInv /\ [ClientNext]_allVars => TInv'
  BY ClientSteps, TypeStep
<1> QED
  BY <1>1, ClientStart, ClientStep, PTL DEF ClientSpec

\* Type correctness of the browser and of the server it uses.
THEOREM BrowserTypeCorrect == ClientSpec => []ClientTypeOK
<1>1. TInv /\ CInv => ClientTypeOK
  BY DEF TInv, TokenOK, ReqOK, RestOK, CInv, BrowserOK, TypeOK, ClientTypeOK
<1> QED
  BY <1>1, ClientInvariant, PTL

\* The user a page or the storage shows is the user its tokens act for, unless the session
\* changed while a refresh of the previous one was in flight.
THEOREM IdentitiesAgree == ClientSpec => []IdentityAgrees
<1>1. CInv => IdentityAgrees
  BY DEF CInv, Sound, IdentityAgrees
<1> QED
  BY <1>1, ClientInvariant, PTL

\* A logout that reached the server from one page leaves no page of the browser, nor the
\* storage, a live token of that user, but what a refresh in flight brings back.
THEOREM LogoutIsShared == ClientSpec => []LogoutReachesEveryPage
<1>1. CInv => LogoutReachesEveryPage
  BY DEF CInv, Sound, Reached, LogoutReachesEveryPage
<1> QED
  BY <1>1, ClientInvariant, PTL

\* A page that has been loaded presents no token twice, whatever its logins, refreshes,
\* lost connections and logouts, and those of other pages.
THEOREM RefreshIsSingleFlight == ClientSpec => SingleFlight
<1>1. CInv /\ [ClientNext]_allVars =>
        [\A p \in Pages : page'[p].refreshing \notin {NoRequest, page[p].refreshing}
            => page[p].session.token # page[p].sent]_allVars
  <2> SUFFICES ASSUME CInv, [ClientNext]_allVars, NEW p \in Pages,
                      page'[p].refreshing \notin {NoRequest, page[p].refreshing}
               PROVE  page[p].session.token # page[p].sent
    OBVIOUS
  <2>0. page \in [Pages -> Page] /\ Replaced(p)
    BY DEF CInv, BrowserOK
  <2>1. ASSUME NEW q \in Pages, NEW r \in Requests, Refresh401(q, r)
        PROVE  page[p].session.token # page[p].sent
    <3>1. PICK t \in Tokens : t = page[q].session.token
      BY <2>1 DEF Refresh401
    <3>2. q = p /\ page[p].refreshing = NoRequest
      BY <2>0, <2>1 DEF Refresh401
    <3> QED
      BY <2>0, <3>1, <3>2, ConstantsAssumption DEF Replaced
  <2>2. ASSUME NEW q \in Pages, NEW new, new.refreshing \in {NoRequest, page[q].refreshing},
               page' = [page EXCEPT ![q] = new]
        PROVE  FALSE
    BY <2>0, <2>2
  <2>3. ASSUME NEW q \in Pages, Load(q) PROVE FALSE
    BY <2>2, <2>3 DEF Load, Loaded
  <2>4. ASSUME NEW q \in Pages, RefreshAnswered(q) PROVE FALSE
    BY <2>0, <2>2, <2>4 DEF RefreshAnswered, Becomes, Page
  <2>5. ASSUME NEW q \in Pages, LoginAnswered(q) PROVE FALSE
    <3>1. CASE req[page[q].login].reply = "ok"
      <4>1. page'[q].refreshing = page[q].refreshing /\ \A o \in Pages \ {q} : page'[o] = page[o]
        BY <2>0, <2>5, <3>1 DEF LoginAnswered, Becomes, Page
      <4> QED
        BY <4>1
    <3>2. CASE req[page[q].login].reply # "ok"
      <4>1. page'[q].refreshing = page[q].refreshing /\ \A o \in Pages \ {q} : page'[o] = page[o]
        BY <2>0, <2>5, <3>2 DEF LoginAnswered, Page
      <4> QED
        BY <4>1
    <3> QED
      BY <3>1, <3>2
  <2>6. ASSUME NEW q \in Pages, RefreshLost(q) PROVE FALSE
    <3>1. page'[q].refreshing = NoRequest /\ \A o \in Pages \ {q} : page'[o] = page[o]
      BY <2>0, <2>6 DEF RefreshLost, Becomes, Page
    <3> QED
      BY <3>1
  <2>7. ASSUME NEW q \in Pages, LogoutServed(q) PROVE FALSE
    <3>1. page'[q].refreshing = page[q].refreshing /\ \A o \in Pages \ {q} : page'[o] = page[o]
      BY <2>0, <2>7 DEF LogoutServed, Page
    <3> QED
      BY <3>1
  <2>8. ASSUME NEW q \in Pages, LogoutFailed(q) PROVE FALSE
    <3>1. page'[q].refreshing = page[q].refreshing /\ \A o \in Pages \ {q} : page'[o] = page[o]
      BY <2>0, <2>8 DEF LogoutFailed, Page
    <3> QED
      BY <3>1
  <2>9. ASSUME NEW q \in Pages, LogoutEnds(q) PROVE FALSE
    <3>1. page'[q].refreshing = page[q].refreshing /\ \A o \in Pages \ {q} : page'[o] = page[o]
      BY <2>0, <2>9 DEF LogoutEnds, Becomes, Page
    <3> QED
      BY <3>1
  <2>10. ASSUME NEW q \in Pages, NEW r \in Requests, NEW n \in Names, SubmitLogin(q, r, n) PROVE FALSE
    <3>1. page'[q].refreshing = page[q].refreshing /\ \A o \in Pages \ {q} : page'[o] = page[o]
      BY <2>0, <2>10 DEF SubmitLogin, Page
    <3> QED
      BY <3>1
  <2>11. CASE UNCHANGED page
    BY <2>11
  <2> QED
    BY <2>1, <2>3, <2>4, <2>5, <2>6, <2>7, <2>8, <2>9, <2>10, <2>11
       DEF ClientNext, Serve, Elsewhere, allVars, client
<1> QED
  BY <1>1, ClientInvariant, PTL DEF ClientSpec, SingleFlight
=============================================================================
