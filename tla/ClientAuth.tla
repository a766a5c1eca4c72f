----------------------------- MODULE ClientAuth -----------------------------
(***************************************************************************)
(* The pages (tabs) of one browser, composed with the server's Sessions.    *)
(* Every page keeps the session in memory and writes all of it to the       *)
(* storage they share, which is only read when a page loads.  A 401 makes   *)
(* a page refresh its tokens, one refresh at a time per page; a failed      *)
(* refresh clears the session.  Other devices use the server meanwhile.     *)
(***************************************************************************)
EXTENDS Sessions

CONSTANTS
    Pages,
    NoRequest

ASSUME PagesAssumption == NoRequest \notin Requests

VARIABLES
    stored,     \* localStorage "wmp-auth", shared by the pages
    page,       \* the pages
    issued,     \* per request: the refresh token in its response
    leftBy      \* history: the user whose tokens the server revoked for a page of this
                \* browser, until someone logs in at one of them

client == <<stored, page, issued, leftBy>>

allVars == <<vars, client>>

-----------------------------------------------------------------------------

\* The persisted AuthState: the refresh token, the user the access token names, the user
\* shown.  History `crossed`: the session changed while a refresh of the old one was in
\* flight.
Session == [token: Tokens \cup {NoToken}, bearer: Users \cup {NoUser}, user: Users \cup {NoUser},
            crossed: BOOLEAN]

NoSession == [token |-> NoToken, bearer |-> NoUser, user |-> NoUser, crossed |-> FALSE]

Page == [session: Session,
         refreshing: Requests \cup {NoRequest},     \* the single-flight slot
         login: Requests \cup {NoRequest},          \* the submitted login form
         leaving: BOOLEAN,                          \* Nav.logout has its answer
         sent: Tokens \cup {NoToken}]               \* history: the token presented last since load

Loaded(session) == [session |-> session, refreshing |-> NoRequest, login |-> NoRequest,
                    leaving |-> FALSE, sent |-> NoToken]

ClientInit ==
    /\ Init
    /\ stored = NoSession
    /\ page = [p \in Pages |-> Loaded(NoSession)]
    /\ issued = [r \in Requests |-> NoToken]
    /\ leftBy = NoUser

\* What the browser keeps: the storage, and the memory of its pages.
Kept == {stored} \cup {page[p].session : p \in Pages}

Owned(r) == \E p \in Pages : r \in {page[p].refreshing, page[p].login}

\* A request that nothing has sent yet.
Unsent(r) == req[r].pc = "new" /\ ~Owned(r)

\* Every change of the state is persisted whole.
Becomes(p, changed) ==
    /\ page' = [page EXCEPT ![p] = changed]
    /\ stored' = changed.session

\* clear.
Cleared(p) == [NoSession EXCEPT !.crossed = page[p].refreshing # NoRequest]

-----------------------------------------------------------------------------

\* A page is opened or reloaded; what the old page waited for is lost to it.
Load(p) ==
    /\ page' = [page EXCEPT ![p] = Loaded(stored)]
    /\ UNCHANGED <<vars, stored, issued, leftBy>>

\* The login form is submitted; the server reads the account.
SubmitLogin(p, r, n) ==
    /\ page[p].login = NoRequest
    /\ Unsent(r)
    /\ LoginRead(r, n)
    /\ page' = [page EXCEPT ![p].login = r]
    /\ UNCHANGED <<stored, issued, leftBy>>

\* Mutant: setSession forgets the user.
LoginAnsweredNameless(p) ==
    LET r == page[p].login IN
    /\ r # NoRequest
    /\ req[r].pc = "done" /\ req[r].reply = "ok"
    /\ Becomes(p, [page[p] EXCEPT !.session.token = issued[r], !.session.bearer = token[issued[r]].user,
                                  !.session.crossed = page[p].refreshing # NoRequest, !.login = NoRequest])
    /\ leftBy' = NoUser
    /\ UNCHANGED <<vars, issued>>

\* setSession, or the form shows an error.
LoginAnswered(p) ==
    LET r == page[p].login
        u == token[issued[r]].user
    IN
    /\ r # NoRequest
    /\ req[r].pc = "done"
    /\ IF req[r].reply = "ok"
         THEN /\ Becomes(p, [page[p] EXCEPT
                               !.session = [token |-> issued[r], bearer |-> u, user |-> u,
                                            crossed |-> page[p].refreshing # NoRequest],
                               !.login = NoRequest])
              /\ leftBy' = NoUser
         ELSE /\ page' = [page EXCEPT ![p].login = NoRequest]
              /\ UNCHANGED <<stored, leftBy>>
    /\ UNCHANGED <<vars, issued>>

\* Mutant: every 401 starts a refresh of its own.
Refresh401EachCall(p, r) ==
    /\ Unsent(r)
    /\ \E t \in Tokens :
          /\ t = page[p].session.token
          /\ RefreshRead(r, t)
          /\ page' = [page EXCEPT ![p].refreshing = r, ![p].sent = t]
    /\ UNCHANGED <<stored, issued, leftBy>>

\* getRefresh: some call was answered 401, and no refresh is under way; the server reads
\* the token.
Refresh401(p, r) ==
    /\ page[p].refreshing = NoRequest
    /\ Unsent(r)
    /\ \E t \in Tokens :
          /\ t = page[p].session.token
          /\ RefreshRead(r, t)
          /\ page' = [page EXCEPT ![p].refreshing = r, ![p].sent = t]
    /\ UNCHANGED <<stored, issued, leftBy>>

\* refreshAccessToken: setTokens, which leaves the user shown alone, or clear.
RefreshAnswered(p) ==
    LET r == page[p].refreshing
        settled == [page[p] EXCEPT !.refreshing = NoRequest]
    IN
    /\ r # NoRequest
    /\ req[r].pc = "done"
    /\ Becomes(p, IF req[r].reply = "ok"
                    THEN [settled EXCEPT !.session.token = issued[r],
                                         !.session.bearer = token[issued[r]].user]
                    ELSE [settled EXCEPT !.session = NoSession])
    /\ UNCHANGED <<vars, issued, leftBy>>

\* The connection fails: the request never arrives, or its response does not.
RefreshLost(p) ==
    /\ page[p].refreshing # NoRequest \/ page[p].session.token # NoToken
    /\ Becomes(p, [page[p] EXCEPT !.session = NoSession, !.refreshing = NoRequest])
    /\ UNCHANGED <<vars, issued, leftBy>>

\* Nav.logout posts: the server revokes the tokens of the user the access token names, ...
LogoutServed(p) ==
    /\ ~page[p].leaving
    /\ \E u \in Users :
          /\ u = page[p].session.bearer
          /\ Logout(u)
          /\ leftBy' = u
    /\ page' = [page EXCEPT ![p].leaving = TRUE]
    /\ UNCHANGED <<stored, issued>>

\* ... or the call fails, which is ignored, ...
LogoutFailed(p) ==
    /\ ~page[p].leaving
    /\ page[p].session.bearer # NoUser
    /\ page' = [page EXCEPT ![p].leaving = TRUE]
    /\ UNCHANGED <<vars, stored, issued, leftBy>>

\* ... and the session is cleared either way.
LogoutEnds(p) ==
    /\ page[p].leaving
    /\ Becomes(p, [page[p] EXCEPT !.leaving = FALSE, !.session = Cleared(p)])
    /\ UNCHANGED <<vars, issued, leftBy>>

\* The server goes on with a request, whoever sent it.
Serve(r) ==
    /\ \/ LoginLookup(r) \/ LoginReturning(r) \/ LoginCreating(r)
       \/ RefreshUser(r) \/ RefreshCommit(r)
    /\ issued' = [issued EXCEPT ![r] =
                    IF \E t \in Tokens : token[t].status = "unused" /\ token'[t].status # "unused"
                      THEN CHOOSE t \in Tokens : token[t].status = "unused" /\ token'[t].status # "unused"
                      ELSE NoToken]
    /\ UNCHANGED <<stored, page, leftBy>>

\* Other devices, admins, and the passing of time.
Elsewhere ==
    /\ \/ \E r \in Requests : /\ Unsent(r)
                              /\ \/ \E n \in Names : LoginRead(r, n)
                                 \/ \E t \in Tokens \ {session.token : session \in Kept} :
                                       RefreshRead(r, t)
       \/ \E u \in Users : Logout(u) \/ DeleteUser(u) \/ \E active \in BOOLEAN : SetActive(u, active)
       \/ \E t \in Tokens : Expire(t)
    /\ UNCHANGED client

ClientNext ==
    \/ \E p \in Pages :
          \/ Load(p)
          \/ \E r \in Requests : Refresh401(p, r) \/ \E n \in Names : SubmitLogin(p, r, n)
          \/ LoginAnswered(p) \/ RefreshAnswered(p) \/ RefreshLost(p)
          \/ LogoutServed(p) \/ LogoutFailed(p) \/ LogoutEnds(p)
    \/ \E r \in Requests : Serve(r)
    \/ Elsewhere

ClientSpec == ClientInit /\ [][ClientNext]_allVars

-----------------------------------------------------------------------------
(* Properties.                                                                *)

\* Every variable of the browser keeps its type.
ClientTypeOK ==
    /\ TypeOK
    /\ stored \in Session
    /\ page \in [Pages -> Page]
    /\ issued \in [Requests -> Tokens \cup {NoToken}]
    /\ leftBy \in Users \cup {NoUser}

\* One page never presents a token twice (api.ts: "a second refresh is never kicked off
\* against an already-rotated token"): what it presented it either replaces or forgets.
\* Two pages, or a page reloaded in the middle of a refresh, may.
SingleFlight ==
    [][\A p \in Pages :
          page'[p].refreshing \notin {NoRequest, page[p].refreshing}
              => page[p].session.token # page[p].sent]_allVars

\* The user a page shows and the user its tokens act for are the same, unless the session
\* changed, by a login or a logout, while a refresh of the previous one was in flight:
\* setTokens replaces the tokens and keeps the user.
IdentityAgrees ==
    \A session \in Kept :
        session.token # NoToken /\ ~session.crossed
            => token[session.token].user = session.user /\ session.bearer = session.user

\* Once the server has logged a user out for one page, no page of the browser and not the
\* storage has a live token of theirs, but for what a refresh in flight brings back.
LogoutReachesEveryPage ==
    \A session \in Kept :
        session.token # NoToken => \/ token[session.token].user # leftBy
                                   \/ token[session.token].status # "live"
                                   \/ session.token \in escaped
=============================================================================
