------------------------------ MODULE Sessions ------------------------------
(***************************************************************************)
(* Accounts and refresh tokens: login (get-or-create by display name),      *)
(* rotation, logout, and what an admin does to accounts.  Each handler      *)
(* reads, decides, and writes in one transaction that commits at its end;   *)
(* between the read and the commit any other request may commit.  Access    *)
(* tokens are stateless and are not modelled; a wrong password writes       *)
(* nothing here.                                                           *)
(***************************************************************************)
EXTENDS Naturals, FiniteSets

CONSTANTS
    Names,      \* display names
    NoName,
    Users,      \* ids of the users table
    NoUser,
    Tokens,     \* ids of the refresh_tokens table
    NoToken,
    Requests    \* HTTP requests, each handled once

ASSUME ConstantsAssumption ==
    /\ NoName \notin Names
    /\ NoUser \notin Users
    /\ NoToken \notin Tokens

VARIABLES
    name,       \* users.username, per user id
    account,    \* what became of each user id
    token,      \* the refresh_tokens table
    req,        \* the HTTP requests
    signedOff,  \* history: users whose last completed login or logout was a logout
    shared,     \* history: tokens that two refreshes in flight had both found valid
    escaped     \* history: tokens a refresh had in flight when their user's last logout
                \* committed, and what was rotated from them since

history == <<signedOff, shared, escaped>>

vars == <<name, account, token, req, history>>

-----------------------------------------------------------------------------

Account == {"unused", "active", "inactive", "deleted"}

Exists(u) == account[u] \in {"active", "inactive"}

Named(n) == {u \in Users : Exists(u) /\ name[u] = n}

\* "expired" is a token past expires_at that was not revoked before; `parent` is the
\* token it was rotated from.
Token == [status: {"unused", "live", "expired", "revoked", "deleted"}, user: Users \cup {NoUser},
          parent: Tokens \cup {NoToken}]

NewToken == [status |-> "unused", user |-> NoUser, parent |-> NoToken]

Request == [op: {"none", "login", "refresh"},
            pc: {"new", "looked", "read", "done"},
            name: Names \cup {NoName},      \* login: the display name
            user: Users \cup {NoUser},      \* login: the account a SELECT found
            token: Tokens \cup {NoToken},   \* refresh: the token presented
            reply: {"none", "ok", "unauthorized", "error"}]

NewRequest == [op |-> "none", pc |-> "new", name |-> NoName,
               user |-> NoUser, token |-> NoToken, reply |-> "none"]

Init ==
    /\ name = [u \in Users |-> NoName]
    /\ account = [u \in Users |-> "unused"]
    /\ token = [t \in Tokens |-> NewToken]
    /\ req = [r \in Requests |-> NewRequest]
    /\ signedOff = {} /\ shared = {} /\ escaped = {}

InFlight(r) == req[r].pc \in {"looked", "read"}

MayStart(r) == req[r].pc = "new"

Rotating(r, t) == InFlight(r) /\ req[r].op = "refresh" /\ req[r].token = t

Answer(r, reply) == req' = [req EXCEPT ![r].pc = "done", ![r].reply = reply]

\* issue_refresh_token.
Issued(u, parent) == [status |-> "live", user |-> u, parent |-> parent]

-----------------------------------------------------------------------------

\* Mutant: two first logins insert the same name.
LoginCreatingNotUnique(r) ==
    /\ req[r].op = "login" /\ req[r].pc = "read"
    /\ req[r].user = NoUser
    /\ \E u \in Users, t \in Tokens :
          /\ account[u] = "unused" /\ token[t].status = "unused"
          /\ account' = [account EXCEPT ![u] = "active"]
          /\ name' = [name EXCEPT ![u] = req[r].name]
          /\ token' = [token EXCEPT ![t] = Issued(u, NoToken)]
    /\ Answer(r, "ok")
    /\ UNCHANGED history

\* Mutant: no flush before the token is issued, so that the new user has no id yet.
LoginCreatingUnflushed(r) ==
    /\ req[r].op = "login" /\ req[r].pc = "read"
    /\ req[r].user = NoUser /\ Named(req[r].name) = {}
    /\ \E u \in Users, t \in Tokens :
          /\ account[u] = "unused" /\ token[t].status = "unused"
          /\ account' = [account EXCEPT ![u] = "active"]
          /\ name' = [name EXCEPT ![u] = req[r].name]
          /\ token' = [token EXCEPT ![t] = Issued(NoUser, NoToken)]
    /\ Answer(r, "ok")
    /\ UNCHANGED history

\* authenticate, with the right password: the first SELECT by name.
LoginRead(r, n) ==
    /\ MayStart(r)
    /\ \/ \E u \in Named(n) :
            req' = [req EXCEPT ![r] =
                     [NewRequest EXCEPT !.op = "login", !.name = n, !.user = u,
                        !.pc = IF account[u] = "active" THEN "read" ELSE "done",
                        !.reply = IF account[u] = "active" THEN "none" ELSE "unauthorized"]]
       \/ /\ Named(n) = {}
          /\ req' = [req EXCEPT ![r] = [NewRequest EXCEPT !.op = "login", !.name = n,
                                                          !.pc = "looked"]]
    /\ UNCHANGED <<name, account, token, history>>

\* get_or_create_user asks again; an account created since is used like any other.
LoginLookup(r) ==
    LET n == req[r].name IN
    /\ req[r].op = "login" /\ req[r].pc = "looked"
    /\ \/ \E u \in Named(n) :
            req' = [req EXCEPT ![r].user = u,
                               ![r].pc = IF account[u] = "active" THEN "read" ELSE "done",
                               ![r].reply = IF account[u] = "active" THEN "none" ELSE "unauthorized"]
       \/ Named(n) = {} /\ req' = [req EXCEPT ![r].pc = "read"]
    /\ UNCHANGED <<name, account, token, history>>

\* The account was there: a token is issued for it.  Only the foreign key notices
\* that it has been deleted since; nothing notices that it has been deactivated.
LoginReturning(r) ==
    LET u == req[r].user IN
    /\ req[r].op = "login" /\ req[r].pc = "read"
    /\ u # NoUser
    /\ \/ /\ Exists(u)
          /\ \E t \in Tokens :
                /\ token[t].status = "unused"
                /\ token' = [token EXCEPT ![t] = Issued(u, NoToken)]
          /\ Answer(r, "ok")
          /\ signedOff' = signedOff \ {u}
       \/ /\ ~Exists(u)
          /\ Answer(r, "error")
          /\ UNCHANGED <<token, signedOff>>
    /\ UNCHANGED <<name, account, shared, escaped>>

\* get_or_create_user inserts; username is UNIQUE and the IntegrityError is not caught.
LoginCreating(r) ==
    LET n == req[r].name IN
    /\ req[r].op = "login" /\ req[r].pc = "read"
    /\ req[r].user = NoUser
    /\ \/ /\ Named(n) = {}
          /\ \E u \in Users, t \in Tokens :
                /\ account[u] = "unused" /\ token[t].status = "unused"
                /\ account' = [account EXCEPT ![u] = "active"]
                /\ name' = [name EXCEPT ![u] = n]
                /\ token' = [token EXCEPT ![t] = Issued(u, NoToken)]
          /\ Answer(r, "ok")
       \/ /\ Named(n) # {}
          /\ Answer(r, "error")
          /\ UNCHANGED <<name, account, token>>
    /\ UNCHANGED history

\* Mutant: a rotated token is accepted again.
RefreshReadReused(r, t) ==
    /\ MayStart(r)
    /\ token[t].status \in {"live", "revoked"}
    /\ req' = [req EXCEPT ![r] = [NewRequest EXCEPT !.op = "refresh", !.token = t, !.pc = "looked"]]
    /\ UNCHANGED <<name, account, token, history>>

\* Mutants: the successor is issued without revoking the token; the transaction
\* writes back the whole row it read.
RefreshCommitUnrevoked(r) ==
    /\ req[r].op = "refresh" /\ req[r].pc = "read"
    /\ \E s \in Tokens :
          /\ token[s].status = "unused" /\ token[req[r].token].status # "deleted"
          /\ token' = [token EXCEPT ![s] = Issued(token[req[r].token].user, req[r].token)]
    /\ Answer(r, "ok")
    /\ UNCHANGED <<name, account, history>>

RefreshCommitRenewed(r) ==
    /\ req[r].op = "refresh" /\ req[r].pc = "read"
    /\ token[req[r].token].status # "deleted"
    /\ token' = [token EXCEPT ![req[r].token].status = "live"]
    /\ Answer(r, "ok")
    /\ UNCHANGED <<name, account, history>>

\* rotate_refresh_token loads the token, then its user.
RefreshRead(r, t) ==
    /\ MayStart(r)
    /\ token[t].status # "unused"
    /\ LET valid == token[t].status = "live"
       IN  /\ req' = [req EXCEPT ![r] =
                    [NewRequest EXCEPT !.op = "refresh", !.token = t,
                       !.pc = IF valid THEN "looked" ELSE "done",
                       !.reply = IF valid THEN "none" ELSE "unauthorized"]]
           /\ shared' = IF valid /\ \E q \in Requests : Rotating(q, t) THEN shared \cup {t} ELSE shared
    /\ UNCHANGED <<name, account, token, signedOff, escaped>>

RefreshUser(r) ==
    LET active == account[token[req[r].token].user] = "active" IN
    /\ req[r].op = "refresh" /\ req[r].pc = "looked"
    /\ req' = [req EXCEPT ![r].pc = IF active THEN "read" ELSE "done",
                          ![r].reply = IF active THEN "none" ELSE "unauthorized"]
    /\ UNCHANGED <<name, account, token, history>>

\* Revoke it, issue its successor, commit.  The token row vanishes with its user.
RefreshCommit(r) ==
    LET t == req[r].token IN
    /\ req[r].op = "refresh" /\ req[r].pc = "read"
    /\ \/ /\ token[t].status \in {"live", "expired", "revoked"}
          /\ \E s \in Tokens :
                /\ token[s].status = "unused"
                /\ token' = [token EXCEPT ![t].status = "revoked",
                                          ![s] = Issued(token[t].user, t)]
                /\ escaped' = IF t \in escaped THEN escaped \cup {s} ELSE escaped
          /\ Answer(r, "ok")
       \/ /\ token[t].status = "deleted"
          /\ Answer(r, "error")
          /\ UNCHANGED <<token, escaped>>
    /\ UNCHANGED <<name, account, signedOff, shared>>

\* The tokens of u that a refresh in flight has found valid.
InFlightOf(u) == {t \in Tokens : token[t].user = u /\ \E r \in Requests : Rotating(r, t)}

\* Mutant: logout revokes the tokens no rotation produced.
LogoutFirstOnly(u) ==
    /\ account[u] = "active"
    /\ token' = [t \in Tokens |->
                   IF token[t].user = u /\ token[t].status = "live" /\ token[t].parent = NoToken
                     THEN [token[t] EXCEPT !.status = "revoked"] ELSE token[t]]
    /\ signedOff' = signedOff \cup {u}
    /\ escaped' = InFlightOf(u) \cup {t \in escaped : token[t].user # u}
    /\ UNCHANGED <<name, account, req, shared>>

\* logout: it revokes every token of the user that its UPDATE statement sees.  The user
\* was active when the access token was checked, and may not be any more.
Logout(u) ==
    /\ Exists(u)
    /\ token' = [t \in Tokens |->
                   IF token[t].user = u /\ token[t].status \in {"live", "expired"}
                     THEN [token[t] EXCEPT !.status = "revoked"] ELSE token[t]]
    /\ signedOff' = signedOff \cup {u}
    /\ escaped' = InFlightOf(u) \cup {t \in escaped : token[t].user # u}
    /\ UNCHANGED <<name, account, req, shared>>

\* The admin's update_user and delete_user; deletion cascades to the tokens.
SetActive(u, active) ==
    /\ Exists(u)
    /\ account' = [account EXCEPT ![u] = IF active THEN "active" ELSE "inactive"]
    /\ UNCHANGED <<name, token, req, history>>

DeleteUser(u) ==
    /\ Exists(u)
    /\ account' = [account EXCEPT ![u] = "deleted"]
    /\ token' = [t \in Tokens |->
                   IF token[t].user = u THEN [token[t] EXCEPT !.status = "deleted"] ELSE token[t]]
    /\ UNCHANGED <<name, req, history>>

\* Seven days pass.
Expire(t) ==
    /\ token[t].status = "live"
    /\ token' = [token EXCEPT ![t].status = "expired"]
    /\ UNCHANGED <<name, account, req, history>>

-----------------------------------------------------------------------------

Next ==
    \/ \E r \in Requests :
          \/ \E n \in Names : LoginRead(r, n)
          \/ LoginLookup(r) \/ LoginReturning(r) \/ LoginCreating(r)
          \/ \E t \in Tokens : RefreshRead(r, t)
          \/ RefreshUser(r) \/ RefreshCommit(r)
    \/ \E u \in Users : Logout(u) \/ DeleteUser(u) \/ \E active \in BOOLEAN : SetActive(u, active)
    \/ \E t \in Tokens : Expire(t)

Spec == Init /\ [][Next]_vars

-----------------------------------------------------------------------------
(* Properties.                                                                *)

\* Every variable keeps its type, and a token in use its user.
TypeOK ==
    /\ name \in [Users -> Names \cup {NoName}]
    /\ account \in [Users -> Account]
    /\ token \in [Tokens -> Token]
    /\ \A t \in Tokens : token[t].status # "unused" => token[t].user \in Users
    /\ req \in [Requests -> Request]
    /\ signedOff \subseteq Users /\ shared \subseteq Tokens /\ escaped \subseteq Tokens

\* Concurrent first logins with one display name never leave two accounts of that name.
OneAccountPerName ==
    \A u, v \in Users : Exists(u) /\ Exists(v) /\ name[u] = name[v] => u = v

\* A token that can still be presented belongs to an account that exists: a login in
\* flight while the account is deleted leaves none behind.
TokensOwned ==
    \A t \in Tokens : token[t].status \in {"live", "expired", "revoked"} => Exists(token[t].user)

\* Get-or-create (FR-001) and the deletion of accounts, whatever logins and refreshes are
\* in flight: a name has one account, and no token outlives its own.
AccountsSound == OneAccountPerName /\ TokensOwned

\* Whatever rotated is spent: the parent of a token is never live, in any interleaving
\* of refreshes, logouts and deletions.
ParentSpent ==
    \A t \in Tokens :
        token[t].parent # NoToken => token[token[t].parent].status \in {"revoked", "deleted"}

\* No transaction un-revokes a token, not even one that read it while it was live.
RevokedForever ==
    [][\A t \in Tokens : token[t].status = "revoked" => token'[t].status \in {"revoked", "deleted"}]_vars

\* Rotation is one to one (FR-005, "once rotated, MUST NOT be reusable") but for a token
\* that two overlapping refreshes both found valid: only such a token has two successors.
RotatedOnce ==
    \A s, t \in Tokens :
        token[s].parent = token[t].parent /\ token[s].parent # NoToken
            => s = t \/ token[s].parent \in shared

\* Logout revokes all of a user's renewal credentials (FR-004): until the user logs in
\* again, none is live but what comes of a refresh that was in flight at the logout.
SignedOffIsFinal ==
    \A u \in signedOff : \A t \in Tokens :
        token[t].user = u /\ token[t].status = "live" => t \in escaped
=============================================================================
