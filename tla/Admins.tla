------------------------------- MODULE Admins -------------------------------
(***************************************************************************)
(* Admins who change and delete each other's accounts and the settings of   *)
(* the event (services/admin.py), guests who log in meanwhile, and restarts  *)
(* of the server, which seed the built-in admin.                             *)
(*                                                                         *)
(* A handler reads its actor, checks the role, reads the row it is to        *)
(* change, and writes those columns whose value it changes.  The actor is     *)
(* not read again.                                                          *)
(***************************************************************************)
EXTENDS Naturals

CONSTANTS
    Accounts,       \* ids of users, never reused
    NoAccount,
    Names,          \* display names
    NoName,
    AdminName,      \* settings.admin_username
    Settings,       \* stands for the id of the singleton row of event_config
    Requests        \* HTTP requests, each handled once

ASSUME ConstantsAssumption ==
    /\ NoAccount \notin Accounts
    /\ NoName \notin Names
    /\ AdminName \in Names
    /\ Settings \notin Accounts

VARIABLES
    account,    \* users
    settings,   \* event_config
    req,
    struck      \* history: the requests whose actor lost the admin role, or the account,
                \* while they were in flight

vars == <<account, settings, req, struck>>

-----------------------------------------------------------------------------

AccountFields == {"admin", "active"}
SettingsFields == {"uploads", "limits"}

AccountRow == [AccountFields -> BOOLEAN]
SettingsRow == [SettingsFields -> BOOLEAN]

\* An update names some fields of a row.
AccountPatch == UNION {[named -> BOOLEAN] : named \in SUBSET AccountFields}
SettingsPatch == UNION {[named -> BOOLEAN] : named \in SUBSET SettingsFields}

NoPatch == [f \in {} |-> FALSE]

Guest == [f \in AccountFields |-> f = "active"]
Admin == [f \in AccountFields |-> TRUE]
Defaults == [f \in SettingsFields |-> TRUE]

Account == [state: {"unused", "here", "deleted"}, name: Names \cup {NoName}, row: AccountRow]

Request == [pc: {"new", "admitted", "loaded", "missing", "inserted", "done"},
            actor: Accounts \cup {NoAccount},
            on: Accounts \cup {Settings},               \* the row it is about
            op: {"update", "delete"},
            patch: AccountPatch \cup SettingsPatch,     \* what an update asks for
            seen: AccountRow \cup SettingsRow,          \* the row it read
            reply: {"none", "ok", "refused", "error"}]

Unused == [state |-> "unused", name |-> NoName, row |-> Guest]
Deleted == [Unused EXCEPT !.state = "deleted"]

Opened(u, on, op, patch) ==
    [pc |-> "admitted", actor |-> u, on |-> on, op |-> op, patch |-> patch, seen |-> Defaults,
     reply |-> "none"]

Here(a) == account[a].state = "here"

\* get_current_user and require_admin let the account in.
IsAdmin(a) == Here(a) /\ account[a].row["active"] /\ account[a].row["admin"]

InFlight(r) == req[r].pc \notin {"new", "done"}

Named(n) == {a \in Accounts : Here(a) /\ account[a].name = n}

\* A new account of that name.
Creates(a, n, row) ==
    /\ account[a].state = "unused" /\ Named(n) = {}
    /\ account' = [account EXCEPT ![a] = [state |-> "here", name |-> n, row |-> row]]

Init ==
    /\ \E a \in Accounts :
          account = [b \in Accounts |-> IF b = a THEN [state |-> "here", name |-> AdminName, row |-> Admin]
                                                 ELSE Unused]
    /\ settings = [exists |-> FALSE, row |-> Defaults]
    /\ req = [r \in Requests |-> [Opened(NoAccount, Settings, "update", NoPatch) EXCEPT !.pc = "new"]]
    /\ struck = {}

\* Only the answer of a request that is over matters.
Ended(reply) == [Opened(NoAccount, Settings, "update", NoPatch) EXCEPT !.pc = "done", !.reply = reply]

Finish(r, reply) == req' = [req EXCEPT ![r] = Ended(reply)]

\* Request r takes the admin role from the actors of other requests in flight.
Strikes(r) ==
    struck' = struck \cup {q \in Requests \ {r} :
                              /\ InFlight(q)
                              /\ \E u \in Accounts : u = req[q].actor /\ IsAdmin(u) /\ ~IsAdmin(u)'}

-----------------------------------------------------------------------------

\* Mutants: no _guard_not_self; get_current_user takes an account that is not active.
BeginUnguarded(r, u, on, op, patch) ==
    /\ req[r].pc = "new"
    /\ IsAdmin(u)
    /\ IF on = Settings THEN op = "update" /\ patch \in SettingsPatch
                        ELSE patch \in IF op = "update" THEN AccountPatch ELSE {NoPatch}
    /\ req' = [req EXCEPT ![r] = Opened(u, on, op, patch)]
    /\ UNCHANGED <<account, settings, struck>>

BeginInactive(r, u, on, op, patch) ==
    /\ req[r].pc = "new"
    /\ Here(u) /\ account[u].row["admin"] /\ u # on
    /\ IF on = Settings THEN op = "update" /\ patch \in SettingsPatch
                        ELSE patch \in IF op = "update" THEN AccountPatch ELSE {NoPatch}
    /\ req' = [req EXCEPT ![r] = Opened(u, on, op, patch)]
    /\ UNCHANGED <<account, settings, struck>>

\* The route's dependencies, then _guard_not_self.
Begin(r, u, on, op, patch) ==
    /\ req[r].pc = "new"
    /\ account[u].state # "unused"
    /\ IF on = Settings THEN op = "update" /\ patch \in SettingsPatch
                        ELSE patch \in IF op = "update" THEN AccountPatch ELSE {NoPatch}
    /\ req' = [req EXCEPT ![r] = IF IsAdmin(u) /\ u # on
                                   THEN Opened(u, on, op, patch)
                                   ELSE Ended("refused")]
    /\ UNCHANGED <<account, settings, struck>>

\* _get_user.
GetUser(r) ==
    LET a == req[r].on IN
    /\ req[r].pc = "admitted" /\ a \in Accounts
    /\ IF Here(a) THEN req' = [req EXCEPT ![r].pc = "loaded", ![r].seen = account[a].row]
                  ELSE Finish(r, "refused")
    /\ UNCHANGED <<account, settings, struck>>

\* Mutant: every column is written, not just the changed ones.
WrittenWhole(r, row) ==
    [f \in DOMAIN row |-> IF f \in DOMAIN req[r].patch THEN req[r].patch[f] ELSE req[r].seen[f]]

\* The fields of an update that differ from what was read are what the UPDATE sets.
Changed(r) == {f \in DOMAIN req[r].patch : req[r].patch[f] # req[r].seen[f]}

Written(r, row) == [f \in DOMAIN row |-> IF f \in Changed(r) THEN req[r].patch[f] ELSE row[f]]

\* update_user: flush and commit.  An UPDATE of a row that is gone raises.
UpdateUser(r) ==
    LET a == req[r].on IN
    /\ req[r].pc = "loaded" /\ req[r].op = "update" /\ a \in Accounts
    /\ IF Here(a) \/ Changed(r) = {}
         THEN /\ account' = [account EXCEPT ![a].row = Written(r, @)]
              /\ Finish(r, "ok")
         ELSE /\ Finish(r, "error")
              /\ UNCHANGED account
    /\ Strikes(r)
    /\ UNCHANGED settings

\* delete_user; a row that is gone already is no error.
DeleteUser(r) ==
    LET a == req[r].on IN
    /\ req[r].pc = "loaded" /\ req[r].op = "delete"
    /\ account' = IF Here(a) THEN [account EXCEPT ![a] = Deleted] ELSE account
    /\ Finish(r, "ok")
    /\ Strikes(r)
    /\ UNCHANGED settings

-----------------------------------------------------------------------------
(* get_event_config and update_event_config; reading them is an update that     *)
(* names no field.                                                              *)

GetSettings(r) ==
    /\ req[r].pc = "admitted" /\ req[r].on = Settings
    /\ req' = [req EXCEPT ![r].pc = IF settings.exists THEN "loaded" ELSE "missing",
                          ![r].seen = IF settings.exists THEN settings.row ELSE Defaults]
    /\ UNCHANGED <<account, settings, struck>>

\* Mutant: the insert overwrites a row that exists.
InsertSettingsUpsert(r) ==
    /\ req[r].pc = "missing"
    /\ \A q \in Requests : req[q].pc # "inserted"
    /\ settings' = [exists |-> TRUE, row |-> Defaults]
    /\ req' = [req EXCEPT ![r].pc = "loaded"]
    /\ UNCHANGED <<account, struck>>

\* The INSERT of the singleton is flushed.  It waits for another one in flight, and
\* raises when the row exists by then.
InsertSettings(r) ==
    /\ req[r].pc = "missing"
    /\ \A q \in Requests : req[q].pc # "inserted"
    /\ IF settings.exists THEN Finish(r, "error")
                          ELSE req' = [req EXCEPT ![r].pc = "inserted"]
    /\ UNCHANGED <<account, settings, struck>>

UpdateSettings(r) ==
    /\ req[r].pc \in {"loaded", "inserted"} /\ req[r].on = Settings
    /\ settings' = [exists |-> TRUE, row |-> Written(r, settings.row)]
    /\ Finish(r, "ok")
    /\ UNCHANGED <<account, struck>>

-----------------------------------------------------------------------------

\* get_or_create_user: a first login with a free name, the built-in admin's included.
Login(a, n) ==
    /\ Creates(a, n, Guest)
    /\ UNCHANGED <<settings, req, struck>>

\* Mutant: a restart restores an account of that name that is there.
RestartRestoring(a) ==
    /\ IF Named(AdminName) = {}
         THEN Creates(a, AdminName, Admin)
         ELSE account' = [b \in Accounts |-> IF b \in Named(AdminName) THEN [account[b] EXCEPT !.row = Admin]
                                                                       ELSE account[b]]
    /\ req' = [r \in Requests |-> IF InFlight(r) THEN Ended("error") ELSE req[r]]
    /\ UNCHANGED <<settings, struck>>

\* The server restarts: requests in flight are lost with their transactions; lifespan
\* creates the built-in admin if no account has the name, and in debug mode the settings.
Restart(a) ==
    /\ IF Named(AdminName) = {} THEN Creates(a, AdminName, Admin) ELSE UNCHANGED account
    /\ settings' \in {settings, [settings EXCEPT !.exists = TRUE]}
    /\ req' = [r \in Requests |-> IF InFlight(r) THEN Ended("error") ELSE req[r]]
    /\ UNCHANGED struck

Handle(r) ==
    \/ \E u \in Accounts, on \in Accounts \cup {Settings}, op \in {"update", "delete"},
          patch \in AccountPatch \cup SettingsPatch : Begin(r, u, on, op, patch)
    \/ GetUser(r) \/ UpdateUser(r) \/ DeleteUser(r)
    \/ GetSettings(r) \/ InsertSettings(r) \/ UpdateSettings(r)

Next ==
    \/ \E r \in Requests : Handle(r)
    \/ \E a \in Accounts : Restart(a) \/ \E n \in Names : Login(a, n)

Spec == Init /\ [][Next]_vars

-----------------------------------------------------------------------------
(* Properties.                                                                *)

\* Every variable keeps its type; a request that has read a row has seen the fields it
\* may change.
TypeOK ==
    /\ account \in [Accounts -> Account]
    /\ settings \in [exists: BOOLEAN, row: SettingsRow]
    /\ req \in [Requests -> Request]
    /\ \A r \in Requests : InFlight(r) =>
          /\ req[r].actor \in Accounts /\ req[r].on # req[r].actor
          /\ req[r].on = Settings => req[r].op = "update" /\ req[r].patch \in SettingsPatch
                                     /\ req[r].seen \in SettingsRow
          /\ req[r].on # Settings => req[r].patch \in AccountPatch /\ req[r].pc \in {"admitted", "loaded"}
          /\ req[r].on # Settings /\ req[r].pc = "loaded" => req[r].seen \in AccountRow
          /\ req[r].pc = "missing" \/ req[r].pc = "inserted" => req[r].on = Settings
    /\ \A r \in Requests : req[r].reply # "none" => req[r].pc = "done"
    /\ struck \subseteq Requests

\* The guard against changing one's own account keeps an admin (contracts/admin.md,
\* "preventing self-lockout"), for any sequence of requests and restarts: all admins can
\* only be lost through a request whose actor was struck while it was in flight.
AnAdminRemains ==
    \/ \E a \in Accounts : IsAdmin(a)
    \/ \E r \in struck : req[r].reply = "ok"

\* What an admin request does, an admin does: when it succeeds its actor is an admin
\* still, unless the actor was struck while it was in flight.
ActsWithAuthority ==
    [][\A r \in Requests :
          InFlight(r) /\ req'[r].reply = "ok" => IsAdmin(req[r].actor) \/ r \in struck]_vars

\* An account that exists is only changed by somebody else's request that names it, in the
\* fields and to the values named: not by an update that read an older row, nor by a login
\* or a restart.
DecisionsStand ==
    [][\A a \in Accounts : Here(a) /\ account'[a] # account[a] =>
          \E r \in Requests :
             /\ InFlight(r) /\ req'[r].reply = "ok" /\ req[r].on = a /\ req[r].actor # a
             /\ \/ req[r].op = "delete" /\ ~Here(a)'
                \/ /\ Here(a)'
                   /\ \A f \in AccountFields :
                         \/ account'[a].row[f] = account[a].row[f]
                         \/ f \in DOMAIN req[r].patch /\ account'[a].row[f] = req[r].patch[f]]_vars

\* The same of the settings: neither a second insert of the singleton nor an update that
\* read an older row takes back a field that it does not name.
SettingsStand ==
    [][\A f \in SettingsFields : settings'.row[f] # settings.row[f] =>
          \E r \in Requests : /\ InFlight(r) /\ req'[r].reply = "ok" /\ req[r].on = Settings
                              /\ f \in DOMAIN req[r].patch /\ settings'.row[f] = req[r].patch[f]]_vars
=============================================================================
