---------------------------- MODULE AdminsProofs ----------------------------
(* What holds of Admins for any number of accounts, names and requests.         *)
EXTENDS Admins, TLAPS

\* What TypeOK says of one request.
RequestOK(r) ==
    /\ req[r] \in Request
    /\ InFlight(r) =>
          /\ req[r].actor \in Accounts /\ req[r].on # req[r].actor
          /\ req[r].on = Settings => req[r].op = "update" /\ req[r].patch \in SettingsPatch
                                     /\ req[r].seen \in SettingsRow
          /\ req[r].on # Settings => req[r].patch \in AccountPatch /\ req[r].pc \in {"admitted", "loaded"}
          /\ req[r].on # Settings /\ req[r].pc = "loaded" => req[r].seen \in AccountRow
          /\ req[r].pc = "missing" \/ req[r].pc = "inserted" => req[r].on = Settings
    /\ req[r].reply # "none" => req[r].pc = "done"

RowsOK ==
    /\ account \in [Accounts -> Account]
    /\ settings \in [exists: BOOLEAN, row: SettingsRow]
    /\ struck \subseteq Requests

LEMMA TypeParts ==
  TypeOK <=> RowsOK /\ req \in [Requests -> Request] /\ \A r \in Requests : RequestOK(r)
BY DEF TypeOK, RowsOK, RequestOK

LEMMA TypePartsNext ==
  TypeOK' <=> (RowsOK /\ req \in [Requests -> Request] /\ \A r \in Requests : RequestOK(r))'
BY DEF TypeOK, RowsOK, RequestOK

LEMMA Constants ==
    /\ Guest \in AccountRow /\ Admin \in AccountRow /\ Defaults \in SettingsRow
    /\ NoPatch \in AccountPatch /\ NoPatch \in SettingsPatch
    /\ Unused \in Account /\ Deleted \in Account
<1>1. Guest \in AccountRow /\ Admin \in AccountRow
  BY DEF Guest, Admin, AccountRow, AccountFields
<1>2. Defaults \in SettingsRow
  BY DEF Defaults, SettingsRow
<1>3. NoPatch \in [{} -> BOOLEAN] /\ {} \in SUBSET AccountFields /\ {} \in SUBSET SettingsFields
  BY DEF NoPatch
<1>4. NoPatch \in AccountPatch /\ NoPatch \in SettingsPatch
  BY <1>3 DEF AccountPatch, SettingsPatch
<1>5. Unused \in Account /\ Deleted \in Account
  BY <1>1 DEF Unused, Deleted, Account
<1> QED
  BY <1>1, <1>2, <1>4, <1>5

\* An ended request is well-formed, and not in flight.
LEMMA EndedOK ==
  ASSUME NEW reply \in {"ok", "refused", "error"}
  PROVE  Ended(reply) \in Request /\ Ended(reply).pc = "done" /\ Ended(reply).reply = reply
BY Constants, ConstantsAssumption DEF Ended, Opened, Request

\* One request changes, and the rows keep their types.
LEMMA OneRequest ==
  ASSUME TypeOK, RowsOK', NEW r \in Requests, NEW q, req' = [req EXCEPT ![r] = q], RequestOK(r)'
  PROVE  TypeOK'
<1>1. \A p \in Requests \ {r} : req'[p] = req[p]
  BY DEF TypeOK
<1>2. \A p \in Requests : RequestOK(p)'
  BY <1>1, TypeParts DEF RequestOK, InFlight
<1>3. req' \in [Requests -> Request]
  BY <1>2 DEF TypeOK, RequestOK
<1> QED
  BY <1>2, <1>3, TypePartsNext

LEMMA FinishOK ==
  ASSUME TypeOK, RowsOK', NEW r \in Requests, NEW reply \in {"ok", "refused", "error"}, Finish(r, reply)
  PROVE  TypeOK'
<1>1. req'[r] = Ended(reply)
  BY DEF Finish, TypeOK
<1>2. RequestOK(r)'
  BY <1>1, EndedOK DEF RequestOK, InFlight
<1> QED
  BY <1>2, OneRequest DEF Finish

\* What an update writes into a row is a row again.
LEMMA WrittenOK ==
  ASSUME NEW r \in Requests, NEW fields, NEW named \in SUBSET fields,
         req[r].patch \in [named -> BOOLEAN], NEW row \in [fields -> BOOLEAN]
  PROVE  Written(r, row) \in [fields -> BOOLEAN]
BY DEF Written, Changed

LEMMA TypeInit == Init => TypeOK
<1> SUFFICES ASSUME Init PROVE TypeOK
  OBVIOUS
<1> DEFINE fresh == [Opened(NoAccount, Settings, "update", NoPatch) EXCEPT !.pc = "new"]
<1>1. fresh \in Request /\ fresh.pc = "new" /\ fresh.reply = "none"
  BY Constants DEF Opened, Request
<1>2. req = [r \in Requests |-> fresh] /\ struck = {}
  BY DEF Init
<1>3. settings \in [exists: BOOLEAN, row: SettingsRow]
  BY Constants DEF Init
<1>4. account \in [Accounts -> Account]
  <2>1. [state |-> "here", name |-> AdminName, row |-> Admin] \in Account
    BY Constants, ConstantsAssumption DEF Account
  <2> QED
    BY <2>1, Constants DEF Init
<1>5. \A r \in Requests : RequestOK(r)
  BY <1>1, <1>2 DEF RequestOK, InFlight
<1> QED
  BY <1>1, <1>2, <1>3, <1>4, <1>5, TypeParts DEF RowsOK

LEMMA CreatesOK ==
  ASSUME TypeOK, NEW a \in Accounts, NEW n \in Names, NEW row \in AccountRow, Creates(a, n, row)
  PROVE  account' \in [Accounts -> Account]
BY DEF TypeOK, Creates, Account

LEMMA StrikesOK == ASSUME TypeOK, NEW r \in Requests, Strikes(r) PROVE struck' \subseteq Requests
BY DEF TypeOK, Strikes

LEMMA TypeStep == TypeOK /\ [Next]_vars => TypeOK'
<1> SUFFICES ASSUME TypeOK, [Next]_vars PROVE TypeOK'
  OBVIOUS
<1>a. RowsOK /\ \A r \in Requests : RequestOK(r)
  BY TypeParts
<1>1. ASSUME NEW r \in Requests, NEW u \in Accounts, NEW on \in Accounts \cup {Settings},
             NEW op \in {"update", "delete"}, NEW patch \in AccountPatch \cup SettingsPatch,
             Begin(r, u, on, op, patch)
      PROVE  TypeOK'
  <2>1. RowsOK'
    BY <1>1, <1>a DEF Begin, RowsOK
  <2>2. CASE IsAdmin(u) /\ u # on
    <3> DEFINE q == Opened(u, on, op, patch)
    <3>1. req' = [req EXCEPT ![r] = q]
      BY <1>1, <2>2 DEF Begin
    <3>2. q \in Request
      BY Constants DEF Opened, Request
    <3>3. on = Settings => op = "update" /\ patch \in SettingsPatch
      BY <1>1 DEF Begin
    <3>4. on # Settings => patch \in AccountPatch
      BY <1>1, Constants DEF Begin
    <3>5. /\ q.actor = u /\ q.on = on /\ q.op = op /\ q.patch = patch /\ q.pc = "admitted"
          /\ q.reply = "none" /\ q.seen = Defaults
      BY DEF Opened
    <3>6. req'[r] = q
      BY <3>1 DEF TypeOK
    <3> HIDE DEF q
    <3>7. RequestOK(r)'
      BY <2>2, <3>2, <3>3, <3>4, <3>5, <3>6, Constants DEF RequestOK
    <3> QED
      BY <2>1, <3>1, <3>7, OneRequest
  <2>3. CASE ~(IsAdmin(u) /\ u # on)
    <3>1. Finish(r, "refused")
      BY <1>1, <2>3 DEF Begin, Finish
    <3> QED
      BY <2>1, <3>1, FinishOK
  <2> QED
    BY <2>2, <2>3
<1>2. ASSUME NEW r \in Requests, GetUser(r) PROVE TypeOK'
  <2>1. RowsOK'
    BY <1>2, <1>a DEF GetUser, RowsOK
  <2>2. CASE Here(req[r].on)
    <3> DEFINE q == [req[r] EXCEPT !.pc = "loaded", !.seen = account[req[r].on].row]
    <3>1. req' = [req EXCEPT ![r] = q]
      BY <1>2, <2>2 DEF GetUser, TypeOK
    <3>2. req[r].on \in Accounts /\ req[r].on # Settings /\ InFlight(r)
      BY <1>2, ConstantsAssumption DEF GetUser, InFlight
    <3>3. account[req[r].on].row \in AccountRow
      BY <3>2 DEF TypeOK, Account
    <3>4. /\ q.actor = req[r].actor /\ q.on = req[r].on /\ q.op = req[r].op /\ q.patch = req[r].patch
          /\ q.pc = "loaded" /\ q.reply = req[r].reply /\ q.seen \in AccountRow /\ q \in Request
      BY <1>a, <3>3 DEF RequestOK, Request
    <3>5. req'[r] = q /\ req[r].reply = "none"
      BY <1>2, <1>a, <3>1 DEF GetUser, RequestOK, TypeOK
    <3> HIDE DEF q
    <3>6. RequestOK(r)'
      BY <1>a, <3>2, <3>4, <3>5 DEF RequestOK, InFlight
    <3> QED
      BY <2>1, <3>1, <3>6, OneRequest
  <2>3. CASE ~Here(req[r].on)
    BY <1>2, <2>1, <2>3, FinishOK DEF GetUser
  <2> QED
    BY <2>2, <2>3
<1>3. ASSUME NEW r \in Requests, UpdateUser(r) PROVE TypeOK'
  <2>1. req[r].on \in Accounts /\ InFlight(r) /\ req[r].patch \in AccountPatch
    BY <1>3, <1>a, ConstantsAssumption DEF UpdateUser, InFlight, RequestOK
  <2>2. PICK named \in SUBSET AccountFields : req[r].patch \in [named -> BOOLEAN]
    BY <2>1 DEF AccountPatch
  <2>3. account[req[r].on].row \in AccountRow
    BY <2>1 DEF TypeOK, Account
  <2>4. Written(r, account[req[r].on].row) \in AccountRow
    BY <2>2, <2>3, WrittenOK DEF AccountRow
  <2>5. account' \in [Accounts -> Account]
    BY <1>3, <2>1, <2>4 DEF UpdateUser, TypeOK, Account
  <2>6. RowsOK'
    BY <1>3, <1>a, <2>5, StrikesOK DEF UpdateUser, RowsOK
  <2>7. \E reply \in {"ok", "error"} : Finish(r, reply)
    BY <1>3 DEF UpdateUser
  <2> QED
    BY <2>6, <2>7, FinishOK
<1>4. ASSUME NEW r \in Requests, DeleteUser(r) PROVE TypeOK'
  <2>1. account' \in [Accounts -> Account]
    BY <1>4, Constants DEF DeleteUser, TypeOK
  <2>2. RowsOK'
    BY <1>4, <1>a, <2>1, StrikesOK DEF DeleteUser, RowsOK
  <2> QED
    BY <1>4, <2>2, FinishOK DEF DeleteUser
<1>5. ASSUME NEW r \in Requests, GetSettings(r) PROVE TypeOK'
  <2> DEFINE q == [req[r] EXCEPT !.pc = IF settings.exists THEN "loaded" ELSE "missing",
                                 !.seen = IF settings.exists THEN settings.row ELSE Defaults]
  <2>1. RowsOK' /\ req' = [req EXCEPT ![r] = q] /\ InFlight(r) /\ req[r].on = Settings
    BY <1>5, <1>a DEF GetSettings, RowsOK, InFlight, TypeOK
  <2>2. (IF settings.exists THEN settings.row ELSE Defaults) \in SettingsRow
    BY Constants DEF TypeOK
  <2>3. /\ q.actor = req[r].actor /\ q.on = req[r].on /\ q.op = req[r].op /\ q.patch = req[r].patch
        /\ q.pc \in {"loaded", "missing"} /\ q.reply = req[r].reply /\ q.seen \in SettingsRow
        /\ q \in Request
    BY <1>a, <2>2 DEF RequestOK, Request
  <2>4. req'[r] = q /\ req[r].reply = "none"
    BY <1>5, <1>a, <2>1 DEF GetSettings, RequestOK, TypeOK
  <2> HIDE DEF q
  <2>5. RequestOK(r)'
    BY <1>a, <2>1, <2>3, <2>4 DEF RequestOK, InFlight
  <2> QED
    BY <2>1, <2>5, OneRequest
<1>6. ASSUME NEW r \in Requests, InsertSettings(r) PROVE TypeOK'
  <2>1. RowsOK' /\ InFlight(r) /\ req[r].on = Settings
    BY <1>6, <1>a DEF InsertSettings, RowsOK, InFlight, RequestOK
  <2>2. CASE settings.exists
    BY <1>6, <2>1, <2>2, FinishOK DEF InsertSettings
  <2>3. CASE ~settings.exists
    <3> DEFINE q == [req[r] EXCEPT !.pc = "inserted"]
    <3>1. req' = [req EXCEPT ![r] = q] /\ req'[r] = q /\ req[r].reply = "none"
      BY <1>6, <1>a, <2>3 DEF InsertSettings, RequestOK, TypeOK
    <3>2. /\ q.actor = req[r].actor /\ q.on = req[r].on /\ q.op = req[r].op /\ q.patch = req[r].patch
          /\ q.pc = "inserted" /\ q.reply = req[r].reply /\ q.seen = req[r].seen /\ q \in Request
      BY <1>a DEF RequestOK, Request
    <3> HIDE DEF q
    <3>3. RequestOK(r)'
      BY <1>a, <2>1, <3>1, <3>2 DEF RequestOK, InFlight
    <3> QED
      BY <2>1, <3>1, <3>3, OneRequest
  <2> QED
    BY <2>2, <2>3
<1>7. ASSUME NEW r \in Requests, UpdateSettings(r) PROVE TypeOK'
  <2>1. req[r].on = Settings /\ InFlight(r) /\ req[r].patch \in SettingsPatch
    BY <1>7, <1>a DEF UpdateSettings, InFlight, RequestOK
  <2>2. PICK named \in SUBSET SettingsFields : req[r].patch \in [named -> BOOLEAN]
    BY <2>1 DEF SettingsPatch
  <2>3. Written(r, settings.row) \in SettingsRow
    BY <2>2, WrittenOK DEF SettingsRow, TypeOK
  <2>4. RowsOK'
    BY <1>7, <1>a, <2>3 DEF UpdateSettings, RowsOK
  <2> QED
    BY <1>7, <2>4, FinishOK DEF UpdateSettings
<1>8. ASSUME NEW a \in Accounts, NEW n \in Names, Login(a, n) PROVE TypeOK'
  <2>1. account' \in [Accounts -> Account]
    BY <1>8, Constants, CreatesOK DEF Login
  <2> QED
    BY <1>8, <1>a, <2>1, TypePartsNext DEF Login, RowsOK, RequestOK, InFlight, TypeOK
<1>9. ASSUME NEW a \in Accounts, Restart(a) PROVE TypeOK'
  <2>1. account' \in [Accounts -> Account]
    BY <1>9, Constants, CreatesOK, ConstantsAssumption DEF Restart, TypeOK
  <2>2. RowsOK'
    BY <1>9, <1>a, <2>1 DEF Restart, RowsOK
  <2>3. \A r \in Requests : req'[r] = req[r] \/ req'[r] = Ended("error")
    BY <1>9 DEF Restart
  <2>4. ASSUME NEW r \in Requests PROVE RequestOK(r)'
    <3>1. CASE req'[r] = Ended("error")
      BY <3>1, EndedOK DEF RequestOK, InFlight
    <3>2. CASE req'[r] = req[r]
      BY <3>2, <1>a DEF RequestOK, InFlight
    <3> QED
      BY <2>3, <3>1, <3>2
  <2>5. req' \in [Requests -> Request]
    BY <1>9, <2>4 DEF Restart, RequestOK
  <2> QED
    BY <2>2, <2>4, <2>5, TypePartsNext
<1>10. CASE UNCHANGED vars
  BY <1>10, <1>a, TypePartsNext DEF vars, TypeOK, RowsOK, RequestOK, InFlight
<1> QED
  BY <1>1, <1>2, <1>3, <1>4, <1>5, <1>6, <1>7, <1>8, <1>9, <1>10 DEF Next, Handle

\* The variables of Admins keep their types.
THEOREM TypeCorrect == Spec => []TypeOK
BY TypeInit, TypeStep, PTL DEF Spec

-----------------------------------------------------------------------------
(* Authority.  That an admin remains is not inductive: the actor of a request   *)
(* in flight must be known to be an admin still, or to have been struck.        *)

AuthorityInv ==
    \A r \in Requests : InFlight(r) => IsAdmin(req[r].actor) \/ r \in struck

\* Which requests are in flight after a step, and for whom.
LEMMA FlightStep ==
  ASSUME TypeOK, [Next]_vars, NEW p \in Requests, InFlight(p)'
  PROVE  \/ InFlight(p) /\ req'[p].actor = req[p].actor
         \/ IsAdmin(req'[p].actor) /\ UNCHANGED <<account, struck>>
<1>e. \A reply \in {"ok", "refused", "error"} : Ended(reply).pc = "done"
  BY EndedOK
<1>1. ASSUME NEW r \in Requests, NEW reply \in {"ok", "refused", "error"}, Finish(r, reply)
      PROVE  p # r /\ req'[p] = req[p]
  BY <1>1, <1>e DEF Finish, TypeOK, InFlight
<1>2. ASSUME NEW r \in Requests, NEW u \in Accounts, NEW on \in Accounts \cup {Settings},
             NEW op \in {"update", "delete"}, NEW patch \in AccountPatch \cup SettingsPatch,
             Begin(r, u, on, op, patch)
      PROVE  \/ InFlight(p) /\ req'[p].actor = req[p].actor
             \/ IsAdmin(req'[p].actor) /\ UNCHANGED <<account, struck>>
  BY <1>2, <1>e DEF Begin, InFlight, Opened, TypeOK
<1>3. ASSUME NEW r \in Requests, GetUser(r) \/ GetSettings(r) \/ InsertSettings(r)
      PROVE  InFlight(p) /\ req'[p].actor = req[p].actor
  BY <1>3, <1>1 DEF GetUser, GetSettings, InsertSettings, InFlight, TypeOK, Request
<1>4. ASSUME NEW r \in Requests, UpdateUser(r) \/ DeleteUser(r) \/ UpdateSettings(r)
      PROVE  InFlight(p) /\ req'[p].actor = req[p].actor
  BY <1>4, <1>1 DEF UpdateUser, DeleteUser, UpdateSettings, InFlight
<1>5. ASSUME NEW a \in Accounts, Restart(a) PROVE InFlight(p) /\ req'[p].actor = req[p].actor
  BY <1>5, <1>e DEF Restart, InFlight
<1>6. CASE UNCHANGED req
  BY <1>6 DEF InFlight
<1> QED
  BY <1>2, <1>3, <1>4, <1>5, <1>6 DEF Next, Handle, Login, vars

\* Only updates and deletions of accounts take the role from anyone, and they note the
\* requests whose actor it was.
LEMMA RoleStep ==
  ASSUME TypeOK, [Next]_vars, NEW u \in Accounts, IsAdmin(u), ~IsAdmin(u)'
  PROVE  \E r \in Requests :
            InFlight(r) /\ req[r].on = u /\ Finish(r, "ok") /\ (UpdateUser(r) \/ DeleteUser(r))
<1>1. ASSUME NEW a \in Accounts, NEW n, NEW row, Creates(a, n, row) PROVE FALSE
  BY <1>1 DEF Creates, IsAdmin, Here, TypeOK
<1>2. ~UNCHANGED account
  BY DEF IsAdmin, Here
<1>3. ASSUME NEW a \in Accounts, Restart(a) PROVE FALSE
  BY <1>1, <1>2, <1>3 DEF Restart
<1>4. PICK r \in Requests : UpdateUser(r) \/ DeleteUser(r)
  BY <1>1, <1>2, <1>3 DEF Next, Handle, Login, vars, Begin, GetUser, GetSettings, InsertSettings,
     UpdateSettings
<1>5. req[r].on = u
  BY <1>4 DEF UpdateUser, DeleteUser, IsAdmin, Here, TypeOK
<1>6. Finish(r, "ok") /\ InFlight(r)
  BY <1>2, <1>4 DEF UpdateUser, DeleteUser, InFlight
<1> QED
  BY <1>4, <1>5, <1>6

LEMMA StruckGrows == ASSUME [Next]_vars PROVE struck \subseteq struck'
BY DEF Next, Handle, Begin, GetUser, UpdateUser, DeleteUser, GetSettings, InsertSettings, UpdateSettings,
   Login, Restart, Strikes, vars

LEMMA AuthorityStep == TypeOK /\ AuthorityInv /\ [Next]_vars => AuthorityInv'
<1> SUFFICES ASSUME TypeOK, AuthorityInv, [Next]_vars, NEW p \in Requests, InFlight(p)'
             PROVE  (IsAdmin(req[p].actor) \/ p \in struck)'
  BY DEF AuthorityInv
<1>1. CASE IsAdmin(req'[p].actor) /\ UNCHANGED <<account, struck>>
  BY <1>1 DEF IsAdmin, Here
<1>2. CASE InFlight(p) /\ req'[p].actor = req[p].actor
  <2>1. PICK u \in Accounts : u = req[p].actor
    BY <1>2 DEF TypeOK
  <2>2. IsAdmin(u) \/ p \in struck
    BY <1>2, <2>1 DEF AuthorityInv
  <2>3. CASE p \in struck
    BY <2>3, StruckGrows
  <2>4. CASE IsAdmin(u) /\ IsAdmin(u)'
    BY <1>2, <2>1, <2>4 DEF IsAdmin, Here
  <2>5. CASE IsAdmin(u) /\ ~IsAdmin(u)'
    <3>1. PICK r \in Requests : Finish(r, "ok") /\ (UpdateUser(r) \/ DeleteUser(r))
      BY <2>1, <2>5, RoleStep
    <3>2. Strikes(r)
      BY <3>1 DEF UpdateUser, DeleteUser
    <3>3. p # r
      BY <3>1, EndedOK DEF Finish, InFlight, TypeOK
    <3> QED
      BY <1>2, <2>1, <2>5, <3>2, <3>3 DEF Strikes
  <2> QED
    BY <2>2, <2>3, <2>4, <2>5
<1> QED
  BY <1>1, <1>2, FlightStep

LEMMA AuthorityInit == Init => AuthorityInv
BY DEF Init, AuthorityInv, InFlight, Opened

\* An answered request stays answered.
LEMMA DoneStep ==
  ASSUME TypeOK, [Next]_vars, NEW p \in Requests, req[p].reply = "ok"
  PROVE  req'[p] = req[p]
<1>1. req[p].pc = "done" /\ req \in [Requests -> Request]
  BY DEF TypeOK
<1> QED
  BY <1>1 DEF Next, Handle, Begin, GetUser, UpdateUser, DeleteUser, GetSettings, InsertSettings, UpdateSettings,
     Login, Restart, Finish, InFlight, vars

LEMMA RemainsStep == TypeOK /\ AuthorityInv /\ AnAdminRemains /\ [Next]_vars => AnAdminRemains'
<1> SUFFICES ASSUME TypeOK, AuthorityInv, AnAdminRemains, [Next]_vars PROVE AnAdminRemains'
  OBVIOUS
<1>1. CASE \E r \in struck : req[r].reply = "ok"
  BY <1>1, StruckGrows, DoneStep DEF AnAdminRemains, TypeOK
<1>2. ASSUME NEW u \in Accounts, IsAdmin(u) PROVE AnAdminRemains'
  <2>1. CASE IsAdmin(u)'
    BY <2>1 DEF AnAdminRemains
  <2>2. CASE ~IsAdmin(u)'
    <3>1. PICK r \in Requests :
            InFlight(r) /\ req[r].on = u /\ Finish(r, "ok") /\ (UpdateUser(r) \/ DeleteUser(r))
      BY <1>2, <2>2, RoleStep
    <3>2. req[r].actor \in Accounts /\ req[r].actor # u
      BY <3>1 DEF TypeOK
    <3>3. CASE r \in struck
      <4>1. req'[r].reply = "ok" /\ r \in struck'
        BY <3>1, <3>3, StruckGrows, EndedOK DEF Finish, TypeOK
      <4> QED
        BY <4>1 DEF AnAdminRemains
    <3>4. CASE IsAdmin(req[r].actor)
      <4>1. PICK v \in Accounts : v = req[r].actor /\ v # u /\ IsAdmin(v)
        BY <3>2, <3>4
      <4>2. account'[v] = account[v]
        BY <3>1, <4>1 DEF UpdateUser, DeleteUser, TypeOK
      <4>3. IsAdmin(v)'
        BY <4>1, <4>2 DEF IsAdmin, Here
      <4> QED
        BY <4>3 DEF AnAdminRemains
    <3> QED
      BY <3>1, <3>3, <3>4 DEF AuthorityInv
  <2> QED
    BY <2>1, <2>2
<1> QED
  BY <1>1, <1>2 DEF AnAdminRemains

LEMMA RemainsInit == Init => AnAdminRemains
<1> SUFFICES ASSUME Init PROVE AnAdminRemains
  OBVIOUS
<1>1. PICK a \in Accounts :
        account = [b \in Accounts |-> IF b = a THEN [state |-> "here", name |-> AdminName, row |-> Admin]
                                              ELSE Unused]
  BY DEF Init
<1>2. IsAdmin(a)
  BY <1>1 DEF IsAdmin, Here, Admin, AccountFields
<1> QED
  BY <1>2 DEF AnAdminRemains

\* The guard against changing oneself keeps an admin, whatever admins, guests and restarts
\* do, but for a request whose actor lost the role while it was in flight.
THEOREM AnAdminAlways == Spec => []AnAdminRemains
BY TypeInit, TypeStep, AuthorityInit, AuthorityStep, RemainsInit, RemainsStep, PTL DEF Spec

\* Only admins, and those who lost the role in mid-flight, get anything done.
THEOREM AuthorityHolds == Spec => ActsWithAuthority
<1>1. TypeOK /\ AuthorityInv /\ [Next]_vars =>
        [\A r \in Requests :
            InFlight(r) /\ req'[r].reply = "ok" => IsAdmin(req[r].actor) \/ r \in struck]_vars
  BY DEF AuthorityInv
<1> QED
  BY <1>1, TypeInit, TypeStep, AuthorityInit, AuthorityStep, PTL DEF Spec, ActsWithAuthority

-----------------------------------------------------------------------------
(* Decisions.                                                                 *)

\* What DecisionsStand and SettingsStand ask of the request behind a change.
DecidedBy(r, a) ==
    /\ InFlight(r) /\ req'[r].reply = "ok" /\ req[r].on = a /\ req[r].actor # a
    /\ \/ req[r].op = "delete" /\ ~Here(a)'
       \/ /\ Here(a)'
          /\ \A f \in AccountFields :
                \/ account'[a].row[f] = account[a].row[f]
                \/ f \in DOMAIN req[r].patch /\ account'[a].row[f] = req[r].patch[f]

SetBy(r, f) ==
    /\ InFlight(r) /\ req'[r].reply = "ok" /\ req[r].on = Settings
    /\ f \in DOMAIN req[r].patch /\ settings'.row[f] = req[r].patch[f]

LEMMA FinishedOK == ASSUME TypeOK, NEW r \in Requests, Finish(r, "ok") PROVE req'[r].reply = "ok"
BY EndedOK DEF Finish, TypeOK

LEMMA DecisionStep ==
  ASSUME TypeOK, [Next]_vars, NEW a \in Accounts, Here(a), account'[a] # account[a]
  PROVE  \E r \in Requests : DecidedBy(r, a)
<1>1. ASSUME NEW b \in Accounts, NEW n, NEW row, Creates(b, n, row) PROVE FALSE
  BY <1>1 DEF Creates, Here, TypeOK
<1>2. PICK r \in Requests : UpdateUser(r) \/ DeleteUser(r)
  BY <1>1 DEF Next, Handle, Login, Restart, vars, Begin, GetUser, GetSettings, InsertSettings,
     UpdateSettings
<1>3. req[r].on = a
  BY <1>2 DEF UpdateUser, DeleteUser, TypeOK
<1>4. InFlight(r) /\ Finish(r, "ok") /\ req[r].actor # a
  <2>1. InFlight(r)
    BY <1>2 DEF UpdateUser, DeleteUser, InFlight
  <2>2. Finish(r, "ok")
    BY <1>2, <1>3 DEF UpdateUser, DeleteUser
  <2> QED
    BY <1>3, <2>1, <2>2 DEF TypeOK
<1>5. req'[r].reply = "ok"
  BY <1>4, FinishedOK
<1>6. CASE DeleteUser(r)
  <2>1. ~Here(a)' /\ req[r].op = "delete"
    BY <1>3, <1>6 DEF DeleteUser, Here, Deleted, Unused, TypeOK
  <2> QED
    BY <1>3, <1>4, <1>5, <2>1 DEF DecidedBy
<1>7. CASE UpdateUser(r)
  <2>1. account' = [account EXCEPT ![a].row = Written(r, account[a].row)]
    BY <1>3, <1>7 DEF UpdateUser
  <2>2. account'[a].row = Written(r, account[a].row) /\ account'[a].state = account[a].state
    BY <2>1 DEF TypeOK, Account
  <2>3. DOMAIN account[a].row = AccountFields
    BY DEF TypeOK, Account, AccountRow
  <2>4. ASSUME NEW f \in AccountFields
        PROVE  \/ account'[a].row[f] = account[a].row[f]
               \/ f \in DOMAIN req[r].patch /\ account'[a].row[f] = req[r].patch[f]
    BY <2>2, <2>3 DEF Written, Changed
  <2> QED
    BY <1>3, <1>4, <1>5, <2>2, <2>4 DEF DecidedBy, Here
<1> QED
  BY <1>2, <1>6, <1>7

\* Nobody's row changes but by another's request that names it, as that request names it.
THEOREM DecisionsAreKept == Spec => DecisionsStand
<1>1. TypeOK /\ [Next]_vars =>
        [\A a \in Accounts : Here(a) /\ account'[a] # account[a] =>
            \E r \in Requests :
               /\ InFlight(r) /\ req'[r].reply = "ok" /\ req[r].on = a /\ req[r].actor # a
               /\ \/ req[r].op = "delete" /\ ~Here(a)'
                  \/ /\ Here(a)'
                     /\ \A f \in AccountFields :
                           \/ account'[a].row[f] = account[a].row[f]
                           \/ f \in DOMAIN req[r].patch /\ account'[a].row[f] = req[r].patch[f]]_vars
  BY DecisionStep DEF DecidedBy
<1> QED
  BY <1>1, TypeInit, TypeStep, PTL DEF Spec, DecisionsStand

LEMMA SettingStep ==
  ASSUME TypeOK, [Next]_vars, NEW f \in SettingsFields, settings'.row[f] # settings.row[f]
  PROVE  \E r \in Requests : SetBy(r, f)
<1>1. settings \in [exists: BOOLEAN, row: SettingsRow]
  BY DEF TypeOK
<1>2. ASSUME NEW a \in Accounts, Restart(a) PROVE FALSE
  BY <1>1, <1>2 DEF Restart
<1>3. PICK r \in Requests : UpdateSettings(r)
  BY <1>2 DEF Next, Handle, Login, vars, Begin, GetUser, UpdateUser, DeleteUser, GetSettings,
     InsertSettings
<1>4. settings'.row = Written(r, settings.row) /\ DOMAIN settings.row = SettingsFields
  BY <1>1, <1>3 DEF UpdateSettings, SettingsRow
<1>5. f \in DOMAIN req[r].patch /\ settings'.row[f] = req[r].patch[f]
  BY <1>4 DEF Written, Changed
<1>6. InFlight(r) /\ req[r].on = Settings /\ req'[r].reply = "ok"
  BY <1>3, FinishedOK DEF UpdateSettings, InFlight
<1> QED
  BY <1>5, <1>6 DEF SetBy

\* No field of the settings changes but by a request that names it, to the value it names.
THEOREM SettingsAreKept == Spec => SettingsStand
<1>1. TypeOK /\ [Next]_vars =>
        [\A f \in SettingsFields : settings'.row[f] # settings.row[f] =>
            \E r \in Requests : /\ InFlight(r) /\ req'[r].reply = "ok" /\ req[r].on = Settings
                                /\ f \in DOMAIN req[r].patch /\ settings'.row[f] = req[r].patch[f]]_vars
  BY SettingStep DEF SetBy
<1> QED
  BY <1>1, TypeInit, TypeStep, PTL DEF Spec, SettingsStand
=============================================================================
