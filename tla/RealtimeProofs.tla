--------------------------- MODULE RealtimeProofs ---------------------------
(* What holds of Realtime and PushSubscriptions for any number of guests, tabs,  *)
(* connections, actions, endpoints, presses and losses.                         *)
EXTENDS Realtime, TLAPS

\* A call that is under way belongs to a control that waits for it.
Waited ==
    \A t \in Tab : call[t].pc # "none" => tab[t].pc = "waiting" /\ call[t].endpoint \in 1..made

\* Endpoints are given out in order and never again, so that the rows of the endpoint the
\* browser will get are still to come.
Fresh ==
    /\ device <= made
    /\ \A e \in Endpoint : e > made => rows[e] = <<>>

PushInv == PushTypeOK /\ Waited /\ Fresh

LEMMA PushTypeInit == PushInit => PushInv
<1> SUFFICES ASSUME PushInit PROVE PushInv
  OBVIOUS
<1> USE BoundsAreNaturals
<1>1. PushTypeOK
  <2>1. call \in [Tab -> Call] /\ tab \in [Tab -> Control]
    BY DEF PushInit, Call, Control
  <2>2. rows \in [Endpoint -> {<<>>} \cup {<<u>> : u \in User}] /\ user \in User
    BY DEF PushInit
  <2>3. used \in [presses: 0..MaxPresses, losses: 0..MaxLosses] /\ excused \in BOOLEAN
    <3>1. used = [presses |-> 0, losses |-> 0] /\ excused = FALSE
      BY DEF PushInit
    <3>2. used \in [presses: 0..MaxPresses, losses: 0..MaxLosses]
      BY <3>1
    <3> QED
      BY <3>1, <3>2
  <2>4. device \in Endpoint \cup {0} /\ made \in Endpoint \cup {0}
    BY DEF PushInit, Endpoint
  <2> QED
    BY <2>1, <2>2, <2>3, <2>4 DEF PushTypeOK
<1>2. Waited
  BY DEF PushInit, Waited
<1>3. Fresh
  BY DEF PushInit, Fresh, Endpoint
<1> QED
  BY <1>1, <1>2, <1>3 DEF PushInv

LEMMA NewCallIsCall ==
  ASSUME user \in User, NEW k \in {"subscribe", "unsubscribe"}, NEW e \in Endpoint \cup {0}
  PROVE  /\ NewCall(k, e) \in Call /\ NewCall(k, e).endpoint = e /\ NewCall(k, e).kind = k
         /\ NewCall(k, e).pc = "sent"
BY DEF NewCall, Call

\* What the handlers and the network make of a call.
LEMMA CallAnswered ==
  ASSUME NEW c \in Call, NEW ok \in BOOLEAN
  PROVE  /\ [c EXCEPT !.pc = "answered", !.ok = ok] \in Call
         /\ [c EXCEPT !.pc = "answered", !.ok = ok].endpoint = c.endpoint
         /\ [c EXCEPT !.pc = "answered", !.ok = ok].kind = c.kind
BY DEF Call

LEMMA CallFound ==
  ASSUME NEW c \in Call, NEW f \in {"none", "row", "own", "gone"}
  PROVE  /\ [c EXCEPT !.pc = "selected", !.found = f] \in Call
         /\ [c EXCEPT !.pc = "selected", !.found = f].endpoint = c.endpoint
         /\ [c EXCEPT !.found = f] \in Call
         /\ [c EXCEPT !.found = f].endpoint = c.endpoint
         /\ [c EXCEPT !.found = f].kind = c.kind
         /\ [c EXCEPT !.found = f].pc = c.pc
         /\ [c EXCEPT !.found = f].ok = c.ok
BY DEF Call

LEMMA LosesBounded == PushTypeOK /\ Loses => used' \in [presses: 0..MaxPresses, losses: 0..MaxLosses]
BY BoundsAreNaturals DEF PushTypeOK, Loses

LEMMA PushTypeStep == PushInv /\ [PushNext]_push => PushInv'
<1> SUFFICES ASSUME PushInv, [PushNext]_push PROVE PushInv'
  OBVIOUS
<1> USE BoundsAreNaturals
<1>0. /\ tab \in [Tab -> Control] /\ call \in [Tab -> Call]
      /\ rows \in [Endpoint -> {<<>>} \cup {<<u>> : u \in User}]
      /\ user \in User /\ device \in 0..MaxEndpoints /\ made \in 0..MaxEndpoints /\ device <= made
  BY DEF PushInv, PushTypeOK, Fresh, Endpoint
<1>1. ASSUME NEW t \in Tab, Mount(t) PROVE PushInv'
  <2>1. tab' \in [Tab -> Control] /\ tab'[t].pc = "ready" /\ \A c \in Tab \ {t} : tab'[c] = tab[c]
    BY <1>0, <1>1 DEF Mount, Control
  <2> QED
    BY <1>1, <2>1 DEF Mount, PushInv, PushTypeOK, Waited, Fresh
<1>2. ASSUME NEW t \in Tab, Toggle(t) PROVE PushInv'
  <2>1. tab' \in [Tab -> Control] /\ \A c \in Tab \ {t} : tab'[c] = tab[c]
    BY <1>0, <1>2 DEF Toggle, Control
  <2>2. used' \in [presses: 0..MaxPresses, losses: 0..MaxLosses]
    BY <1>2 DEF Toggle, PushInv, PushTypeOK
  <2> QED
    BY <1>2, <2>1, <2>2 DEF Toggle, PushInv, PushTypeOK, Waited, Fresh
<1>3. ASSUME NEW t \in Tab, Enable(t) \/ Disable(t) PROVE PushInv'
  <2>1. PICK k \in {"subscribe", "unsubscribe"}, e \in Endpoint :
           /\ call' = [call EXCEPT ![t] = NewCall(k, e)]
           /\ made' \in 0..MaxEndpoints /\ made <= made' /\ e \in 1..made'
           /\ device' \in {0, e} \/ device' = device
    <3>1. CASE Enable(t)
      <4>1. device' \in Endpoint /\ made' \in 0..MaxEndpoints /\ made <= made' /\ device' \in 1..made'
        BY <1>0, <3>1 DEF Enable, Endpoint
      <4> QED
        BY <3>1, <4>1 DEF Enable
    <3>2. CASE Disable(t)
      <4>1. device \in Endpoint /\ made' = made /\ device \in 1..made
        BY <1>0, <3>2 DEF Disable, Endpoint
      <4>2. call' = [call EXCEPT ![t] = NewCall("unsubscribe", device)] /\ (device' = 0 \/ device' = device)
        BY <3>2 DEF Disable
      <4>3. made <= made' /\ made' \in 0..MaxEndpoints
        BY <1>0, <4>1
      <4> USE <4>1
      <4> WITNESS "unsubscribe" \in {"subscribe", "unsubscribe"}, device \in Endpoint
      <4> QED
        BY <4>2, <4>3
    <3> QED
      BY <1>3, <3>1, <3>2
  <2>2. call' \in [Tab -> Call] /\ call'[t].endpoint = e /\ \A c \in Tab \ {t} : call'[c] = call[c]
    BY <1>0, <2>1, NewCallIsCall
  <2>3. tab' \in [Tab -> Control] /\ tab'[t].pc = "waiting" /\ \A c \in Tab \ {t} : tab'[c] = tab[c]
    BY <1>0, <1>3 DEF Enable, Disable, Control
  <2>4. device' \in 0..MaxEndpoints /\ device' <= made'
    BY <1>0, <2>1 DEF Endpoint
  <2>5. /\ rows' = rows /\ user' = user
        /\ used' \in [presses: 0..MaxPresses, losses: 0..MaxLosses] /\ excused' \in BOOLEAN
    BY <1>3, LosesBounded DEF Enable, Disable, PushInv, PushTypeOK
  <2>6. PushTypeOK'
    BY <1>0, <2>1, <2>2, <2>3, <2>4, <2>5 DEF PushTypeOK, Endpoint
  <2>7. Waited'
    <3>1. ASSUME NEW c \in Tab, c # t, call'[c].pc # "none"
          PROVE  tab'[c].pc = "waiting" /\ call'[c].endpoint \in 1..made'
      BY <1>0, <2>1, <2>2, <2>3, <3>1 DEF PushInv, Waited
    <3> QED
      BY <2>1, <2>2, <2>3, <3>1 DEF Waited
  <2>8. Fresh'
    BY <1>0, <2>1, <2>4, <2>5 DEF PushInv, Fresh, Endpoint
  <2> QED
    BY <2>6, <2>7, <2>8 DEF PushInv
<1>4. ASSUME NEW t \in Tab, EnableRefused(t) \/ NothingToDisable(t) PROVE PushInv'
  <2>1. /\ tab' \in [Tab -> Control] /\ \A c \in Tab \ {t} : tab'[c] = tab[c]
        /\ tab[t].pc # "waiting"
        /\ UNCHANGED <<rows, device, made, user, call, used, excused>>
    <3>1. /\ tab' = [tab EXCEPT ![t] = [pc |-> "ready", shown |-> FALSE]]
          /\ tab[t].pc # "waiting"
          /\ UNCHANGED <<rows, device, made, user, call, used, excused>>
      BY <1>4 DEF EnableRefused, NothingToDisable
    <3>2. [pc |-> "ready", shown |-> FALSE] \in Control
      BY DEF Control
    <3> QED
      BY <1>0, <3>1, <3>2
  <2> QED
    BY <2>1 DEF PushInv, PushTypeOK, Waited, Fresh
<1>5. ASSUME NEW t \in Tab, Answered(t) PROVE PushInv'
  <2>1. tab' \in [Tab -> Control] /\ \A c \in Tab \ {t} : tab'[c] = tab[c]
    BY <1>0, <1>5 DEF Answered, Control, Call
  <2>2. call' \in [Tab -> Call] /\ call'[t].pc = "none" /\ \A c \in Tab \ {t} : call'[c] = call[c]
    BY <1>0, <1>5 DEF Answered, Call
  <2> QED
    BY <1>5, <2>1, <2>2 DEF Answered, PushInv, PushTypeOK, Waited, Fresh
<1>6. ASSUME NEW t \in Tab, Lose(t) PROVE PushInv'
  <2>1. /\ call' \in [Tab -> Call] /\ call[t].pc # "none" /\ call'[t].endpoint = call[t].endpoint
        /\ \A c \in Tab \ {t} : call'[c] = call[c]
    <3>1. call' = [call EXCEPT ![t] = [call[t] EXCEPT !.pc = "answered", !.ok = FALSE]] /\ call[t].pc # "none"
      BY <1>0, <1>6 DEF Lose
    <3>2. call'[t] \in Call /\ call'[t].endpoint = call[t].endpoint
      BY <1>0, <3>1, CallAnswered
    <3> QED
      BY <1>0, <3>1, <3>2
  <2>2. used' \in [presses: 0..MaxPresses, losses: 0..MaxLosses] /\ excused' \in BOOLEAN
    BY <1>6, LosesBounded DEF Lose, PushInv, PushTypeOK
  <2> QED
    BY <1>6, <2>1, <2>2 DEF Lose, PushInv, PushTypeOK, Waited, Fresh
<1>7. ASSUME NEW t \in Tab, Select(t) PROVE PushInv'
  <2>1. /\ call' \in [Tab -> Call] /\ call[t].pc # "none" /\ call'[t].endpoint = call[t].endpoint
        /\ \A c \in Tab \ {t} : call'[c] = call[c]
    <3>1. PICK f \in {"none", "row", "own"} :
             call' = [call EXCEPT ![t] = [call[t] EXCEPT !.pc = "selected", !.found = f]]
      BY <1>0, <1>7 DEF Select
    <3>2. call'[t] \in Call /\ call'[t].endpoint = call[t].endpoint
      <4>1. /\ [call[t] EXCEPT !.pc = "selected", !.found = f] \in Call
            /\ [call[t] EXCEPT !.pc = "selected", !.found = f].endpoint = call[t].endpoint
        BY <1>0, CallFound, Zenon
      <4> QED
        BY <1>0, <3>1, <4>1
    <3>3. call[t].pc # "none"
      BY <1>7 DEF Select
    <3> QED
      BY <1>0, <3>1, <3>2, <3>3
  <2> QED
    BY <1>7, <2>1 DEF Select, PushInv, PushTypeOK, Waited, Fresh
<1>8. ASSUME NEW t \in Tab, Subscribe(t) PROVE PushInv'
  <2>1. /\ call' \in [Tab -> Call] /\ call[t].pc # "none" /\ call'[t].endpoint = call[t].endpoint
        /\ \A c \in Tab \ {t} : call'[c] = call[c]
    <3>1. PICK ok \in BOOLEAN :
             call' = [call EXCEPT ![t] = [call[t] EXCEPT !.pc = "answered", !.ok = ok]]
      BY <1>0, <1>8 DEF Subscribe, Respond
    <3>2. call'[t] \in Call /\ call'[t].endpoint = call[t].endpoint
      BY <1>0, <3>1, CallAnswered
    <3>3. call[t].pc # "none"
      BY <1>8 DEF Subscribe
    <3> QED
      BY <1>0, <3>1, <3>2, <3>3
  <2>2. call[t].endpoint \in 1..made /\ call[t].user \in User
    BY <1>0, <2>1 DEF PushInv, Waited, Call
  <2>3. /\ rows' \in [Endpoint -> {<<>>} \cup {<<u>> : u \in User}]
        /\ \A e \in Endpoint : rows'[e] = rows[e] \/ e = call[t].endpoint
    BY <1>0, <1>8, <2>2 DEF Subscribe, Endpoint
  <2> QED
    <3>1. UNCHANGED <<device, made, user, tab, used, excused>>
      BY <1>8 DEF Subscribe
    <3>2. PushTypeOK'
      BY <2>1, <2>3, <3>1 DEF PushInv, PushTypeOK
    <3>3. Waited'
      BY <2>1, <3>1 DEF PushInv, Waited
    <3>4. Fresh'
      BY <1>0, <2>2, <2>3, <3>1 DEF PushInv, Fresh, Endpoint
    <3> QED
      BY <3>2, <3>3, <3>4 DEF PushInv
<1>9. ASSUME NEW t \in Tab, Unsubscribe(t) PROVE PushInv'
  <2>1. /\ call' \in [Tab -> Call]
        /\ \A c \in Tab : /\ call'[c].endpoint = call[c].endpoint
                          /\ call'[c].pc = call[c].pc \/ (c = t /\ call[t].pc # "none")
    <3>1. call[t].pc # "none"
      BY <1>9 DEF Unsubscribe
    <3>2. /\ call' = [c \in Tab |-> call'[c]]
          /\ \A c \in Tab : \/ c = t /\ call'[t] = [call[t] EXCEPT !.pc = "answered", !.ok = TRUE]
                            \/ call'[c] = [call[c] EXCEPT !.found = "gone"]
                            \/ call'[c] = call[c]
      BY <1>0, <1>9 DEF Unsubscribe
    <3>3. ASSUME NEW c \in Tab
          PROVE  /\ call'[c] \in Call /\ call'[c].endpoint = call[c].endpoint
                 /\ call'[c].pc = call[c].pc \/ (c = t /\ call[t].pc # "none")
      <4>1. /\ [call[t] EXCEPT !.pc = "answered", !.ok = TRUE] \in Call
            /\ [call[t] EXCEPT !.pc = "answered", !.ok = TRUE].endpoint = call[t].endpoint
        BY <1>0, CallAnswered
      <4>2. /\ [call[c] EXCEPT !.found = "gone"] \in Call
            /\ [call[c] EXCEPT !.found = "gone"].endpoint = call[c].endpoint
            /\ [call[c] EXCEPT !.found = "gone"].pc = call[c].pc
        BY <1>0, CallFound
      <4> QED
        BY <1>0, <3>1, <3>2, <4>1, <4>2
    <3> QED
      BY <3>2, <3>3
  <2>2. /\ rows' \in [Endpoint -> {<<>>} \cup {<<u>> : u \in User}]
        /\ \A e \in Endpoint : rows'[e] = rows[e] \/ rows'[e] = <<>>
    BY <1>0, <1>9 DEF Unsubscribe
  <2> QED
    BY <1>9, <2>1, <2>2 DEF Unsubscribe, PushInv, PushTypeOK, Waited, Fresh
<1>10. ASSUME NEW u \in User, SwitchUser(u) PROVE PushInv'
  BY <1>10 DEF SwitchUser, PushInv, PushTypeOK, Waited, Fresh
<1>11. CASE UNCHANGED push
  BY <1>11 DEF push, PushInv, PushTypeOK, Waited, Fresh
<1> QED
  BY <1>1, <1>2, <1>3, <1>4, <1>5, <1>6, <1>7, <1>8, <1>9, <1>10, <1>11 DEF PushNext

-----------------------------------------------------------------------------
(* The types of Realtime.                                                     *)

\* The part of the types that is about connections and announcements.
SocketTypeOK ==
    /\ socket \in [Page -> Socket] /\ active \subseteq Page
    /\ action \in [Action -> Announcement]

LEMMA AnnouncementUpdated ==
  ASSUME NEW a \in Announcement
  PROVE  /\ a.sockets \subseteq Page /\ a.audience \subseteq Page /\ a.heard \subseteq Page
         /\ a.endpoints \subseteq Endpoint
         /\ a.owed \in Endpoint \cup {0} /\ a.notified \in BOOLEAN
BY DEF Announcement

\* A loss that leaves the controls alone, and what a crash does to calls.
LEMMA PushCrash ==
  ASSUME PushInv, Loses, UNCHANGED <<rows, device, made, user, tab, excused>>,
         \/ UNCHANGED call
         \/ call' = [t \in Tab |-> IF call[t].pc \in {"sent", "selected"}
                                   THEN [call[t] EXCEPT !.pc = "answered"] ELSE call[t]]
  PROVE  PushInv'
<1>0. call \in [Tab -> Call]
  BY DEF PushInv, PushTypeOK
<1>1. ASSUME NEW c \in Call
      PROVE  /\ [c EXCEPT !.pc = "answered"] \in Call
             /\ [c EXCEPT !.pc = "answered"].endpoint = c.endpoint
  BY DEF Call
<1>2. /\ call' \in [Tab -> Call]
      /\ \A t \in Tab : call'[t].endpoint = call[t].endpoint /\ (call[t].pc = "none" => call'[t] = call[t])
  <2>1. call' = [t \in Tab |-> call'[t]]
    BY <1>0
  <2>2. ASSUME NEW t \in Tab
        PROVE  /\ call'[t] \in Call /\ call'[t].endpoint = call[t].endpoint
               /\ call[t].pc = "none" => call'[t] = call[t]
    BY <1>0, <1>1
  <2> QED
    BY <2>1, <2>2
<1>3. used' \in [presses: 0..MaxPresses, losses: 0..MaxLosses]
  BY LosesBounded DEF PushInv
<1> QED
  BY <1>2, <1>3 DEF PushInv, PushTypeOK, Waited, Fresh

LEMMA PushStep == PushInv /\ [Next]_vars => PushInv'
<1> SUFFICES ASSUME PushInv, [Next]_vars PROVE PushInv'
  OBVIOUS
<1>1. CASE PushNext \/ UNCHANGED push
  BY <1>1, PushTypeStep DEF push
<1>2. ASSUME NEW a \in Action, NEW e \in Endpoint, SendPush(a, e) PROVE PushInv'
  <2>1. CASE UNCHANGED push
    BY <2>1, PushTypeStep
  <2>2. CASE Loses /\ UNCHANGED <<rows, device, made, user, tab, call, excused>>
    BY <2>2, PushCrash
  <2> QED
    BY <1>2, <2>1, <2>2 DEF SendPush
<1>3. CASE Crash
  BY <1>3, PushCrash DEF Crash
<1> QED
  BY <1>1, <1>2, <1>3
  DEF Next, vars, Connect, Break, Disconnect, Record, Announce, SendSocket, SelectSubscriptions, Commit

LEMMA SocketInit == Init => SocketTypeOK
<1> SUFFICES ASSUME Init PROVE SocketTypeOK
  OBVIOUS
<1>1. socket \in [Page -> Socket] /\ active \subseteq Page
  BY DEF Init, Socket
<1>2. [pc |-> "idle", sockets |-> {}, audience |-> {}, heard |-> {},
       endpoints |-> {}, owed |-> 0, notified |-> FALSE] \in Announcement
  BY DEF Announcement
<1> QED
  BY <1>1, <1>2 DEF Init, SocketTypeOK

LEMMA SocketStep == PushInv /\ SocketTypeOK /\ [Next]_vars => SocketTypeOK'
<1> SUFFICES ASSUME PushInv, SocketTypeOK, [Next]_vars PROVE SocketTypeOK'
  OBVIOUS
<1>0. /\ socket \in [Page -> Socket] /\ active \subseteq Page /\ action \in [Action -> Announcement]
      /\ device \in Endpoint \cup {0}
  BY DEF SocketTypeOK, PushInv, PushTypeOK
<1>1. ASSUME NEW p \in Page, Connect(p) \/ Break(p) \/ Disconnect(p) PROVE SocketTypeOK'
  BY <1>0, <1>1 DEF Connect, Break, Disconnect, SocketTypeOK, Socket
<1>2. ASSUME NEW a \in Action, NEW new \in Announcement, action' = [action EXCEPT ![a] = new],
             socket' = socket, active' \subseteq active
      PROVE  SocketTypeOK'
  BY <1>0, <1>2 DEF SocketTypeOK
<1>3. ASSUME NEW a \in Action, Record(a) PROVE SocketTypeOK'
  <2>1. [action[a] EXCEPT !.pc = "broadcasting", !.sockets = active, !.audience = active] \in Announcement
    BY <1>0 DEF Announcement
  <2> QED
    <3>1. /\ action' = [action EXCEPT ![a] = [action[a] EXCEPT !.pc = "broadcasting", !.sockets = active,
                                                             !.audience = active]]
          /\ socket' = socket /\ active' = active
      BY <1>0, <1>3 DEF Record
    <3> QED
      BY <1>2, <2>1, <3>1
<1>4. ASSUME NEW a \in Action, NEW p \in Page, SendSocket(a, p) PROVE SocketTypeOK'
  <2>1. /\ [action[a] EXCEPT !.sockets = @ \ {p}, !.heard = @ \cup {p}] \in Announcement
        /\ [action[a] EXCEPT !.sockets = @ \ {p}] \in Announcement
    BY <1>0 DEF Announcement
  <2>2. CASE socket[p] = "open"
    BY <1>0, <1>2, <1>4, <2>1, <2>2 DEF SendSocket
  <2>3. CASE socket[p] # "open"
    BY <1>0, <1>2, <1>4, <2>1, <2>3 DEF SendSocket
  <2> QED
    BY <2>2, <2>3
<1>5. ASSUME NEW a \in Action, SelectSubscriptions(a) PROVE SocketTypeOK'
  <2> DEFINE others == {e \in Endpoint : \E u \in Range(rows[e]) : u # Actor[a]}
             owed == IF device \in others THEN device ELSE 0
             new == [action[a] EXCEPT !.pc = "pushing", !.endpoints = others, !.owed = owed]
  <2>1. action' = [action EXCEPT ![a] = new] /\ socket' = socket /\ active' = active
    BY <1>0, <1>5 DEF SelectSubscriptions
  <2>2. others \subseteq Endpoint /\ owed \in Endpoint \cup {0}
    BY <1>0
  <2> HIDE DEF others, owed
  <2>3. new \in Announcement
    BY <1>0, <2>2 DEF Announcement
  <2> QED
    BY <1>2, <2>1, <2>3
<1>6. ASSUME NEW a \in Action, NEW e \in Endpoint, SendPush(a, e) PROVE SocketTypeOK'
  <2>1. /\ action[a].notified \in BOOLEAN /\ (e = device) \in BOOLEAN
        /\ (action[a].notified \/ e = device) \in BOOLEAN
    BY <1>0, AnnouncementUpdated
  <2>2. ASSUME NEW b \in BOOLEAN
        PROVE  [action[a] EXCEPT !.endpoints = @ \ {e}, !.notified = b] \in Announcement
    BY <1>0, <2>2 DEF Announcement
  <2>3. [action[a] EXCEPT !.endpoints = @ \ {e}, !.owed = 0] \in Announcement
    BY <1>0 DEF Announcement
  <2>4. [action[a] EXCEPT !.endpoints = @ \ {e}, !.notified = (@ \/ e = device)] \in Announcement
    BY <2>1, <2>2, Zenon
  <2>5. \/ action' = [action EXCEPT ![a] = [action[a] EXCEPT !.endpoints = @ \ {e}, !.notified = (@ \/ e = device)]]
        \/ action' = [action EXCEPT ![a] = [action[a] EXCEPT !.endpoints = @ \ {e}, !.owed = 0]]
    BY <1>0, <1>6 DEF SendPush
  <2>6. socket' = socket /\ active' = active
    BY <1>6 DEF SendPush
  <2> QED
    BY <1>2, <2>3, <2>4, <2>5, <2>6, Zenon
<1>7. ASSUME NEW a \in Action, Commit(a) PROVE SocketTypeOK'
  <2>1. [action[a] EXCEPT !.pc = "done"] \in Announcement
    BY <1>0 DEF Announcement
  <2> QED
    BY <1>0, <1>2, <1>7, <2>1 DEF Commit
<1>8. CASE Crash
  <2>1. socket' \in [Page -> Socket] /\ active' \subseteq Page
    BY <1>8 DEF Crash, Socket
  <2>2. \A a \in Action : [action[a] EXCEPT !.pc = "lost"] \in Announcement
    BY <1>0 DEF Announcement
  <2>3. action' \in [Action -> Announcement]
    BY <1>0, <1>8, <2>2 DEF Crash
  <2> QED
    BY <2>1, <2>3 DEF SocketTypeOK
<1>9. CASE UNCHANGED <<socket, active, action>>
  BY <1>9 DEF SocketTypeOK
<1> QED
  BY <1>1, <1>3, <1>4, <1>5, <1>6, <1>7, <1>8, <1>9 DEF Next, vars, Announce

\* Every variable keeps its type, for any number of everything; the rows of an endpoint
\* are never more than one.
THEOREM TypeCorrect == Spec => []TypeOK
<1>1. Init => PushInv /\ SocketTypeOK
  BY PushTypeInit, SocketInit DEF Init
<1>2. PushInv /\ SocketTypeOK /\ [Next]_vars => PushInv' /\ SocketTypeOK'
  BY PushStep, SocketStep
<1>3. PushInv /\ SocketTypeOK => TypeOK
  BY DEF PushInv, SocketTypeOK, TypeOK
<1> QED
  BY <1>1, <1>2, <1>3, PTL DEF Spec

-----------------------------------------------------------------------------
(* The audience of a broadcast.                                               *)

\* Whoever was connected when the broadcast began, and still is, has heard it or is still
\* in the copy that is being worked off.
Owes ==
    /\ \A p \in active : socket[p] # "new"
    /\ \A a \in Action : \A p \in action[a].audience :
          /\ socket[p] # "new"
          /\ action[a].pc \in {"broadcasting", "pushing", "done"} /\ socket[p] = "open"
                => p \in action[a].heard \/ p \in action[a].sockets
    /\ \A a \in Action : action[a].pc \in {"pushing", "done"} => action[a].sockets = {}

LEMMA OwesStep == SocketTypeOK /\ Owes /\ [Next]_vars => Owes'
<1> SUFFICES ASSUME SocketTypeOK, Owes, [Next]_vars PROVE Owes'
  OBVIOUS
<1>0. /\ socket \in [Page -> Socket] /\ active \subseteq Page /\ action \in [Action -> Announcement]
      /\ \A a \in Action : action[a].audience \subseteq Page
  BY AnnouncementUpdated DEF SocketTypeOK
<1>1. ASSUME NEW p \in Page, Connect(p) \/ Break(p) \/ Disconnect(p) PROVE Owes'
  <2>1. /\ \A q \in Page : q # p => socket'[q] = socket[q]
        /\ socket'[p] # "new" /\ (socket'[p] = "open" => socket[p] = "new")
        /\ active' \subseteq active \cup {p}
        /\ action' = action
    BY <1>0, <1>1 DEF Connect, Break, Disconnect
  <2> QED
    BY <1>0, <2>1 DEF Owes
<1>2. ASSUME NEW a \in Action, Record(a) PROVE Owes'
  <2>1. /\ socket' = socket /\ active' = active
        /\ action'[a].audience = active /\ action'[a].sockets = active /\ action'[a].pc = "broadcasting"
        /\ \A b \in Action \ {a} : action'[b] = action[b]
    BY <1>0, <1>2 DEF Record, Announcement
  <2> QED
    BY <2>1 DEF Owes
<1>3. ASSUME NEW a \in Action, NEW p \in Page, SendSocket(a, p) PROVE Owes'
  <2>1. /\ socket' = socket /\ active' \subseteq active
        /\ action'[a].audience = action[a].audience /\ action'[a].pc = "broadcasting"
        /\ action'[a].sockets = action[a].sockets \ {p}
        /\ action[a].pc = "broadcasting"
        /\ action'[a].heard = IF socket[p] = "open" THEN action[a].heard \cup {p} ELSE action[a].heard
        /\ \A b \in Action \ {a} : action'[b] = action[b]
    <3>1. CASE socket[p] = "open"
      BY <1>0, <1>3, <3>1 DEF SendSocket, Announcement
    <3>2. CASE socket[p] # "open"
      BY <1>0, <1>3, <3>2 DEF SendSocket, Announcement
    <3> QED
      BY <3>1, <3>2
  <2> QED
    BY <2>1 DEF Owes
<1>4. ASSUME NEW a \in Action, SelectSubscriptions(a) PROVE Owes'
  <2>1. /\ socket' = socket /\ active' = active
        /\ action'[a].audience = action[a].audience /\ action'[a].heard = action[a].heard
        /\ action'[a].sockets = action[a].sockets /\ action[a].sockets = {}
        /\ action[a].pc = "broadcasting"
        /\ \A b \in Action \ {a} : action'[b] = action[b]
    BY <1>0, <1>4 DEF SelectSubscriptions, Announcement
  <2> QED
    BY <2>1 DEF Owes
<1>5. ASSUME NEW a \in Action, (\E e \in Endpoint : SendPush(a, e)) \/ Commit(a) PROVE Owes'
  <2>1. /\ socket' = socket /\ active' = active
        /\ action'[a].audience = action[a].audience /\ action'[a].heard = action[a].heard
        /\ action'[a].sockets = action[a].sockets /\ action[a].pc = "pushing"
        /\ \A b \in Action \ {a} : action'[b] = action[b]
    <3>1. ASSUME NEW e \in Endpoint, SendPush(a, e)
          PROVE  /\ action'[a].audience = action[a].audience /\ action'[a].heard = action[a].heard
                 /\ action'[a].sockets = action[a].sockets
                 /\ \A b \in Action \ {a} : action'[b] = action[b]
      BY <1>0, <3>1 DEF SendPush, Announcement
    <3>2. ASSUME Commit(a)
          PROVE  /\ action'[a].audience = action[a].audience /\ action'[a].heard = action[a].heard
                 /\ action'[a].sockets = action[a].sockets
                 /\ \A b \in Action \ {a} : action'[b] = action[b]
      BY <1>0, <3>2 DEF Commit, Announcement
    <3>3. socket' = socket /\ active' = active /\ action[a].pc = "pushing"
      BY <1>5 DEF SendPush, Commit
    <3> QED
      BY <1>5, <3>1, <3>2, <3>3
  <2> QED
    BY <2>1 DEF Owes
<1>6. CASE Crash
  <2>1. /\ active' = {} /\ \A p \in Page : socket[p] # "new" => socket'[p] = "closed"
        /\ \A a \in Action : /\ action'[a].audience = action[a].audience
                             /\ \/ action'[a] = action[a]
                                \/ action'[a].pc = "lost"
    BY <1>0, <1>6 DEF Crash, Announcement
  <2>2. \A a \in Action : \A p \in action'[a].audience : socket'[p] = "closed"
    BY <1>0, <2>1 DEF Owes
  <2>3. \A a \in Action : action'[a].pc \in {"pushing", "done"} => action'[a].sockets = {}
    BY <2>1 DEF Owes
  <2> QED
    BY <2>1, <2>2, <2>3 DEF Owes
<1>7. CASE UNCHANGED <<socket, active, action>>
  BY <1>7 DEF Owes
<1> QED
  BY <1>1, <1>2, <1>3, <1>4, <1>5, <1>6, <1>7 DEF Next, vars, Announce

\* Every connection that lasts through a broadcast hears it, however many connections come,
\* go, or are found dead by this or another broadcast meanwhile.
THEOREM EveryoneHears == Spec => []AudienceHears
<1>1. Init => PushInv /\ SocketTypeOK /\ Owes
  <2>1. Init => Owes
    BY DEF Init, Owes
  <2> QED
    BY <2>1, PushTypeInit, SocketInit DEF Init
<1>2. PushInv /\ SocketTypeOK /\ Owes /\ [Next]_vars => PushInv' /\ SocketTypeOK' /\ Owes'
  BY PushStep, SocketStep, OwesStep
<1>3. Owes => AudienceHears
  BY DEF Owes, AudienceHears
<1> QED
  BY <1>1, <1>2, <1>3, PTL DEF Spec

-----------------------------------------------------------------------------
(* The device that was selected for a push.                                    *)

\* While the device keeps the endpoint that was selected, it has been notified or its turn
\* is still to come; an endpoint it gave up is never its endpoint again.
Pending ==
    \A a \in Action :
        /\ action[a].owed <= made
        /\ action[a].pc = "done" => action[a].endpoints = {}
        /\ action[a].pc \in {"pushing", "done"} /\ action[a].owed # 0 /\ action[a].owed = device
              => action[a].notified \/ action[a].owed \in action[a].endpoints

LEMMA PendingStep == PushInv /\ SocketTypeOK /\ Pending /\ [Next]_vars => Pending'
<1> SUFFICES ASSUME PushInv, SocketTypeOK, Pending, [Next]_vars PROVE Pending'
  OBVIOUS
<1>0. /\ action \in [Action -> Announcement] /\ device \in Nat /\ made \in Nat /\ device <= made
      /\ \A a \in Action : action[a].owed \in Nat
  BY AnnouncementUpdated, BoundsAreNaturals DEF SocketTypeOK, PushInv, PushTypeOK, Fresh, Endpoint
<1>1. ASSUME made' \in Nat, made <= made', device' \in {0, device} \/ device' > made, UNCHANGED action
      PROVE  Pending'
  BY <1>0, <1>1 DEF Pending
<1>2. CASE PushNext /\ UNCHANGED <<socket, active, action>>
  <2>1. ASSUME NEW t \in Tab, Enable(t)
        PROVE  made' \in Nat /\ made <= made' /\ (device' \in {0, device} \/ device' > made)
    BY <1>0, <2>1 DEF Enable
  <2>2. ASSUME NEW t \in Tab, Disable(t) PROVE made' = made /\ device' \in {0, device}
    BY <2>2 DEF Disable
  <2>3. \/ UNCHANGED <<made, device>>
        \/ \E t \in Tab : Enable(t) \/ Disable(t)
    BY <1>2 DEF PushNext, Mount, Toggle, EnableRefused, NothingToDisable, Answered, Lose, SwitchUser, Select,
        Subscribe, Unsubscribe
  <2> QED
    BY <1>0, <1>1, <1>2, <2>1, <2>2, <2>3
<1>3. CASE UNCHANGED <<push, action>>
  BY <1>0, <1>1, <1>3 DEF push
<1>4. ASSUME NEW a \in Action, Record(a) PROVE Pending'
  <2>1. /\ UNCHANGED <<made, device>> /\ action'[a].owed = action[a].owed /\ action'[a].pc = "broadcasting"
        /\ \A b \in Action \ {a} : action'[b] = action[b]
    BY <1>0, <1>4 DEF Record, Announcement, push
  <2> QED
    BY <2>1 DEF Pending
<1>5. ASSUME NEW a \in Action, NEW p \in Page, SendSocket(a, p) PROVE Pending'
  <2>1. /\ UNCHANGED <<made, device>> /\ action'[a].owed = action[a].owed /\ action'[a].pc = "broadcasting"
        /\ \A b \in Action \ {a} : action'[b] = action[b]
    BY <1>0, <1>5 DEF SendSocket, Announcement, push
  <2> QED
    BY <2>1 DEF Pending
<1>6. ASSUME NEW a \in Action, SelectSubscriptions(a) PROVE Pending'
  <2>1. /\ UNCHANGED <<made, device>> /\ action'[a].pc = "pushing"
        /\ action'[a].owed \in {0, device} /\ (action'[a].owed # 0 => action'[a].owed \in action'[a].endpoints)
        /\ \A b \in Action \ {a} : action'[b] = action[b]
    BY <1>0, <1>6 DEF SelectSubscriptions, Announcement, push
  <2> QED
    BY <1>0, <2>1 DEF Pending
<1>7. ASSUME NEW a \in Action, NEW e \in Endpoint, SendPush(a, e) PROVE Pending'
  <2>1. /\ UNCHANGED <<made, device>> /\ action[a].pc = "pushing" /\ action'[a].pc = "pushing"
        /\ \A b \in Action \ {a} : action'[b] = action[b]
    BY <1>0, <1>7 DEF SendPush, Announcement, push
  <2>2. \/ action'[a].owed = 0
        \/ /\ action'[a].owed = action[a].owed
           /\ action'[a].endpoints = action[a].endpoints \ {e}
           /\ action[a].notified \/ e = device => action'[a].notified
    BY <1>0, <1>7 DEF SendPush, Announcement
  <2> QED
    BY <1>0, <2>1, <2>2 DEF Pending
<1>8. ASSUME NEW a \in Action, Commit(a) PROVE Pending'
  <2>1. /\ UNCHANGED <<made, device>> /\ action[a].endpoints = {} /\ action[a].pc = "pushing"
        /\ action'[a].owed = action[a].owed /\ action'[a].endpoints = {}
        /\ action'[a].notified = action[a].notified
        /\ \A b \in Action \ {a} : action'[b] = action[b]
    BY <1>0, <1>8 DEF Commit, Announcement, push
  <2> QED
    BY <2>1 DEF Pending
<1>9. CASE Crash
  <2>1. /\ UNCHANGED <<made, device>>
        /\ \A a \in Action : /\ action'[a].owed = action[a].owed
                             /\ action'[a] = action[a] \/ action'[a].pc = "lost"
    BY <1>0, <1>9 DEF Crash, Announcement
  <2> QED
    BY <2>1 DEF Pending
<1> QED
  BY <1>2, <1>3, <1>4, <1>5, <1>6, <1>7, <1>8, <1>9
  DEF Next, vars, Announce, Connect, Break, Disconnect

\* A device that was selected and keeps its subscription has been notified by the time the
\* action is committed, whatever becomes of the other endpoints' pushes.
THEOREM DevicesHear == Spec => []DeviceHears
<1>1. Init => PushInv /\ SocketTypeOK /\ Pending
  <2>1. ASSUME Init PROVE Pending
    <3>1. \A a \in Action : action[a].owed = 0 /\ action[a].pc = "idle"
      BY <2>1 DEF Init
    <3>2. made \in Nat
      BY <2>1 DEF Init, PushInit
    <3> QED
      BY <3>1, <3>2 DEF Pending
  <2> QED
    BY <2>1, PushTypeInit, SocketInit DEF Init
<1>2. PushInv /\ SocketTypeOK /\ Pending /\ [Next]_vars => PushInv' /\ SocketTypeOK' /\ Pending'
  BY PushStep, SocketStep, PendingStep
<1>3. Pending => DeviceHears
  BY DEF Pending, DeviceHears
<1> QED
  BY <1>1, <1>2, <1>3, PTL DEF Spec

-----------------------------------------------------------------------------
(* The controls and the device.                                               *)

\* A control that answers for endpoint e: it shows on, or is about to.  One that is being
\* switched off answers until the browser has given the subscription up.
Vouches(t, e) ==
    \/ tab[t].shown /\ tab[t].pc \in {"ready", "disabling"}
    \/ /\ tab[t].pc = "waiting" /\ call[t].pc = "answered" /\ call[t].ok
       /\ call[t].kind = "subscribe" /\ call[t].endpoint = e

Vouched ==
    ~excused /\ device # 0 /\ rows[device] # <<>> => \E t \in Tab : Vouches(t, device)

\* A control that is not mounted shows nothing.
Blank == \A t \in Tab : tab[t].pc = "unmounted" => ~tab[t].shown

LEMMA VouchedStep == PushInv /\ Vouched /\ [Next]_vars => Vouched'
<1> SUFFICES ASSUME PushInv, Vouched, [Next]_vars PROVE Vouched'
  OBVIOUS
<1>0. /\ tab \in [Tab -> Control] /\ call \in [Tab -> Call]
      /\ rows \in [Endpoint -> {<<>>} \cup {<<u>> : u \in User}]
      /\ device \in 0..MaxEndpoints /\ made \in 0..MaxEndpoints /\ device <= made
      /\ Endpoint = 1..MaxEndpoints
  BY BoundsAreNaturals DEF PushInv, PushTypeOK, Fresh, Endpoint
<1>1. ASSUME device' = device, excused' = excused, device # 0 /\ rows'[device] # <<>> => rows[device] # <<>>,
             \A c \in Tab : Vouches(c, device) => Vouches(c, device)'
      PROVE  Vouched'
  BY <1>0, <1>1 DEF Vouched
<1>2. ASSUME NEW t \in Tab, Mount(t) PROVE Vouched'
  <2>1. ~(tab[t].pc \in {"ready", "disabling", "waiting"})
    BY <1>2 DEF Mount
  <2>2. call' = call /\ \A c \in Tab \ {t} : tab'[c] = tab[c]
    BY <1>0, <1>2 DEF Mount
  <2>3. \A c \in Tab : Vouches(c, device) => Vouches(c, device)'
    BY <1>2, <2>1, <2>2 DEF Vouches, Mount
  <2> QED
    BY <1>1, <1>2, <2>3 DEF Mount
<1>3. ASSUME NEW t \in Tab, Toggle(t) PROVE Vouched'
  <2>1. /\ call' = call /\ \A c \in Tab \ {t} : tab'[c] = tab[c]
        /\ tab[t].pc = "ready" /\ tab'[t].shown = tab[t].shown
        /\ tab'[t].pc = IF tab[t].shown THEN "disabling" ELSE "enabling"
    BY <1>0, <1>3 DEF Toggle, Control
  <2>2. \A c \in Tab : Vouches(c, device) => Vouches(c, device)'
    BY <1>3, <2>1 DEF Vouches, Toggle
  <2> QED
    BY <1>1, <1>3, <2>2 DEF Toggle
<1>4. ASSUME NEW t \in Tab, Enable(t) PROVE Vouched'
  <2>1. CASE device = 0
    <3>1. device' = made + 1 /\ rows' = rows /\ device' \in Endpoint
      <4>1. made < MaxEndpoints /\ device' = made + 1 /\ rows' = rows
        BY <1>4, <2>1 DEF Enable
      <4>2. made + 1 \in 1..MaxEndpoints
        BY <1>0, <4>1, BoundsAreNaturals
      <4> QED
        BY <1>0, <4>1, <4>2
    <3>2. rows'[device'] = <<>>
      BY <1>0, <3>1 DEF PushInv, Fresh
    <3> QED
      BY <3>2 DEF Vouched
  <2>2. CASE device # 0
    <3>1. \A c \in Tab \ {t} : tab'[c] = tab[c] /\ call'[c] = call[c]
      BY <1>0, <1>4 DEF Enable
    <3>2. \A c \in Tab : Vouches(c, device) => Vouches(c, device)'
      BY <1>4, <2>2, <3>1 DEF Vouches, Enable
    <3> QED
      BY <1>1, <1>4, <2>2, <3>2 DEF Enable
  <2> QED
    BY <2>1, <2>2
<1>5. ASSUME NEW t \in Tab, EnableRefused(t) \/ NothingToDisable(t) PROVE Vouched'
  BY <1>5 DEF EnableRefused, NothingToDisable, Vouched
<1>6. ASSUME NEW t \in Tab, Disable(t) PROVE Vouched'
  BY <1>6 DEF Disable, Vouched
<1>7. ASSUME NEW t \in Tab, Answered(t) PROVE Vouched'
  <2>1. /\ \A c \in Tab \ {t} : tab'[c] = tab[c] /\ call'[c] = call[c]
        /\ tab'[t] = [pc |-> "ready", shown |-> call[t].kind = "subscribe" /\ call[t].ok]
        /\ tab[t].pc = "waiting"
    BY <1>0, <1>7 DEF Answered
  <2>2. ASSUME Vouches(t, device) PROVE Vouches(t, device)'
    <3>1. call[t].kind = "subscribe" /\ call[t].ok
      BY <2>1, <2>2 DEF Vouches
    <3>2. tab'[t].shown = (call[t].kind = "subscribe" /\ call[t].ok) /\ tab'[t].pc = "ready"
      BY <2>1
    <3>3. tab'[t].shown
      BY <3>1, <3>2, Zenon
    <3> QED
      BY <3>2, <3>3 DEF Vouches
  <2>3. \A c \in Tab : Vouches(c, device) => Vouches(c, device)'
    BY <1>7, <2>1, <2>2 DEF Vouches, Answered
  <2> QED
    BY <1>1, <1>7, <2>3 DEF Answered
<1>8. ASSUME NEW t \in Tab, Lose(t) PROVE Vouched'
  <2>1. CASE call[t].pc = "answered" /\ call[t].kind = "subscribe"
    BY <1>8, <2>1 DEF Lose, Vouched
  <2>2. CASE ~(call[t].pc = "answered" /\ call[t].kind = "subscribe")
    <3>1. call[t].pc # "none" /\ tab' = tab /\ \A c \in Tab \ {t} : call'[c] = call[c]
      BY <1>0, <1>8 DEF Lose
    <3>2. tab[t].pc = "waiting" /\ ~Vouches(t, device)
      BY <2>2, <3>1 DEF PushInv, Waited, Vouches
    <3>3. \A c \in Tab : Vouches(c, device) => Vouches(c, device)'
      BY <1>8, <3>1, <3>2 DEF Vouches, Lose
    <3>4. UNCHANGED <<rows, device>> /\ excused \in BOOLEAN /\ (excused' => excused)
      BY <1>8, <2>2 DEF Lose, PushInv, PushTypeOK
    <3>5. ~excused' => ~excused
      BY <1>8 DEF Lose
    <3> QED
      BY <1>0, <3>3, <3>4, <3>5 DEF Vouched
  <2> QED
    BY <2>1, <2>2
<1>9. ASSUME NEW t \in Tab, Select(t) PROVE Vouched'
  <2>1. tab' = tab /\ call[t].pc = "sent" /\ \A c \in Tab \ {t} : call'[c] = call[c]
    BY <1>0, <1>9 DEF Select
  <2>2. tab[t].pc = "waiting" /\ ~Vouches(t, device)
    BY <2>1 DEF PushInv, Waited, Vouches
  <2>3. \A c \in Tab : Vouches(c, device) => Vouches(c, device)'
    BY <1>9, <2>1, <2>2 DEF Vouches, Select
  <2> QED
    BY <1>1, <1>9, <2>3 DEF Select
<1>10. ASSUME NEW t \in Tab, Subscribe(t) PROVE Vouched'
  <2>1. /\ tab' = tab /\ call[t].pc = "selected" /\ call[t].kind = "subscribe"
        /\ \A c \in Tab \ {t} : call'[c] = call[c]
        /\ UNCHANGED <<device, excused>>
    BY <1>0, <1>10 DEF Subscribe, Respond
  <2>2. tab[t].pc = "waiting" /\ ~Vouches(t, device) /\ call[t].endpoint \in Endpoint
    <3>1. tab[t].pc = "waiting" /\ call[t].endpoint \in 1..made
      BY <2>1 DEF PushInv, Waited
    <3>2. call[t].endpoint \in Endpoint
      BY <1>0, <3>1, BoundsAreNaturals
    <3> QED
      BY <2>1, <3>1, <3>2 DEF Vouches
  <2>3. \A c \in Tab : Vouches(c, device) => Vouches(c, device)'
    BY <2>1, <2>2 DEF Vouches
  <2>4. CASE rows' = rows
    BY <1>1, <2>1, <2>3, <2>4
  <2>5. CASE rows' # rows
    <3>1. /\ rows' = [rows EXCEPT ![call[t].endpoint] = <<call[t].user>>]
          /\ call' = [call EXCEPT ![t] = [call[t] EXCEPT !.pc = "answered", !.ok = TRUE]]
      BY <1>0, <1>10, <2>5 DEF Subscribe, Respond
    <3>2. CASE call[t].endpoint = device
      <4>1. call'[t].pc = "answered" /\ call'[t].ok /\ call'[t].kind = "subscribe" /\ call'[t].endpoint = device
        BY <1>0, <2>1, <3>1, <3>2 DEF Call
      <4>2. Vouches(t, device)'
        BY <2>1, <2>2, <4>1 DEF Vouches
      <4> QED
        BY <2>1, <4>2 DEF Vouched
    <3>3. CASE call[t].endpoint # device
      <4>1. device # 0 => rows'[device] = rows[device]
        BY <1>0, <3>1, <3>3
      <4> QED
        BY <1>1, <2>1, <2>3, <4>1
    <3> QED
      BY <3>2, <3>3
  <2> QED
    BY <2>4, <2>5
<1>11. ASSUME NEW t \in Tab, Unsubscribe(t) PROVE Vouched'
  <2>1. /\ tab' = tab /\ UNCHANGED <<device, excused>> /\ call[t].pc = "selected"
        /\ device # 0 /\ rows'[device] # <<>> => rows[device] # <<>>
    BY <1>0, <1>11 DEF Unsubscribe
  <2>2. tab[t].pc = "waiting" /\ ~Vouches(t, device)
    BY <2>1 DEF PushInv, Waited, Vouches
  <2>3. ASSUME NEW c \in Tab, c # t
        PROVE  /\ call'[c].pc = call[c].pc /\ call'[c].kind = call[c].kind
               /\ call'[c].endpoint = call[c].endpoint /\ (call[c].ok => call'[c].ok)
    <3>1. call'[c] = call[c] \/ call'[c] = [call[c] EXCEPT !.found = "gone"]
      BY <1>0, <1>11, <2>3 DEF Unsubscribe
    <3>2. /\ [call[c] EXCEPT !.found = "gone"].pc = call[c].pc
          /\ [call[c] EXCEPT !.found = "gone"].kind = call[c].kind
          /\ [call[c] EXCEPT !.found = "gone"].endpoint = call[c].endpoint
          /\ [call[c] EXCEPT !.found = "gone"].ok = call[c].ok
      BY <1>0, CallFound, Zenon
    <3> QED
      BY <3>1, <3>2, Zenon
  <2>4. \A c \in Tab : Vouches(c, device) => Vouches(c, device)'
    BY <2>1, <2>2, <2>3 DEF Vouches
  <2> QED
    BY <1>1, <2>1, <2>4
<1>12. CASE Crash
  <2>1. UNCHANGED <<rows, device, tab, excused>>
    BY <1>12 DEF Crash
  <2>2. \A c \in Tab : call[c].pc = "answered" => call'[c] = call[c]
    BY <1>0, <1>12 DEF Crash
  <2>3. \A c \in Tab : Vouches(c, device) => Vouches(c, device)'
    BY <2>1, <2>2 DEF Vouches
  <2> QED
    BY <1>1, <2>1, <2>3
<1>13. CASE UNCHANGED <<rows, device, tab, call, excused>>
  <2>1. \A c \in Tab : Vouches(c, device) => Vouches(c, device)'
    BY <1>13 DEF Vouches
  <2> QED
    BY <1>1, <1>13, <2>1
<1> QED
  BY <1>2, <1>3, <1>4, <1>5, <1>6, <1>7, <1>8, <1>9, <1>10, <1>11, <1>12, <1>13
  DEF Next, PushNext, SwitchUser, vars, push, Announce, Connect, Break, Disconnect, Record, SendSocket,
      SelectSubscriptions, SendPush, Commit

LEMMA BlankStep == PushInv /\ Blank /\ [Next]_vars => Blank'
<1> SUFFICES ASSUME PushInv, Blank, [Next]_vars PROVE Blank'
  OBVIOUS
<1>1. tab \in [Tab -> Control]
  BY DEF PushInv, PushTypeOK
<1>2. tab' = tab \/ \E t \in Tab : tab'[t].pc # "unmounted" /\ \A c \in Tab \ {t} : tab'[c] = tab[c]
  <2>1. ASSUME NEW t \in Tab,
               \/ Mount(t) \/ Enable(t) \/ EnableRefused(t) \/ Disable(t) \/ NothingToDisable(t)
               \/ Answered(t)
        PROVE  tab'[t].pc # "unmounted" /\ \A c \in Tab \ {t} : tab'[c] = tab[c]
    BY <1>1, <2>1 DEF Mount, Enable, EnableRefused, Disable, NothingToDisable, Answered, Control
  <2>2. ASSUME NEW t \in Tab, Toggle(t)
        PROVE  tab'[t].pc # "unmounted" /\ \A c \in Tab \ {t} : tab'[c] = tab[c]
    BY <1>1, <2>2 DEF Toggle, Control
  <2>3. ASSUME NEW t \in Tab, Lose(t) \/ Select(t) \/ Subscribe(t) \/ Unsubscribe(t) PROVE tab' = tab
    BY <2>3 DEF Lose, Select, Subscribe, Unsubscribe
  <2>4. ASSUME PushNext PROVE tab' = tab \/ \E t \in Tab : /\ tab'[t].pc # "unmounted"
                                                        /\ \A c \in Tab \ {t} : tab'[c] = tab[c]
    BY <2>1, <2>2, <2>3, <2>4 DEF PushNext, SwitchUser
  <2>5. ASSUME ~PushNext PROVE tab' = tab
    BY <2>5 DEF Next, vars, push, Announce, Connect, Break, Disconnect, Record, SendSocket, SelectSubscriptions,
        SendPush, Commit, Crash
  <2> QED
    BY <2>4, <2>5
<1> QED
  BY <1>1, <1>2 DEF Blank

\* No device is notified behind its guest's back: for any number of tabs, guests, presses
\* and losses, whenever no control is busy one of them shows on if the server would notify
\* the device, but for the losses the client cannot notice.
THEOREM SwitchIsHonest == Spec => []NotifiedIsShown
<1>1. Init => PushInv /\ Vouched /\ Blank
  <2>1. PushInit => Vouched /\ Blank
    BY DEF PushInit, Vouched, Blank
  <2> QED
    BY <2>1, PushTypeInit DEF Init
<1>2. PushInv /\ Vouched /\ Blank /\ [Next]_vars => PushInv' /\ Vouched' /\ Blank'
  BY PushStep, VouchedStep, BlankStep
<1>3. Vouched /\ Blank => NotifiedIsShown
  BY DEF Vouched, Vouches, Blank, NotifiedIsShown, Idle
<1> QED
  BY <1>1, <1>2, <1>3, PTL DEF Spec
=============================================================================
