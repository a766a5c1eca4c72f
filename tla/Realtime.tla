------------------------------ MODULE Realtime ------------------------------
(***************************************************************************)
(* Announcing an action (activity.record): the event is flushed, sent to the *)
(* sockets of this process (services/websocket_manager.py, routers/ws.py),   *)
(* published to Redis, and pushed to the subscribed devices                 *)
(* (push_service.notify_subscribers), all before the action's transaction    *)
(* commits.  Meanwhile pages come and go, connections break, the guest of     *)
(* PushSubscriptions switches notifications on and off, and the process may   *)
(* die.                                                                     *)
(***************************************************************************)
EXTENDS PushSubscriptions

CONSTANTS
    Page,       \* connections of open pages
    Action,     \* reactions, comments, favorites
    Actor       \* the guest who acts, Actor[a]

ASSUME ActorsAreUsers == Actor \in [Action -> User]

VARIABLES
    socket,     \* each connection, as its page has it
    active,     \* ConnectionManager.active
    action      \* each action: its announcement under way, and whom it reached

vars == <<push, socket, active, action>>

-----------------------------------------------------------------------------

\* A broken connection is one the server has not noticed yet.
Socket == {"new", "open", "broken", "closed"}

\* The announcement: the sockets or endpoints still to send to; the connections it was
\* meant for and those that heard it; this browser's endpoint if selected, and if notified.
Announcement ==
    [pc: {"idle", "broadcasting", "pushing", "done", "lost"},
     sockets: SUBSET Page, audience: SUBSET Page, heard: SUBSET Page,
     endpoints: SUBSET Endpoint, owed: Endpoint \cup {0}, notified: BOOLEAN]

Init ==
    /\ PushInit
    /\ socket = [p \in Page |-> "new"]
    /\ active = {}
    /\ action = [a \in Action |->
          [pc |-> "idle", sockets |-> {}, audience |-> {}, heard |-> {},
           endpoints |-> {}, owed |-> 0, notified |-> FALSE]]

-----------------------------------------------------------------------------
(* Connections.                                                               *)

\* websocket_endpoint: accept, then join the active ones.
Connect(p) ==
    /\ socket[p] = "new"
    /\ socket' = [socket EXCEPT ![p] = "open"]
    /\ active' = active \cup {p}
    /\ UNCHANGED <<push, action>>

\* The page is closed or its network fails.
Break(p) ==
    /\ socket[p] = "open"
    /\ socket' = [socket EXCEPT ![p] = "broken"]
    /\ UNCHANGED <<push, active, action>>

\* receive_text raises.
Disconnect(p) ==
    /\ socket[p] = "broken"
    /\ socket' = [socket EXCEPT ![p] = "closed"]
    /\ active' = active \ {p}
    /\ UNCHANGED <<push, action>>

-----------------------------------------------------------------------------
(* record.                                                                    *)

\* publish: the broadcast goes over a copy of the active connections.
Record(a) ==
    /\ action[a].pc = "idle"
    /\ action' = [action EXCEPT ![a].pc = "broadcasting", ![a].sockets = active,
                                ![a].audience = active]
    /\ UNCHANGED <<push, socket, active>>

\* Mutant: the broadcast goes over the active connections themselves.
SendSocketLive(a, p) ==
    /\ action[a].pc = "broadcasting" /\ p \in action[a].sockets
    /\ IF action[a].sockets \subseteq active
       THEN action' = [action EXCEPT ![a].sockets = @ \ {p}, ![a].heard = @ \cup {p}]
       ELSE action' = [action EXCEPT ![a].sockets = {}]
    /\ UNCHANGED <<push, socket, active>>

\* broadcast: the next connection hears it, or is dropped.
SendSocket(a, p) ==
    /\ action[a].pc = "broadcasting" /\ p \in action[a].sockets
    /\ IF socket[p] = "open"
       THEN /\ action' = [action EXCEPT ![a].sockets = @ \ {p}, ![a].heard = @ \cup {p}]
            /\ UNCHANGED active
       ELSE /\ action' = [action EXCEPT ![a].sockets = @ \ {p}]
            /\ active' = active \ {p}
    /\ UNCHANGED <<push, socket>>

\* The message has gone to Redis too, where nobody subscribes, or that has failed.  Then
\* notify_subscribers selects every endpoint but those of the actor.
SelectSubscriptions(a) ==
    LET others == {e \in Endpoint : \E u \in Range(rows[e]) : u # Actor[a]} IN
    /\ action[a].pc = "broadcasting" /\ action[a].sockets = {}
    /\ action' = [action EXCEPT ![a].pc = "pushing", ![a].endpoints = others,
                                ![a].owed = IF device \in others THEN device ELSE 0]
    /\ UNCHANGED <<push, socket, active>>

\* Mutant: a push that fails ends the fan-out.
SendPushBreaking(a, e) ==
    /\ action[a].pc = "pushing" /\ e \in action[a].endpoints
    /\ action' = [action EXCEPT ![a].endpoints = IF e = device THEN @ \ {e} ELSE {},
                                ![a].notified = (@ \/ e = device)]
    /\ UNCHANGED <<push, socket, active>>

\* send_push: only the endpoint the browser has now notifies it; failures are swallowed.
SendPush(a, e) ==
    /\ action[a].pc = "pushing" /\ e \in action[a].endpoints
    /\ \/ /\ action' = [action EXCEPT ![a].endpoints = @ \ {e}, ![a].notified = (@ \/ e = device)]
          /\ UNCHANGED push
       \/ /\ e = device /\ Loses
          /\ action' = [action EXCEPT ![a].endpoints = @ \ {e}, ![a].owed = 0]
          /\ UNCHANGED <<rows, device, made, user, tab, call, excused>>
    /\ UNCHANGED <<socket, active>>

\* The handler that recorded the action commits it.
Commit(a) ==
    /\ action[a].pc = "pushing" /\ action[a].endpoints = {}
    /\ action' = [action EXCEPT ![a].pc = "done"]
    /\ UNCHANGED <<push, socket, active>>

\* The process dies: its connections break, its requests are answered by an error and
\* what they had flushed is rolled back.
Crash ==
    /\ Loses
    /\ active' = {}
    /\ socket' = [p \in Page |-> IF socket[p] = "new" THEN "new" ELSE "closed"]
    /\ action' = [a \in Action |-> IF action[a].pc \in {"idle", "done"} THEN action[a]
                                  ELSE [action[a] EXCEPT !.pc = "lost"]]
    /\ call' = [t \in Tab |-> IF call[t].pc \in {"sent", "selected"}
                              THEN [call[t] EXCEPT !.pc = "answered"] ELSE call[t]]
    /\ UNCHANGED <<rows, device, made, user, tab, excused>>

-----------------------------------------------------------------------------

Announce(a) ==
    \/ \E p \in Page : SendSocket(a, p)
    \/ SelectSubscriptions(a)
    \/ \E e \in Endpoint : SendPush(a, e)
    \/ Commit(a)

Next ==
    \/ PushNext /\ UNCHANGED <<socket, active, action>>
    \/ \E p \in Page : Connect(p) \/ Break(p) \/ Disconnect(p)
    \/ \E a \in Action : Record(a) \/ Announce(a)
    \/ Crash

Spec == Init /\ [][Next]_vars

-----------------------------------------------------------------------------
(* Properties.                                                                *)

\* Every variable keeps its type.
TypeOK ==
    /\ PushTypeOK
    /\ socket \in [Page -> Socket] /\ active \subseteq Page
    /\ action \in [Action -> Announcement]

\* When the broadcast is over, every connection that was there when it began has heard it,
\* unless its connection is broken: others that come, go or are found dead
\* meanwhile do not take it from them.
AudienceHears ==
    \A a \in Action : action[a].pc \in {"pushing", "done"} =>
        \A p \in action[a].audience : socket[p] = "open" => p \in action[a].heard

\* When the action is committed, a device that was selected and still has that subscription
\* was notified, unless that very push failed: rows of dead endpoints, which nothing ever
\* removes, do not take it from it.
DeviceHears ==
    \A a \in Action :
        action[a].pc = "done" /\ action[a].owed # 0 /\ action[a].owed = device
            => action[a].notified
=============================================================================
