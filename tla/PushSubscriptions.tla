-------------------------- MODULE PushSubscriptions --------------------------
(***************************************************************************)
(* Web-push subscriptions: the controls that switch notifications on and off *)
(* in the tabs of one browser (components/PushToggle.tsx, lib/push.ts), the  *)
(* browser's own subscription, and the table of subscriptions on the server  *)
(* (services/push_service.py).                                              *)
(***************************************************************************)
EXTENDS Integers, Sequences, Functions

CONSTANTS
    User,           \* guests who use this browser, one after the other
    Tab,            \* its tabs: each has one control
    MaxEndpoints,   \* bound: push subscriptions the browser makes
    MaxPresses,     \* bound: times a control is pressed
    MaxLosses       \* bound: calls and answers that get lost

ASSUME BoundsAreNaturals ==
    /\ MaxEndpoints \in Nat \ {0} /\ MaxPresses \in Nat /\ MaxLosses \in Nat

VARIABLES
    rows,       \* push_subscriptions: the owners of the rows of each endpoint
    device,     \* pushManager.getSubscription(): an endpoint, or 0
    made,       \* endpoints the browser was given so far
    user,       \* who is logged in
    tab,        \* each control: what it shows and where its toggle() is
    call,       \* the call each control has sent
    used,       \* presses and losses so far
    excused     \* history: a loss may have left the device subscribed unnoticed

push == <<rows, device, made, user, tab, call, used, excused>>

-----------------------------------------------------------------------------

Endpoint == 1..MaxEndpoints

\* A control that is not mounted yet shows nothing.
Control == [pc: {"unmounted", "ready", "enabling", "disabling", "waiting"}, shown: BOOLEAN]

Call == [pc: {"none", "sent", "selected", "answered"}, kind: {"subscribe", "unsubscribe"},
         user: User, endpoint: Endpoint \cup {0}, found: {"none", "row", "own", "gone"},
         ok: BOOLEAN]

NewCall(k, e) ==
    [pc |-> "sent", kind |-> k, user |-> user, endpoint |-> e, found |-> "none", ok |-> FALSE]

\* Nobody has subscribed yet, or the browser has dropped a subscription (its guest cleared
\* the site's data, say) whose row is still there: nothing ever removes such a row.
PushInit ==
    /\ user \in User
    /\ device = 0
    /\ \/ made = 0 /\ rows = [e \in Endpoint |-> <<>>]
       \/ made = 1 /\ rows = [e \in Endpoint |-> IF e = 1 THEN <<user>> ELSE <<>>]
    /\ tab = [t \in Tab |-> [pc |-> "unmounted", shown |-> FALSE]]
    /\ call = [t \in Tab |-> [pc |-> "none", kind |-> "subscribe", user |-> user,
                              endpoint |-> 0, found |-> "none", ok |-> FALSE]]
    /\ used = [presses |-> 0, losses |-> 0]
    /\ excused = FALSE

Loses == used.losses < MaxLosses /\ used' = [used EXCEPT !.losses = @ + 1]

-----------------------------------------------------------------------------
(* The control.                                                               *)

\* It asks the browser, not the server, whether it is on.
Mount(t) ==
    /\ tab[t].pc = "unmounted"
    /\ tab' = [tab EXCEPT ![t] = [pc |-> "ready", shown |-> device # 0]]
    /\ UNCHANGED <<rows, device, made, user, call, used, excused>>

\* toggle: the control is busy until its calls have ended.
Toggle(t) ==
    /\ tab[t].pc = "ready"
    /\ used.presses < MaxPresses
    /\ used' = [used EXCEPT !.presses = @ + 1]
    /\ tab' = [tab EXCEPT ![t].pc = IF tab[t].shown THEN "disabling" ELSE "enabling"]
    /\ UNCHANGED <<rows, device, made, user, call, excused>>

\* enablePush: the browser's subscription, or a new one, is sent to the server.
Enable(t) ==
    /\ tab[t].pc = "enabling"
    /\ device = 0 => made < MaxEndpoints
    /\ device' = IF device = 0 THEN made + 1 ELSE device
    /\ made' = IF device = 0 THEN made + 1 ELSE made
    /\ tab' = [tab EXCEPT ![t].pc = "waiting"]
    /\ call' = [call EXCEPT ![t] = NewCall("subscribe", device')]
    /\ UNCHANGED <<rows, user, used, excused>>

\* The guest declines, or the browser does not give a subscription.
EnableRefused(t) ==
    /\ tab[t].pc = "enabling" /\ device = 0
    /\ tab' = [tab EXCEPT ![t] = [pc |-> "ready", shown |-> FALSE]]
    /\ UNCHANGED <<rows, device, made, user, call, used, excused>>

\* Mutant: the browser keeps its subscription.
DisableKeeping(t) ==
    /\ tab[t].pc = "disabling" /\ device # 0
    /\ tab' = [tab EXCEPT ![t].pc = "waiting"]
    /\ call' = [call EXCEPT ![t] = NewCall("unsubscribe", device)]
    /\ UNCHANGED <<rows, device, made, user, used, excused>>

\* disablePush: the browser gives its subscription up, or fails to, and the server is told.
Disable(t) ==
    /\ tab[t].pc = "disabling" /\ device # 0
    /\ tab' = [tab EXCEPT ![t].pc = "waiting"]
    /\ call' = [call EXCEPT ![t] = NewCall("unsubscribe", device)]
    /\ \/ device' = 0 /\ UNCHANGED <<used, excused>>
       \/ Loses /\ excused' = TRUE /\ UNCHANGED device
    /\ UNCHANGED <<rows, made, user>>

NothingToDisable(t) ==
    /\ tab[t].pc = "disabling" /\ device = 0
    /\ tab' = [tab EXCEPT ![t] = [pc |-> "ready", shown |-> FALSE]]
    /\ UNCHANGED <<rows, device, made, user, call, used, excused>>

\* The answer, or an error: only a subscription that was confirmed is shown.
Answered(t) ==
    /\ tab[t].pc = "waiting" /\ call[t].pc = "answered"
    /\ tab' = [tab EXCEPT ![t] = [pc |-> "ready", shown |-> call[t].kind = "subscribe" /\ call[t].ok]]
    /\ call' = [call EXCEPT ![t].pc = "none"]
    /\ UNCHANGED <<rows, device, made, user, used, excused>>

\* The call does not arrive, or its answer does not; the control sees an error.
Lose(t) ==
    /\ call[t].pc = "sent" \/ (call[t].pc = "answered" /\ call[t].ok)
    /\ Loses
    /\ call' = [call EXCEPT ![t].pc = "answered", ![t].ok = FALSE]
    /\ excused' = (excused \/ (call[t].pc = "answered" /\ call[t].kind = "subscribe"))
    /\ UNCHANGED <<rows, device, made, user, tab>>

\* Another guest logs in.  Neither the browser nor the server forgets its subscription.
SwitchUser(u) ==
    /\ u # user
    /\ user' = u
    /\ UNCHANGED <<rows, device, made, tab, call, used, excused>>

-----------------------------------------------------------------------------
(* The server: a SELECT and, later, the write that is committed.                *)

Owned(t) == call[t].user \in Range(rows[call[t].endpoint])

\* Subscribing looks for the endpoint, unsubscribing for the guest's own row of it.
Select(t) ==
    /\ call[t].pc = "sent"
    /\ call' = [call EXCEPT ![t].pc = "selected",
                  ![t].found = IF call[t].kind = "subscribe"
                               THEN IF Owned(t) THEN "own"
                                    ELSE IF rows[call[t].endpoint] = <<>> THEN "none" ELSE "row"
                               ELSE IF Owned(t) THEN "row" ELSE "none"]
    /\ UNCHANGED <<rows, device, made, user, tab, used, excused>>

Respond(t, ok) == call' = [call EXCEPT ![t].pc = "answered", ![t].ok = ok]

\* Mutant: no unique constraint on the endpoint.
SubscribeNotUnique(t) ==
    /\ call[t].pc = "selected" /\ call[t].kind = "subscribe"
    /\ rows' = [rows EXCEPT ![call[t].endpoint] =
                    IF call[t].found = "none" THEN Append(@, call[t].user) ELSE <<call[t].user>>]
    /\ Respond(t, TRUE)
    /\ UNCHANGED <<device, made, user, tab, used, excused>>

\* subscribe: the row it found changes its owner, or a new row is inserted.  It fails if
\* the row it found is gone, or uq_push_endpoint finds a row where it had found none.  A row
\* found with this owner and these keys is not written, and may be gone unnoticed.
Subscribe(t) ==
    LET e == call[t].endpoint
        writes == call[t].found = "row" \/ (call[t].found = "none" /\ rows[e] = <<>>)
        ok == writes \/ call[t].found = "own"
    IN  /\ call[t].pc = "selected" /\ call[t].kind = "subscribe"
        /\ rows' = IF writes THEN [rows EXCEPT ![e] = <<call[t].user>>] ELSE rows
        /\ Respond(t, ok)
        /\ UNCHANGED <<device, made, user, tab, used, excused>>

\* unsubscribe: the row it found is deleted, whoever owns it by now, under the other
\* calls that found it.
Unsubscribe(t) ==
    LET e == call[t].endpoint
        deletes == call[t].found = "row"
    IN  /\ call[t].pc = "selected" /\ call[t].kind = "unsubscribe"
        /\ rows' = IF deletes THEN [rows EXCEPT ![e] = <<>>] ELSE rows
        /\ call' = [c \in Tab |->
                IF c = t THEN [call[t] EXCEPT !.pc = "answered", !.ok = TRUE]
                ELSE IF deletes /\ call[c].endpoint = e /\ call[c].found = "row"
                THEN [call[c] EXCEPT !.found = "gone"] ELSE call[c]]
        /\ UNCHANGED <<device, made, user, tab, used, excused>>

-----------------------------------------------------------------------------

PushNext ==
    \/ \E t \in Tab :
          \/ Mount(t) \/ Toggle(t) \/ Enable(t) \/ EnableRefused(t)
          \/ Disable(t) \/ NothingToDisable(t) \/ Answered(t) \/ Lose(t)
          \/ Select(t) \/ Subscribe(t) \/ Unsubscribe(t)
    \/ \E u \in User : SwitchUser(u)

PushSpec == PushInit /\ [][PushNext]_push

-----------------------------------------------------------------------------
(* Properties.                                                                *)

\* Every variable keeps its type: an endpoint has one row at most, although subscribe looks
\* for it before it inserts, so that no device is notified twice.
PushTypeOK ==
    /\ rows \in [Endpoint -> {<<>>} \cup {<<u>> : u \in User}]
    /\ device \in Endpoint \cup {0} /\ made \in Endpoint \cup {0}
    /\ user \in User
    /\ tab \in [Tab -> Control] /\ call \in [Tab -> Call]
    /\ used \in [presses: 0..MaxPresses, losses: 0..MaxLosses]
    /\ excused \in BOOLEAN

Idle == \A t \in Tab : tab[t].pc \in {"unmounted", "ready"}

\* A device is not notified behind its guest's back: once no control is busy, a device
\* that the server would notify has a control that shows it on (or none is mounted), whatever
\* was pressed in the tabs meanwhile and whoever logged in.  Excused are the losses the
\* client cannot notice: the answer to a subscription that was made, and a browser
\* that does not give its subscription up.
NotifiedIsShown ==
    /\ Idle /\ ~excused
    /\ device # 0 /\ rows[device] # <<>>
    => \E t \in Tab : tab[t].shown
=============================================================================
