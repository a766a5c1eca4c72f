----------------------------- MODULE Engagement -----------------------------
(***************************************************************************)
(* What services/social.py promises, with no handlers, sessions, rows or   *)
(* locks: guests react to items, favorite them and comment on them, each    *)
(* request takes effect at one instant or not at all, for its own guest     *)
(* and its own item, and no engagement outlives its account or its item.    *)
(***************************************************************************)
EXTENDS Naturals

CONSTANTS Users, NoUser, Admins, Items, NoItem, Types, CommentIds, Requests

VARIABLES
    accounts,    \* the guests that have one
    media,       \* the items that exist
    reactions,   \* <<guest, item, type>>
    favorites,   \* <<guest, item>>
    comments,    \* <<id, guest, item>>
    call,        \* each request: who made it, about what, on which item
    answer       \* and how it was answered

engagement == <<reactions, favorites, comments>>

vars == <<accounts, media, engagement, call, answer>>

NoCall == [by |-> NoUser, kind |-> "view", on |-> NoItem]

Init ==
    /\ accounts = Users /\ media = Items
    /\ reactions = {} /\ favorites = {} /\ comments = {}
    /\ call = [r \in Requests |-> NoCall]
    /\ answer = [r \in Requests |-> "none"]

\* A removal of favorites names no single item.
Call(r, u, kind, x) ==
    /\ call[r] = NoCall
    /\ u \in accounts
    /\ call' = [call EXCEPT ![r] = [by |-> u, kind |-> kind, on |-> x]]
    /\ \/ UNCHANGED answer
       \/ answer' = [answer EXCEPT ![r] = "refused"]
    /\ UNCHANGED <<accounts, media, engagement>>

Answer(r, how) ==
    /\ call[r].by # NoUser /\ answer[r] = "none"
    /\ answer' = [answer EXCEPT ![r] = how]
    /\ UNCHANGED <<accounts, media, call>>

\* All or nothing: a request that fails has done nothing.
Fail(r) == Answer(r, "error") /\ UNCHANGED engagement

\* A view, or the removal of what is gone.
Nothing(r) == Answer(r, "ok") /\ UNCHANGED engagement

Of(u, x) == {p \in reactions : p[1] = u /\ p[2] = x}

\* One reaction per guest and item: a first one, ...
React(r, type) ==
    LET u == call[r].by
        x == call[r].on
    IN  /\ call[r].kind = "reaction" /\ u \in accounts /\ x \in media /\ Of(u, x) = {}
        /\ reactions' = reactions \cup {<<u, x, type>>}
        /\ Answer(r, "ok")
        /\ UNCHANGED <<favorites, comments>>

\* ... another type in its place, ...
Switch(r, type) ==
    LET u == call[r].by
        x == call[r].on
    IN  /\ call[r].kind = "reaction" /\ Of(u, x) # {}
        /\ reactions' = (reactions \ Of(u, x)) \cup {<<u, x, type>>}
        /\ Answer(r, "ok")
        /\ UNCHANGED <<favorites, comments>>

\* ... or none.
Unreact(r) ==
    /\ call[r].kind = "reaction"
    /\ reactions' = reactions \ Of(call[r].by, call[r].on)
    /\ Answer(r, "ok")
    /\ UNCHANGED <<favorites, comments>>

Favorite(r) ==
    LET u == call[r].by
        x == call[r].on
    IN  /\ call[r].kind = "favorite" /\ u \in accounts /\ x \in media /\ <<u, x>> \notin favorites
        /\ favorites' = favorites \cup {<<u, x>>}
        /\ Answer(r, "ok")
        /\ UNCHANGED <<reactions, comments>>

Unfavorite(r, xs) ==
    /\ call[r].kind = "favorite" /\ (call[r].on # NoItem => xs = {call[r].on})
    /\ favorites' = favorites \ ({call[r].by} \X xs)
    /\ Answer(r, "ok")
    /\ UNCHANGED <<reactions, comments>>

Comment(r, c) ==
    LET u == call[r].by
        x == call[r].on
    IN  /\ call[r].kind = "comment" /\ u \in accounts /\ x \in media
        /\ \A p \in comments : p[1] # c
        /\ comments' = comments \cup {<<c, u, x>>}
        /\ Answer(r, "ok")
        /\ UNCHANGED <<reactions, favorites>>

\* One's own, or anybody's for an admin.
Uncomment(r, c, author) ==
    /\ call[r].kind = "comment" /\ (author = call[r].by \/ call[r].by \in Admins)
    /\ comments' = comments \ {<<c, author, call[r].on>>}
    /\ Answer(r, "ok")
    /\ UNCHANGED <<reactions, favorites>>

DeleteItem(x) ==
    /\ x \in media
    /\ media' = media \ {x}
    /\ reactions' = {p \in reactions : p[2] # x}
    /\ favorites' = {p \in favorites : p[2] # x}
    /\ comments' = {p \in comments : p[3] # x}
    /\ UNCHANGED <<accounts, call, answer>>

DeleteUser(u) ==
    /\ u \in accounts
    /\ accounts' = accounts \ {u}
    /\ reactions' = {p \in reactions : p[1] # u}
    /\ favorites' = {p \in favorites : p[1] # u}
    /\ comments' = {p \in comments : p[2] # u}
    /\ UNCHANGED <<media, call, answer>>

Serve(r) ==
    \/ Fail(r) \/ Nothing(r)
    \/ \E type \in Types : React(r, type) \/ Switch(r, type)
    \/ Unreact(r)
    \/ Favorite(r)
    \/ \E xs \in SUBSET Items : Unfavorite(r, xs)
    \/ \E c \in CommentIds : Comment(r, c) \/ \E author \in Users : Uncomment(r, c, author)

Next ==
    \/ \E r \in Requests :
          \/ \E u \in Users, kind \in {"reaction", "favorite", "comment", "view"}, x \in Items \cup {NoItem} :
                Call(r, u, kind, x)
          \/ Serve(r)
    \/ \E x \in Items : DeleteItem(x)
    \/ \E u \in Users : DeleteUser(u)

Spec == Init /\ [][Next]_vars
=============================================================================
