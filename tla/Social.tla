------------------------------- MODULE Social -------------------------------
(***************************************************************************)
(* Reactions, favorites, comments and views (services/social.py), the      *)
(* counts of them that live on the media row, and the deletions that        *)
(* cascade to them.                                                        *)
(*                                                                         *)
(* A handler reads the item, then its own row, computes the new count in   *)
(* Python and writes it back.  PostgreSQL keeps a row locked from the       *)
(* UPDATE to the commit, so that a handler that flushes once at its end is  *)
(* a read followed by an atomic write; the two handlers that flush earlier  *)
(* (SQLAlchemy flushes before every SELECT) hold their locks meanwhile.     *)
(***************************************************************************)
EXTENDS Naturals, FiniteSets

CONSTANTS
    Users,
    NoUser,
    Admins,     \* those among Users who are admins
    Items,      \* media items
    NoItem,
    Rows,       \* ids of rows in reactions, favorites and comments, never reused
    NoRow,
    Types,      \* like, love, laugh
    NoType,
    Requests    \* HTTP requests, each handled once

ASSUME ConstantsAssumption ==
    /\ Admins \subseteq Users
    /\ NoUser \notin Users
    /\ NoItem \notin Items
    /\ NoRow \notin Rows
    /\ NoType \notin Types
    /\ IsFiniteSet(Rows) /\ IsFiniteSet(Requests)

VARIABLES
    users,   \* the accounts that exist
    item,    \* each item: shown, hidden (or not ready), deleted
    count,   \* the four counts on the media row
    row,     \* the reactions, favorites and comments
    req,     \* the HTTP requests
    raced    \* history: the items that two requests had open at once, or that a request
             \* had open while an account was deleted

vars == <<users, item, count, row, req, raced>>

-----------------------------------------------------------------------------

Counted == {"reaction", "favorite", "comment"}
Kinds == Counted \cup {"view"}

\* A row is live until it is withdrawn (toggled off, soft-deleted, or gone with its
\* item) or lost with the account that made it.
Row == [state: {"unused", "live", "withdrawn", "lost"},
        kind: Kinds, user: Users \cup {NoUser}, item: Items \cup {NoItem},
        type: Types \cup {NoType}]

NewRow == [state |-> "unused", kind |-> "view", user |-> NoUser, item |-> NoItem, type |-> NoType]

Request == [pc: {"new", "item", "row", "locked", "bulk", "done"},
            kind: Kinds, user: Users \cup {NoUser}, on: Items \cup {NoItem},
            type: Types \cup {NoType},    \* the reaction asked for
            mine: Rows \cup {NoRow},      \* the row it read
            was: Types \cup {NoType},     \* its type then
            todo: SUBSET Rows,            \* bulk: rows still to process
            gone: SUBSET Rows,            \* bulk: rows it deletes
            loaded: SUBSET Items,         \* the items whose count it read
            seen: [Items -> Nat],         \* and the counts
            held: SUBSET Items,           \* the items it has locked by a flush
            reply: {"none", "ok", "refused", "error"}]

Opened(u, kind, x, type, pc) ==
    [pc |-> pc, kind |-> kind, user |-> u, on |-> x, type |-> type,
     mine |-> NoRow, was |-> NoType, todo |-> {}, gone |-> {}, loaded |-> {},
     seen |-> [y \in Items |-> 0], held |-> {}, reply |-> "none"]

Init ==
    /\ users = Users
    /\ item = [x \in Items |-> "shown"]
    /\ count = [kind \in Kinds |-> [x \in Items |-> 0]]
    /\ row = [i \in Rows |-> NewRow]
    /\ req = [r \in Requests |-> Opened(NoUser, "view", NoItem, NoType, "new")]
    /\ raced = {}

Live(i) == row[i].state = "live"

Busy(r) == req[r].pc \notin {"new", "done"}

MayStart(r, u) == req[r].pc = "new" /\ u \in users

\* The items request r works on.
Open(r) == IF Busy(r) THEN {req[r].on} \cup {row[i].item : i \in req[r].todo \cup req[r].gone} ELSE {}

Ended(q, reply) == [q EXCEPT !.pc = "done", !.held = {}, !.reply = reply]

Finish(r, reply) == req' = [req EXCEPT ![r] = Ended(@, reply)]

\* The count request r writes back for item x.
Increased(r, x) == req[r].seen[x] + 1

\* Mutant: no max(0, ...).
DecreasedUnclamped(r, x) == req[r].seen[x] + 0 - 1

Decreased(r, x) == IF req[r].seen[x] = 0 THEN 0 ELSE req[r].seen[x] - 1

\* The UPDATE of x by r waits while another request holds the media row.
Blocked(r, x) == \E q \in Requests \ {r} : x \in req[q].held

-----------------------------------------------------------------------------
(* Toggles: toggle_reaction and toggle_favorite, which has a single type.      *)

\* get_visible_item, the first step of all but the two removals.
ReadItem(r, u, kind, x, type) ==
    /\ MayStart(r, u)
    /\ type \in (IF kind = "reaction" THEN Types ELSE {NoType})
    /\ LET opened == [Opened(u, kind, x, type, "item") EXCEPT !.loaded = {x}, !.seen[x] = count[kind][x]]
       IN  req' = [req EXCEPT ![r] = IF item[x] = "shown" THEN opened ELSE Ended(opened, "refused")]
    /\ UNCHANGED <<users, item, count, row>>

\* The guest's own row on the item.
ReadOwn(r) ==
    LET own == {i \in Rows : /\ Live(i) /\ row[i].kind = req[r].kind
                             /\ row[i].user = req[r].user /\ row[i].item = req[r].on}
    IN  /\ req[r].pc = "item" /\ req[r].kind \in {"reaction", "favorite"}
        /\ \/ /\ own = {}
              /\ req' = [req EXCEPT ![r].pc = "row"]
           \/ \E i \in own :
                 req' = [req EXCEPT ![r].pc = "row", ![r].mine = i, ![r].was = row[i].type]
        /\ UNCHANGED <<users, item, count, row>>

\* The unique constraints on reactions and favorites.
Taken(kind, u, x) ==
    /\ kind # "comment"
    /\ \E i \in Rows : Live(i) /\ row[i].kind = kind /\ row[i].user = u /\ row[i].item = x

\* INSERT a row of r's kind and write the increased count; any constraint that fails,
\* and a media row that is gone, makes it an error and rolls everything back.
Insert(r) ==
    LET q == req[r]
        fails == q.user \notin users \/ item[q.on] = "deleted" \/ Taken(q.kind, q.user, q.on)
    IN  /\ ~Blocked(r, q.on)
        /\ \/ /\ fails
              /\ Finish(r, "error")
              /\ UNCHANGED <<count, row>>
           \/ /\ ~fails
              /\ \E i \in Rows :
                    /\ row[i].state = "unused"
                    /\ row' = [row EXCEPT ![i] = [state |-> "live", kind |-> q.kind, user |-> q.user,
                                                  item |-> q.on, type |-> q.type]]
              /\ count' = [count EXCEPT ![q.kind][q.on] = Increased(r, q.on)]
              /\ Finish(r, "ok")
        /\ UNCHANGED <<users, item>>

ToggleOn(r) ==
    /\ req[r].pc = "row" /\ req[r].kind \in {"reaction", "favorite"} /\ req[r].mine = NoRow
    /\ Insert(r)

\* DELETE the row that was read; if it is gone that only logs a warning.  An UPDATE that
\* changes the count of a media row that is gone raises.
ToggleOff(r) ==
    LET q == req[r]
        writes == Decreased(r, q.on) # q.seen[q.on]
    IN  /\ q.pc = "row" /\ q.kind \in {"reaction", "favorite"} /\ q.mine # NoRow /\ q.was = q.type
        /\ writes => ~Blocked(r, q.on)
        /\ \/ /\ writes /\ item[q.on] = "deleted"
              /\ Finish(r, "error")
              /\ UNCHANGED <<count, row>>
           \/ /\ ~(writes /\ item[q.on] = "deleted")
              /\ row' = IF Live(q.mine) THEN [row EXCEPT ![q.mine].state = "withdrawn"] ELSE row
              /\ count' = IF writes THEN [count EXCEPT ![q.kind][q.on] = Decreased(r, q.on)] ELSE count
              /\ Finish(r, "ok")
        /\ UNCHANGED <<users, item>>

\* Mutants: switching the type counts once more; switching writes a withdrawn row back.
SwitchCounted(r) ==
    LET q == req[r]
    IN  /\ q.pc = "row" /\ q.mine # NoRow /\ q.was # q.type /\ Live(q.mine)
        /\ row' = [row EXCEPT ![q.mine].type = q.type]
        /\ count' = [count EXCEPT ![q.kind][q.on] = Increased(r, q.on)]
        /\ Finish(r, "ok")
        /\ UNCHANGED <<users, item>>

SwitchUpsert(r) ==
    LET q == req[r]
    IN  /\ q.pc = "row" /\ q.mine # NoRow /\ q.was # q.type
        /\ row' = [row EXCEPT ![q.mine].type = q.type, ![q.mine].state = "live"]
        /\ Finish(r, "ok")
        /\ UNCHANGED <<users, item, count>>

\* Another type: UPDATE the row; StaleDataError if it is gone.  The count is not written.
Switch(r) ==
    LET q == req[r]
    IN  /\ q.pc = "row" /\ q.mine # NoRow /\ q.was # q.type
        /\ \/ /\ Live(q.mine)
              /\ row' = [row EXCEPT ![q.mine].type = q.type]
              /\ Finish(r, "ok")
           \/ /\ ~Live(q.mine)
              /\ Finish(r, "error")
              /\ UNCHANGED row
        /\ UNCHANGED <<users, item, count>>

-----------------------------------------------------------------------------
(* Comments and views.                                                        *)

AddComment(r) ==
    /\ req[r].pc = "item" /\ req[r].kind = "comment"
    /\ Insert(r)

IncrementView(r) ==
    LET x == req[r].on
    IN  /\ req[r].pc = "item" /\ req[r].kind = "view"
        /\ ~Blocked(r, x)
        /\ \/ /\ item[x] = "deleted"
              /\ Finish(r, "error")
              /\ UNCHANGED count
           \/ /\ item[x] # "deleted"
              /\ count' = [count EXCEPT !["view"][x] = Increased(r, x)]
              /\ Finish(r, "ok")
        /\ UNCHANGED <<users, item, row>>

\* delete_comment loads the comment; own or admin.
ReadComment(r, u, i) ==
    /\ MayStart(r, u)
    /\ row[i].kind = "comment" /\ row[i].state # "unused"
    /\ LET opened == [Opened(u, "comment", row[i].item, NoType, "row") EXCEPT !.mine = i]
       IN  req' = [req EXCEPT ![r] = IF Live(i) /\ (row[i].user = u \/ u \in Admins)
                                       THEN opened ELSE Ended(opened, "refused")]
    /\ UNCHANGED <<users, item, count, row>>

\* The comment's UPDATE is flushed, and waits for another one in flight, before the
\* media row is read.  Nobody asks again whether the comment is already deleted.
LockComment(r) ==
    LET i == req[r].mine
        x == row[i].item
    IN  /\ req[r].pc = "row" /\ req[r].kind = "comment"
        /\ \A q \in Requests : ~(req[q].pc = "locked" /\ req[q].mine = i)
        /\ \/ /\ row[i].user \notin users \/ item[x] = "deleted"
              /\ Finish(r, "error")
           \/ /\ row[i].user \in users /\ item[x] # "deleted"
              /\ req' = [req EXCEPT ![r].pc = "locked", ![r].loaded = {x},
                                    ![r].seen[x] = count["comment"][x]]
        /\ UNCHANGED <<users, item, count, row>>

DeleteComment(r) ==
    LET x == req[r].on
    IN  /\ req[r].pc = "locked"
        /\ Decreased(r, x) # req[r].seen[x] => ~Blocked(r, x)
        /\ row' = [row EXCEPT ![req[r].mine].state = "withdrawn"]
        /\ count' = [count EXCEPT !["comment"][x] =
                       IF Decreased(r, x) # req[r].seen[x] THEN Decreased(r, x) ELSE @]
        /\ Finish(r, "ok")
        /\ UNCHANGED <<users, item>>

-----------------------------------------------------------------------------
(* remove_favorites_bulk: one SELECT of the favorites, then item by item; each  *)
(* session.get flushes the UPDATE of the item before it and keeps its lock.     *)

BulkRead(r, u, xs) ==
    /\ MayStart(r, u)
    /\ xs # {}
    /\ LET todo == {i \in Rows : Live(i) /\ row[i].kind = "favorite" /\ row[i].user = u /\ row[i].item \in xs}
       IN  req' = [req EXCEPT ![r] = [Opened(u, "favorite", NoItem, NoType, "bulk") EXCEPT !.todo = todo]]
    /\ UNCHANGED <<users, item, count, row>>

\* The items whose UPDATE has not been flushed yet.
Unflushed(r) ==
    {x \in req[r].loaded \ req[r].held : Decreased(r, x) # req[r].seen[x]}

\* The flush goes through, or finds a media row gone.
Flushes(r) == \A x \in Unflushed(r) : ~Blocked(r, x) /\ item[x] # "deleted"

\* Mutant: every round of the loop commits.
BulkNextCommits(r, i) ==
    LET x == row[i].item
    IN  /\ req[r].pc = "bulk" /\ i \in req[r].todo /\ Live(i)
        /\ Flushes(r)
        /\ row' = [row EXCEPT ![i].state = "withdrawn"]
        /\ req' = [req EXCEPT ![r].todo = @ \ {i}, ![r].gone = @ \cup {i},
                              ![r].held = @ \cup Unflushed(r),
                              ![r].loaded = IF item[x] # "deleted" THEN @ \cup {x} ELSE @,
                              ![r].seen[x] = count["favorite"][x]]
        /\ UNCHANGED <<users, item, count>>

BulkNext(r, i) ==
    LET x == row[i].item
    IN  /\ req[r].pc = "bulk" /\ i \in req[r].todo
        /\ Flushes(r)
        /\ req' = [req EXCEPT ![r].todo = @ \ {i}, ![r].gone = @ \cup {i},
                              ![r].held = @ \cup Unflushed(r),
                              ![r].loaded = IF item[x] # "deleted" THEN @ \cup {x} ELSE @,
                              ![r].seen[x] = count["favorite"][x]]
        /\ UNCHANGED <<users, item, count, row>>

BulkCommit(r) ==
    LET written == Unflushed(r) \cup req[r].held
    IN  /\ req[r].pc = "bulk" /\ req[r].todo = {}
        /\ Flushes(r)
        /\ row' = [i \in Rows |-> IF i \in req[r].gone /\ Live(i)
                                    THEN [row[i] EXCEPT !.state = "withdrawn"] ELSE row[i]]
        /\ count' = [count EXCEPT !["favorite"] =
                       [x \in Items |-> IF x \in written THEN Decreased(r, x) ELSE @[x]]]
        /\ Finish(r, "ok")
        /\ UNCHANGED <<users, item>>

\* Mutant: a failed flush is retried as it was.
BulkFailsRetried(r) ==
    /\ req[r].pc = "bulk"
    /\ \E x \in Unflushed(r) : item[x] = "deleted"
    /\ UNCHANGED <<users, item, count, row, req>>

\* StaleDataError at a flush.
BulkFails(r) ==
    /\ req[r].pc = "bulk"
    /\ \E x \in Unflushed(r) : item[x] = "deleted"
    /\ Finish(r, "error")
    /\ UNCHANGED <<users, item, count, row>>

WaitsFor(r, q) == req[r].pc = "bulk" /\ q # r /\ \E x \in Unflushed(r) : x \in req[q].held

\* PostgreSQL aborts one of the transactions that wait for each other.
DeadlockAbort(r) ==
    /\ \E waiting \in SUBSET Requests :
          r \in waiting /\ \A p \in waiting : \E q \in waiting : WaitsFor(p, q)
    /\ Finish(r, "error")
    /\ UNCHANGED <<users, item, count, row>>

-----------------------------------------------------------------------------
(* Deletions and moderation, by the item's owner or an admin.  They wait for    *)
(* the rows that requests hold.                                                *)

Unlocked(i) == \A q \in Requests : ~(req[q].pc = "locked" /\ req[q].mine = i)

SetVisibility(x, visible) ==
    /\ item[x] # "deleted" /\ \A q \in Requests : x \notin req[q].held
    /\ item' = [item EXCEPT ![x] = IF visible THEN "shown" ELSE "hidden"]
    /\ UNCHANGED <<users, count, row, req, raced>>

\* The media row takes its counts with it, and ON DELETE CASCADE its rows.
DeleteItem(x) ==
    /\ item[x] # "deleted" /\ \A q \in Requests : x \notin req[q].held
    /\ \A i \in Rows : row[i].item = x => Unlocked(i)
    /\ item' = [item EXCEPT ![x] = "deleted"]
    /\ count' = [kind \in Kinds |-> [count[kind] EXCEPT ![x] = 0]]
    /\ row' = [i \in Rows |-> IF row[i].item = x /\ Live(i)
                                THEN [row[i] EXCEPT !.state = "withdrawn"] ELSE row[i]]
    /\ UNCHANGED <<users, req, raced>>

\* Mutant: accounts are deleted without ON DELETE CASCADE.
DeleteUserAlone(u) ==
    /\ u \in users
    /\ users' = users \ {u}
    /\ UNCHANGED <<item, count, row, req, raced>>

\* An account takes its rows with it, and nobody adjusts the counts.
DeleteUser(u) ==
    /\ u \in users
    /\ \A i \in Rows : row[i].user = u => Unlocked(i)
    /\ users' = users \ {u}
    /\ row' = [i \in Rows |-> IF row[i].user = u /\ Live(i)
                                THEN [row[i] EXCEPT !.state = "lost"] ELSE row[i]]
    /\ raced' = raced \cup UNION {Open(r) \cap Items : r \in Requests}
    /\ UNCHANGED <<item, count, req>>

-----------------------------------------------------------------------------

\* Request r has just opened items that other requests have open.
Meets(r) == raced' = raced \cup {x \in Items \cap Open(r)' : \E q \in Requests \ {r} : x \in Open(q)}

Start(r) ==
    /\ \E u \in Users :
          \/ \E kind \in Kinds, x \in Items, type \in Types \cup {NoType} : ReadItem(r, u, kind, x, type)
          \/ \E i \in Rows : ReadComment(r, u, i)
          \/ \E xs \in SUBSET Items : BulkRead(r, u, xs)
    /\ Meets(r)

Continue(r) ==
    /\ \/ ReadOwn(r) \/ ToggleOn(r) \/ ToggleOff(r) \/ Switch(r)
       \/ AddComment(r) \/ IncrementView(r) \/ LockComment(r) \/ DeleteComment(r)
       \/ \E i \in Rows : BulkNext(r, i)
       \/ BulkCommit(r) \/ BulkFails(r) \/ DeadlockAbort(r)
    /\ UNCHANGED raced

Next ==
    \/ \E r \in Requests : Start(r) \/ Continue(r)
    \/ \E x \in Items : DeleteItem(x) \/ \E visible \in BOOLEAN : SetVisibility(x, visible)
    \/ \E u \in Users : DeleteUser(u)

Spec == Init /\ [][Next]_vars

\* The event loop runs every coroutine whose statement has been answered; the database
\* answers every statement that is not waiting for a lock.
Fairness == \A r \in Requests : WF_vars(Continue(r))

-----------------------------------------------------------------------------
(* Properties.                                                                *)

\* Every variable keeps its type; no count is negative.
TypeOK ==
    /\ users \subseteq Users
    /\ item \in [Items -> {"shown", "hidden", "deleted"}]
    /\ count \in [Kinds -> [Items -> Nat]]
    /\ row \in [Rows -> Row]
    /\ req \in [Requests -> Request]
    /\ raced \subseteq Items

\* At most one reaction and one favorite per guest and item (SC-007), whichever toggles
\* and switches of one guest overlap.
OneRowPerGuest ==
    \A i, j \in Rows :
        /\ Live(i) /\ Live(j) /\ row[i].kind # "comment"
        /\ row[i].kind = row[j].kind /\ row[i].user = row[j].user /\ row[i].item = row[j].item
        => i = j

\* No deletion leaves engagement behind, not even of a request that was in flight: every
\* live row has its account and its item.
EngagementOwned ==
    \A i \in Rows : Live(i) => row[i].user \in users /\ item[row[i].item] # "deleted"

\* Toggles, switches and deletions that overlap leave the rows sound.
EngagementSound == OneRowPerGuest /\ EngagementOwned

\* What was toggled off, deleted or lost never comes back through a request that had
\* read it before.
WithdrawnForever ==
    [][\A i \in Rows : row[i].state \in {"withdrawn", "lost"} => row'[i].state \in {"withdrawn", "lost"}]_vars

\* On an item where no two requests ever met, whatever goes on at other items meanwhile,
\* every count is the number of rows behind it, but for those lost with an account; the
\* views are the views answered.
CountsAccountedFor ==
    \A x \in Items \ raced : item[x] # "deleted" =>
        /\ \A kind \in Counted :
              count[kind][x] = Cardinality({i \in Rows : /\ row[i].state \in {"live", "lost"}
                                                         /\ row[i].kind = kind /\ row[i].item = x})
        /\ count["view"][x] = Cardinality({r \in Requests : /\ req[r].kind = "view" /\ req[r].on = x
                                                            /\ req[r].reply = "ok"})

\* Every request is answered, also when bulk removals lock the items in opposite orders.
EveryRequestEnds ==
    \A r \in Requests : Busy(r) ~> ~Busy(r)

\* The engagement, as the rows and the requests tell it.
LiveRows(kind) == {i \in Rows : Live(i) /\ row[i].kind = kind}
Present == {x \in Items : item[x] # "deleted"}
Reactions == {<<row[i].user, row[i].item, row[i].type>> : i \in LiveRows("reaction")}
Favorites == {<<row[i].user, row[i].item>> : i \in LiveRows("favorite")}
Comments == {<<i, row[i].user, row[i].item>> : i \in LiveRows("comment")}
Calls == [r \in Requests |-> [by |-> req[r].user, kind |-> req[r].kind, on |-> req[r].on]]
Answers == [r \in Requests |-> req[r].reply]

Atomic == INSTANCE Engagement
    WITH CommentIds <- Rows, accounts <- users, media <- Present, reactions <- Reactions,
         favorites <- Favorites, comments <- Comments, call <- Calls, answer <- Answers

\* However the statements of the handlers interleave with each other and with deletions,
\* every request changes the engagement in one step, and only its own guest's on its own
\* item, or not at all when it fails.
ImplementsEngagement == Atomic!Spec
=============================================================================
