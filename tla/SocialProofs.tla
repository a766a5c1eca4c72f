---------------------------- MODULE SocialProofs ----------------------------
(* What holds of Social for any number of guests, items, rows and requests.     *)
EXTENDS Social, FiniteSetTheorems, TLAPS

\* The rows that were ever inserted.
Used == {i \in Rows : row[i].state # "unused"}

\* What a request holds: rows that were inserted, and an item and a guest when it works on
\* one.  A comment is deleted by a request that has read it.
Sound(q, used) ==
    /\ q \in Request
    /\ q.mine # NoRow => q.mine \in used
    /\ q.todo \subseteq used
    /\ q.pc \in {"item", "row", "locked"} => q.on \in Items /\ q.user \in Users
    /\ q.pc = "locked" \/ (q.pc = "row" /\ q.kind = "comment") => q.mine # NoRow

\* TypeOK strengthened so that it is inductive.
ReqOK ==
    /\ req \in [Requests -> Request]
    /\ \A r \in Requests : Sound(req[r], Used)

RowOK ==
    /\ row \in [Rows -> Row]
    /\ \A i \in Used : row[i].user \in Users /\ row[i].item \in Items

CountOK == count \in [Kinds -> [Items -> Nat]]

RestOK ==
    /\ users \subseteq Users
    /\ item \in [Items -> {"shown", "hidden", "deleted"}]
    /\ raced \subseteq Items

TInv == ReqOK /\ RowOK /\ CountOK /\ RestOK

LEMMA OpenedIsSound ==
  ASSUME NEW u \in Users \cup {NoUser}, NEW kind \in Kinds, NEW x \in Items \cup {NoItem},
         NEW type \in Types \cup {NoType}, NEW pc \in {"new", "item", "row", "locked", "bulk", "done"}
  PROVE  /\ Opened(u, kind, x, type, pc) \in Request
         /\ Opened(u, kind, x, type, pc).pc = pc /\ Opened(u, kind, x, type, pc).kind = kind
         /\ Opened(u, kind, x, type, pc).user = u /\ Opened(u, kind, x, type, pc).on = x
         /\ Opened(u, kind, x, type, pc).mine = NoRow /\ Opened(u, kind, x, type, pc).todo = {}
         /\ Opened(u, kind, x, type, pc).seen = [y \in Items |-> 0]
         /\ Opened(u, kind, x, type, pc).gone = {} /\ Opened(u, kind, x, type, pc).loaded = {}
         /\ Opened(u, kind, x, type, pc).held = {} /\ Opened(u, kind, x, type, pc).reply = "none"
<1> DEFINE zero == [y \in Items |-> 0]
<1>1. zero \in [Items -> Nat]
  OBVIOUS
<1> HIDE DEF zero
<1>2. Opened(u, kind, x, type, pc) =
        [pc |-> pc, kind |-> kind, user |-> u, on |-> x, type |-> type,
         mine |-> NoRow, was |-> NoType, todo |-> {}, gone |-> {}, loaded |-> {},
         seen |-> zero, held |-> {}, reply |-> "none"]
  BY DEF Opened, zero
<1>3. Opened(u, kind, x, type, pc) \in Request
  BY <1>1, <1>2 DEF Request
<1>4. Opened(u, kind, x, type, pc).seen = zero
  BY <1>2
<1> QED
  BY <1>2, <1>3, <1>4 DEF zero

LEMMA EndedIsSound ==
  ASSUME NEW q, NEW used, Sound(q, used), NEW reply \in {"ok", "refused", "error"}
  PROVE  Sound(Ended(q, reply), used)
BY DEF Ended, Sound, Request

LEMMA SoundGrows ==
  ASSUME NEW q, NEW used, NEW more, used \subseteq more, Sound(q, used)
  PROVE  Sound(q, more)
BY DEF Sound

LEMMA TypeInit == Init => TInv
<1> SUFFICES ASSUME Init PROVE TInv
  OBVIOUS
<1>1. NewRow \in Row /\ NewRow.state = "unused"
  BY DEF NewRow, Row, Kinds
<1>2. RowOK /\ Used = {}
  BY <1>1 DEF Init, RowOK, Used
<1>3. ReqOK
  <2>1. Sound(Opened(NoUser, "view", NoItem, NoType, "new"), {})
    <3> DEFINE o == Opened(NoUser, "view", NoItem, NoType, "new")
    <3>0. /\ NoUser \in Users \cup {NoUser} /\ NoItem \in Items \cup {NoItem}
          /\ NoType \in Types \cup {NoType} /\ "view" \in Kinds
      BY DEF Kinds
    <3>1. o \in Request /\ o.pc = "new" /\ o.mine = NoRow /\ o.todo = {}
      BY <3>0, OpenedIsSound, SMT
    <3> HIDE DEF o
    <3>2. Sound(o, {})
      BY <3>1 DEF Sound
    <3> QED
      BY <3>2 DEF o
  <2> QED
    BY <1>2, <2>1 DEF Init, ReqOK, Sound
<1>4. CountOK /\ RestOK
  BY DEF Init, CountOK, RestOK
<1> QED
  BY <1>2, <1>3, <1>4 DEF TInv

-----------------------------------------------------------------------------
(* What a step does to the requests.                                           *)

LEMMA ReadStep ==
  ASSUME TInv, NEW r \in Requests, NEW u \in Users, NEW kind \in Kinds, NEW x \in Items,
         NEW type \in Types \cup {NoType}, ReadItem(r, u, kind, x, type)
  PROVE  \E new : Sound(new, Used) /\ req' = [req EXCEPT ![r] = new]
<1> DEFINE o == Opened(u, kind, x, type, "item")
           new == [o EXCEPT !.loaded = {x}, !.seen[x] = count[kind][x]]
<1>1. /\ o \in Request /\ o.pc = "item" /\ o.mine = NoRow /\ o.todo = {} /\ o.on = x /\ o.user = u
  BY OpenedIsSound
<1>2. count[kind][x] \in Nat
  BY DEF TInv, CountOK
<1> HIDE DEF o
<1>3. Sound(new, Used)
  BY <1>1, <1>2 DEF Sound, Request
<1>4. req' = [req EXCEPT ![r] = IF item[x] = "shown" THEN new ELSE Ended(new, "refused")]
  BY DEF ReadItem, o
<1> HIDE DEF new
<1>5. Sound(Ended(new, "refused"), Used)
  BY <1>3, EndedIsSound
<1> QED
  BY <1>3, <1>4, <1>5

LEMMA CommentStep ==
  ASSUME TInv, NEW r \in Requests, NEW u \in Users, NEW i \in Rows, ReadComment(r, u, i)
  PROVE  \E new : Sound(new, Used) /\ req' = [req EXCEPT ![r] = new]
<1> DEFINE o == Opened(u, "comment", row[i].item, NoType, "row")
           new == [o EXCEPT !.mine = i]
<1>1. i \in Used /\ row[i].item \in Items
  BY DEF ReadComment, TInv, RowOK, Used
<1>2. /\ o \in Request /\ o.pc = "row" /\ o.todo = {} /\ o.on = row[i].item /\ o.user = u
  BY <1>1, OpenedIsSound DEF Kinds, Counted
<1> HIDE DEF o
<1>3. Sound(new, Used)
  BY <1>1, <1>2, ConstantsAssumption DEF Sound, Request
<1>4. \/ req' = [req EXCEPT ![r] = new]
      \/ req' = [req EXCEPT ![r] = Ended(new, "refused")]
  BY DEF ReadComment, o
<1> HIDE DEF new
<1>5. Sound(Ended(new, "refused"), Used)
  BY <1>3, EndedIsSound
<1> QED
  BY <1>3, <1>4, <1>5

LEMMA BulkStep ==
  ASSUME TInv, NEW r \in Requests, NEW u \in Users, NEW xs \in SUBSET Items, BulkRead(r, u, xs)
  PROVE  \E new : Sound(new, Used) /\ req' = [req EXCEPT ![r] = new]
<1> DEFINE o == Opened(u, "favorite", NoItem, NoType, "bulk")
           todo == {i \in Rows : Live(i) /\ row[i].kind = "favorite" /\ row[i].user = u /\ row[i].item \in xs}
           new == [o EXCEPT !.todo = todo]
<1>1. todo \subseteq Used
  BY DEF Live, Used
<1>2. /\ o \in Request /\ o.pc = "bulk" /\ o.mine = NoRow
  <2>1. /\ u \in Users \cup {NoUser} /\ NoItem \in Items \cup {NoItem}
        /\ NoType \in Types \cup {NoType} /\ "favorite" \in Kinds
    BY DEF Kinds, Counted
  <2> QED
    BY <2>1, OpenedIsSound, SMT
<1>3. req' = [req EXCEPT ![r] = new]
  BY DEF BulkRead
<1> HIDE DEF o, todo
<1>4. Sound(new, Used)
  BY <1>1, <1>2 DEF Sound, Request, Used
<1> QED
  BY <1>3, <1>4

LEMMA NextItemStep ==
  ASSUME TInv, NEW r \in Requests, NEW i \in Rows, BulkNext(r, i)
  PROVE  \E new : Sound(new, Used) /\ req' = [req EXCEPT ![r] = new]
<1> DEFINE q == req[r]
           x == row[i].item
           loaded == IF item[x] # "deleted" THEN q.loaded \cup {x} ELSE q.loaded
           held == q.held \cup Unflushed(r)
           new == [q EXCEPT !.todo = @ \ {i}, !.gone = @ \cup {i}, !.held = held,
                            !.loaded = loaded, !.seen[x] = count["favorite"][x]]
<1>1. q \in Request /\ Sound(q, Used) /\ q.pc = "bulk"
  BY DEF TInv, ReqOK, BulkNext
<1>2. x \in Items /\ count["favorite"][x] \in Nat
  <2>1. i \in Used
    BY <1>1 DEF BulkNext, Sound
  <2> QED
    BY <2>1 DEF TInv, RowOK, CountOK, Kinds, Counted
<1>3. loaded \subseteq Items /\ held \subseteq Items
  BY <1>1, <1>2 DEF Unflushed, Request
<1>4. req' = [req EXCEPT ![r] = new]
  <2>1. req \in [Requests -> Request]
    BY DEF TInv, ReqOK
  <2>2. req' = [req EXCEPT ![r].todo = @ \ {i}, ![r].gone = @ \cup {i}, ![r].held = @ \cup Unflushed(r),
                           ![r].loaded = IF item[x] # "deleted" THEN @ \cup {x} ELSE @,
                           ![r].seen[x] = count["favorite"][x]]
    BY DEF BulkNext
  <2> QED
    BY <1>1, <2>1, <2>2 DEF Request
<1> HIDE DEF q, x, loaded, held
<1>5. Sound(new, Used)
  BY <1>1, <1>2, <1>3 DEF Sound, Request
<1> QED
  BY <1>4, <1>5

LEMMA ReqStep ==
  ASSUME TInv, NEW r \in Requests, Start(r) \/ Continue(r)
  PROVE  \E new : Sound(new, Used) /\ req' = [req EXCEPT ![r] = new]
<1>0. req \in [Requests -> Request] /\ req[r] \in Request /\ Sound(req[r], Used)
  BY DEF TInv, ReqOK
<1>1. CASE Start(r)
  BY <1>1, ReadStep, CommentStep, BulkStep DEF Start
<1>2. ASSUME NEW reply \in {"ok", "refused", "error"}, Finish(r, reply)
      PROVE  \E new : Sound(new, Used) /\ req' = [req EXCEPT ![r] = new]
  BY <1>0, <1>2, EndedIsSound DEF Finish
<1>3. CASE ReadOwn(r)
  <2>1. CASE req' = [req EXCEPT ![r].pc = "row"]
    <3>1. Sound([req[r] EXCEPT !.pc = "row"], Used)
      BY <1>0, <1>3 DEF Sound, Request, ReadOwn
    <3> QED
      BY <1>0, <2>1, <3>1
  <2>2. ASSUME NEW i \in Rows, Live(i),
               req' = [req EXCEPT ![r].pc = "row", ![r].mine = i, ![r].was = row[i].type]
        PROVE  \E new : Sound(new, Used) /\ req' = [req EXCEPT ![r] = new]
    <3>1. i \in Used /\ row[i].type \in Types \cup {NoType}
      BY <2>2 DEF Live, Used, TInv, RowOK, Row
    <3>2. Sound([req[r] EXCEPT !.pc = "row", !.mine = i, !.was = row[i].type], Used)
      BY <1>0, <1>3, <3>1 DEF Sound, Request, ReadOwn
    <3> QED
      BY <1>0, <2>2, <3>2
  <2> QED
    BY <1>3, <2>1, <2>2 DEF ReadOwn
<1>4. CASE LockComment(r)
  <2>1. CASE Finish(r, "error")
    BY <1>2, <2>1
  <2>2. CASE req' = [req EXCEPT ![r].pc = "locked", ![r].loaded = {row[req[r].mine].item},
                                ![r].seen[row[req[r].mine].item] = count["comment"][row[req[r].mine].item]]
    <3> DEFINE x == row[req[r].mine].item
    <3>1. req[r].mine # NoRow /\ req[r].on \in Items /\ req[r].user \in Users
      BY <1>0, <1>4 DEF LockComment, Sound
    <3>2. x \in Items /\ count["comment"][x] \in Nat
      BY <1>0, <3>1 DEF Sound, TInv, RowOK, CountOK, Kinds, Counted
    <3>3. req' = [req EXCEPT ![r] = [req[r] EXCEPT !.pc = "locked", !.loaded = {x}, !.seen[x] = count["comment"][x]]]
      BY <1>0, <2>2
    <3> HIDE DEF x
    <3>4. Sound([req[r] EXCEPT !.pc = "locked", !.loaded = {x}, !.seen[x] = count["comment"][x]], Used)
      BY <1>0, <3>1, <3>2 DEF Sound, Request
    <3> QED
      BY <3>3, <3>4
  <2> QED
    BY <1>4, <2>1, <2>2 DEF LockComment
<1>5. CASE \E i \in Rows : BulkNext(r, i)
  BY <1>5, NextItemStep
<1>6. ASSUME \/ ToggleOn(r) \/ ToggleOff(r) \/ Switch(r) \/ AddComment(r) \/ IncrementView(r)
             \/ DeleteComment(r) \/ BulkCommit(r) \/ BulkFails(r) \/ DeadlockAbort(r)
      PROVE  Finish(r, "ok") \/ Finish(r, "error")
  BY <1>6 DEF ToggleOn, AddComment, Insert, ToggleOff, Switch, IncrementView, DeleteComment, BulkCommit, BulkFails,
      DeadlockAbort
<1> QED
  BY <1>1, <1>2, <1>3, <1>4, <1>5, <1>6 DEF Continue

-----------------------------------------------------------------------------
(* What a step does to the rows.                                               *)

\* A row goes, with what it says but for its state; or a live row changes its type.
Gone(i) ==
    /\ row[i].state # "unused" /\ row'[i] \in Row /\ row'[i].state \in {"withdrawn", "lost"}
    /\ row'[i].kind = row[i].kind /\ row'[i].user = row[i].user /\ row'[i].item = row[i].item

Retyped(i) ==
    /\ Live(i) /\ row'[i] \in Row /\ row'[i].state = "live"
    /\ row'[i].kind = row[i].kind /\ row'[i].user = row[i].user /\ row'[i].item = row[i].item

RowsKept ==
    /\ row' \in [Rows -> Row]
    /\ \A i \in Rows : row'[i] = row[i] \/ Gone(i) \/ Retyped(i)

\* A request inserts a row: the guest and the item are there, and no constraint fails.
RowInserted ==
    \E i \in Rows, new \in Row :
        /\ row[i].state = "unused" /\ row' = [row EXCEPT ![i] = new]
        /\ new.state = "live" /\ new.user \in users /\ new.item \in Items
        /\ item[new.item] # "deleted" /\ ~Taken(new.kind, new.user, new.item)

\* What the rows refer to.
NothingGone == users' = users /\ \A x \in Items : item'[x] = "deleted" => item[x] = "deleted"

UserGone(u) ==
    /\ users' = users \ {u} /\ item' = item
    /\ \A i \in Rows : row'[i].state = "live" => row[i].user # u

ItemGone(x) ==
    /\ users' = users /\ \A y \in Items \ {x} : item'[y] = item[y]
    /\ \A i \in Rows : row'[i].state = "live" => row[i].item # x

LEMMA Withdraws ==
  ASSUME NEW k \in Row, NEW s \in {"withdrawn", "lost"}
  PROVE  /\ [k EXCEPT !.state = s] \in Row /\ [k EXCEPT !.state = s].state = s
         /\ [k EXCEPT !.state = s].user = k.user /\ [k EXCEPT !.state = s].item = k.item
         /\ [k EXCEPT !.state = s].kind = k.kind
BY DEF Row

LEMMA InsertWrites ==
  ASSUME TInv, NEW r \in Requests, Insert(r), req[r].pc \in {"item", "row"}
  PROVE  RowsKept \/ RowInserted
<1> DEFINE q == req[r]
           new == [state |-> "live", kind |-> q.kind, user |-> q.user, item |-> q.on, type |-> q.type]
<1>1. q \in Request /\ q.on \in Items /\ q.user \in Users
  BY DEF TInv, ReqOK, Sound
<1>2. new \in Row /\ new.state = "live" /\ new.kind = q.kind /\ new.user = q.user /\ new.item = q.on
  BY <1>1 DEF Request, Row
<1>3. \/ row' = row
      \/ /\ q.user \in users /\ item[q.on] # "deleted" /\ ~Taken(q.kind, q.user, q.on)
         /\ \E i \in Rows : row[i].state = "unused" /\ row' = [row EXCEPT ![i] = new]
  BY DEF Insert
<1> HIDE DEF q, new
<1>4. CASE row' = row
  BY <1>4 DEF TInv, RowOK, RowsKept
<1>5. CASE row' # row
  BY <1>1, <1>2, <1>3, <1>5 DEF RowInserted
<1> QED
  BY <1>4, <1>5

\* Opening a request only reads.
LEMMA StartKeeps ==
  ASSUME NEW r \in Requests, Start(r)
  PROVE  UNCHANGED <<users, item, count, row>>
<1>1. ASSUME NEW u \in Users, NEW kind \in Kinds, NEW x \in Items, NEW type \in Types \cup {NoType},
             ReadItem(r, u, kind, x, type)
      PROVE  UNCHANGED <<users, item, count, row>>
  BY <1>1 DEF ReadItem
<1>2. ASSUME NEW u \in Users, NEW i \in Rows, ReadComment(r, u, i) PROVE UNCHANGED <<users, item, count, row>>
  BY <1>2 DEF ReadComment
<1>3. ASSUME NEW u \in Users, NEW xs \in SUBSET Items, BulkRead(r, u, xs) PROVE UNCHANGED <<users, item, count, row>>
  BY <1>3 DEF BulkRead
<1> QED
  BY <1>1, <1>2, <1>3 DEF Start

LEMMA RequestWrites ==
  ASSUME TInv, NEW r \in Requests, Start(r) \/ Continue(r)
  PROVE  RowsKept \/ RowInserted
<1>0. /\ row \in [Rows -> Row] /\ req[r] \in Request /\ Sound(req[r], Used)
  BY DEF TInv, RowOK, ReqOK
<1>1. CASE row' = row
  BY <1>0, <1>1 DEF RowsKept
<1>2. CASE ToggleOn(r) \/ AddComment(r)
  BY <1>2, InsertWrites DEF ToggleOn, AddComment
<1>3. ASSUME NEW i \in Rows, row[i].state # "unused", row' = [row EXCEPT ![i].state = "withdrawn"]
      PROVE  RowsKept
  <2>1. row' = [row EXCEPT ![i] = [row[i] EXCEPT !.state = "withdrawn"]]
    BY <1>0, <1>3
  <2>2. row'[i] \in Row /\ Gone(i)
    <3>1. /\ [row[i] EXCEPT !.state = "withdrawn"] \in Row
          /\ [row[i] EXCEPT !.state = "withdrawn"].state = "withdrawn"
          /\ [row[i] EXCEPT !.state = "withdrawn"].user = row[i].user
          /\ [row[i] EXCEPT !.state = "withdrawn"].item = row[i].item
          /\ [row[i] EXCEPT !.state = "withdrawn"].kind = row[i].kind
      BY <1>0, Withdraws
    <3> QED
      BY <1>0, <1>3, <2>1, <3>1 DEF Gone
  <2> QED
    BY <1>0, <2>1, <2>2 DEF RowsKept
<1>4. CASE ToggleOff(r)
  <2>1. req[r].mine \in Rows
    BY <1>0, <1>4 DEF ToggleOff, Request
  <2> QED
    BY <1>1, <1>3, <1>4, <2>1 DEF ToggleOff, Live
<1>5. CASE DeleteComment(r)
  <2>1. req[r].mine \in Used
    BY <1>0, <1>5 DEF DeleteComment, Sound
  <2> QED
    BY <1>3, <1>5, <2>1 DEF DeleteComment, Used
<1>6. CASE Switch(r)
  <2>1. req[r].mine \in Rows /\ req[r].type \in Types \cup {NoType}
    BY <1>0, <1>6 DEF Switch, Request
  <2>2. CASE row' # row
    <3> DEFINE i == req[r].mine
               new == [row[i] EXCEPT !.type = req[r].type]
    <3>1. row' = [row EXCEPT ![i] = new] /\ Live(i)
      BY <1>0, <1>6, <2>1, <2>2 DEF Switch
    <3>2. /\ new \in Row /\ new.state = row[i].state /\ new.kind = row[i].kind
          /\ new.user = row[i].user /\ new.item = row[i].item
      BY <1>0, <2>1 DEF Row
    <3> HIDE DEF new
    <3>3. row'[i] = new /\ Retyped(i)
      BY <1>0, <2>1, <3>1, <3>2 DEF Retyped, Live
    <3> QED
      BY <1>0, <2>1, <3>1, <3>2, <3>3 DEF RowsKept
  <2> QED
    BY <1>1, <2>2
<1>7. CASE BulkCommit(r)
  <2>1. row' \in [Rows -> Row]
    BY <1>0, <1>7, Withdraws DEF BulkCommit
  <2>2. ASSUME NEW i \in Rows PROVE row'[i] = row[i] \/ Gone(i)
    BY <1>0, <1>7, <2>2, Withdraws DEF BulkCommit, Gone, Live
  <2> QED
    BY <2>1, <2>2 DEF RowsKept
<1>8. ASSUME \/ ReadOwn(r) \/ IncrementView(r) \/ LockComment(r) \/ BulkFails(r) \/ DeadlockAbort(r)
             \/ \E i \in Rows : BulkNext(r, i)
      PROVE  row' = row
  BY <1>8 DEF ReadOwn, IncrementView, LockComment, BulkFails, DeadlockAbort, BulkNext
<1> QED
  BY <1>1, <1>2, <1>4, <1>5, <1>6, <1>7, <1>8, StartKeeps DEF Continue

LEMMA RequestRefs ==
  ASSUME NEW r \in Requests, Start(r) \/ Continue(r)
  PROVE  users' = users /\ item' = item
BY StartKeeps DEF Continue, ReadOwn, ToggleOn, Insert, ToggleOff, Switch, AddComment, IncrementView, LockComment,
    DeleteComment, BulkNext, BulkCommit, BulkFails, DeadlockAbort

\* Every step either keeps what the rows refer to, and then it may insert one, or takes an
\* account or an item with the rows that refer to it.
LEMMA Writers ==
  TInv /\ [Next]_vars =>
    \/ NothingGone /\ (RowsKept \/ RowInserted)
    \/ RowsKept /\ \E u \in Users : UserGone(u)
    \/ RowsKept /\ \E x \in Items : ItemGone(x)
<1> SUFFICES ASSUME TInv, [Next]_vars
             PROVE  \/ NothingGone /\ (RowsKept \/ RowInserted)
                    \/ RowsKept /\ \E u \in Users : UserGone(u)
                    \/ RowsKept /\ \E x \in Items : ItemGone(x)
  OBVIOUS
<1>0. row \in [Rows -> Row] /\ item \in [Items -> {"shown", "hidden", "deleted"}]
  BY DEF TInv, RowOK, RestOK
<1>1. ASSUME NEW r \in Requests, Start(r) \/ Continue(r) PROVE NothingGone /\ (RowsKept \/ RowInserted)
  BY <1>1, RequestWrites, RequestRefs DEF NothingGone
<1>2. ASSUME NEW x \in Items, NEW visible \in BOOLEAN, SetVisibility(x, visible) PROVE NothingGone /\ RowsKept
  BY <1>0, <1>2 DEF SetVisibility, NothingGone, RowsKept
<1>3. ASSUME NEW x \in Items, DeleteItem(x) PROVE RowsKept /\ ItemGone(x)
  <2>1. row' \in [Rows -> Row]
    BY <1>0, <1>3, Withdraws DEF DeleteItem
  <2>2. ASSUME NEW i \in Rows
        PROVE  (row'[i] = row[i] \/ Gone(i)) /\ (row'[i].state = "live" => row[i].item # x)
    BY <1>0, <1>3, Withdraws DEF DeleteItem, Gone, Live
  <2>3. users' = users /\ \A y \in Items \ {x} : item'[y] = item[y]
    BY <1>0, <1>3 DEF DeleteItem
  <2> QED
    BY <2>1, <2>2, <2>3 DEF RowsKept, ItemGone
<1>4. ASSUME NEW u \in Users, DeleteUser(u) PROVE RowsKept /\ UserGone(u)
  <2>1. row' \in [Rows -> Row]
    BY <1>0, <1>4, Withdraws DEF DeleteUser
  <2>2. ASSUME NEW i \in Rows
        PROVE  (row'[i] = row[i] \/ Gone(i)) /\ (row'[i].state = "live" => row[i].user # u)
    BY <1>0, <1>4, Withdraws DEF DeleteUser, Gone, Live
  <2>3. users' = users \ {u} /\ item' = item
    BY <1>4 DEF DeleteUser
  <2> QED
    BY <2>1, <2>2, <2>3 DEF RowsKept, UserGone
<1>5. CASE UNCHANGED vars
  BY <1>0, <1>5 DEF vars, NothingGone, RowsKept
<1> QED
  BY <1>1, <1>2, <1>3, <1>4, <1>5 DEF Next

-----------------------------------------------------------------------------
(* Theorems.                                                                  *)

\* The counts are written from what a request has seen.
LEMMA CountStep ==
  ASSUME TInv, NEW r \in Requests, Start(r) \/ Continue(r)
  PROVE  CountOK'
<1>0. /\ count \in [Kinds -> [Items -> Nat]] /\ req[r] \in Request /\ Sound(req[r], Used)
  BY DEF TInv, CountOK, ReqOK
<1>1. ASSUME NEW x \in Items PROVE Increased(r, x) \in Nat /\ Decreased(r, x) \in Nat
  <2>1. req[r].seen[x] \in Nat
    BY <1>0 DEF Request
  <2> QED
    BY <2>1 DEF Increased, Decreased
<1>2. ASSUME NEW kind \in Kinds, NEW x \in Items, NEW n \in Nat, count' = [count EXCEPT ![kind][x] = n]
      PROVE  CountOK'
  BY <1>0, <1>2 DEF CountOK
<1>3. CASE count' = count
  BY <1>0, <1>3 DEF CountOK
<1>4. CASE ToggleOn(r) \/ AddComment(r) \/ ToggleOff(r) \/ IncrementView(r)
  <2>1. req[r].kind \in Kinds /\ req[r].on \in Items
    BY <1>0, <1>4 DEF Sound, Request, ToggleOn, AddComment, ToggleOff, IncrementView
  <2>2. "view" \in Kinds
    BY DEF Kinds
  <2>3. CASE ToggleOn(r) \/ AddComment(r)
    BY <1>1, <1>2, <1>3, <2>1, <2>3 DEF ToggleOn, AddComment, Insert
  <2>4. CASE ToggleOff(r)
    BY <1>1, <1>2, <1>3, <2>1, <2>4 DEF ToggleOff
  <2>5. CASE IncrementView(r)
    BY <1>1, <1>2, <1>3, <2>1, <2>2, <2>5 DEF IncrementView
  <2> QED
    BY <1>4, <2>3, <2>4, <2>5
<1>5. CASE DeleteComment(r)
  <2> DEFINE x == req[r].on
             n == IF Decreased(r, x) # req[r].seen[x] THEN Decreased(r, x) ELSE count["comment"][x]
  <2>1. x \in Items /\ "comment" \in Kinds
    BY <1>0, <1>5 DEF Sound, DeleteComment, Kinds, Counted
  <2>2. n \in Nat /\ count' = [count EXCEPT !["comment"][x] = n]
    BY <1>0, <1>1, <1>5, <2>1 DEF DeleteComment
  <2> QED
    BY <1>2, <2>1, <2>2
<1>6. CASE BulkCommit(r)
  <2>1. ASSUME NEW written \in SUBSET Items,
               count' = [count EXCEPT !["favorite"] =
                           [x \in Items |-> IF x \in written THEN Decreased(r, x) ELSE @[x]]]
        PROVE  CountOK'
    <3>1. "favorite" \in Kinds
      BY DEF Kinds, Counted
    <3>2. [x \in Items |-> IF x \in written THEN Decreased(r, x) ELSE count["favorite"][x]] \in [Items -> Nat]
      BY <1>0, <1>1, <3>1
    <3> QED
      BY <1>0, <2>1, <3>1, <3>2 DEF CountOK
  <2>2. Unflushed(r) \cup req[r].held \subseteq Items
    BY <1>0 DEF Unflushed, Request
  <2> QED
    BY <1>6, <2>1, <2>2 DEF BulkCommit
<1>7. ASSUME \/ ReadOwn(r) \/ Switch(r) \/ LockComment(r) \/ BulkFails(r) \/ DeadlockAbort(r)
             \/ \E i \in Rows : BulkNext(r, i)
      PROVE  count' = count
  BY <1>7 DEF ReadOwn, Switch, LockComment, BulkFails, DeadlockAbort, BulkNext
<1> QED
  BY <1>3, <1>4, <1>5, <1>6, <1>7, StartKeeps DEF Continue

LEMMA RowTypeStep == TInv /\ [Next]_vars => RowOK' /\ Used \subseteq Used'
<1> SUFFICES ASSUME TInv, [Next]_vars PROVE RowOK' /\ Used \subseteq Used'
  OBVIOUS
<1>0. /\ row \in [Rows -> Row] /\ users \subseteq Users
      /\ \A i \in Used : row[i].user \in Users /\ row[i].item \in Items
  BY DEF TInv, RowOK, RestOK
<1>1. CASE RowsKept
  BY <1>0, <1>1 DEF RowsKept, RowOK, Used, Gone, Retyped, Live
<1>2. CASE RowInserted
  BY <1>0, <1>2 DEF RowInserted, RowOK, Used
<1> QED
  BY <1>1, <1>2, Writers

LEMMA TypeStep == TInv /\ [Next]_vars => TInv'
<1> SUFFICES ASSUME TInv, [Next]_vars PROVE TInv'
  OBVIOUS
<1>0. /\ req \in [Requests -> Request] /\ \A r \in Requests : Sound(req[r], Used)
      /\ RowOK' /\ Used \subseteq Used'
  BY RowTypeStep DEF TInv, ReqOK
<1>1. ASSUME NEW r \in Requests, Start(r) \/ Continue(r) PROVE TInv'
  <2>1. PICK new : Sound(new, Used) /\ req' = [req EXCEPT ![r] = new]
    BY <1>1, ReqStep
  <2>2. \A q \in Requests : Sound(req'[q], Used)
    BY <1>0, <2>1
  <2>3. \A q \in Requests : Sound(req'[q], Used')
    BY <1>0, <2>2, SoundGrows
  <2>4. ReqOK'
    BY <1>0, <2>1, <2>3 DEF ReqOK, Sound
  <2>5. raced' \subseteq Items
    BY <1>1 DEF Start, Meets, Continue, TInv, RestOK
  <2>6. RestOK'
    BY <1>1, <2>5, RequestRefs DEF TInv, RestOK
  <2> QED
    BY <1>0, <1>1, <2>4, <2>6, CountStep DEF TInv
<1>2. ASSUME req' = req, RestOK', CountOK' PROVE TInv'
  <2>1. \A q \in Requests : Sound(req'[q], Used')
    BY <1>0, <1>2, SoundGrows
  <2> QED
    BY <1>0, <1>2, <2>1 DEF TInv, ReqOK
<1>3. ASSUME NEW x \in Items, NEW visible \in BOOLEAN, SetVisibility(x, visible) PROVE TInv'
  BY <1>2, <1>3 DEF SetVisibility, TInv, RestOK, CountOK
<1>4. ASSUME NEW x \in Items, DeleteItem(x) PROVE TInv'
  BY <1>2, <1>4 DEF DeleteItem, TInv, RestOK, CountOK
<1>5. ASSUME NEW u \in Users, DeleteUser(u) PROVE TInv'
  <2>1. raced' \subseteq Items
    BY <1>5 DEF DeleteUser, TInv, RestOK
  <2> QED
    BY <1>2, <1>5, <2>1 DEF DeleteUser, TInv, RestOK, CountOK
<1>6. CASE UNCHANGED vars
  BY <1>2, <1>6 DEF vars, TInv, RestOK, CountOK
<1> QED
  BY <1>1, <1>3, <1>4, <1>5, <1>6 DEF Next

\* Every variable keeps its type; no count is ever negative.
THEOREM TypeCorrect == Spec => []TypeOK
<1>1. TInv => TypeOK
  BY DEF TInv, ReqOK, RowOK, CountOK, RestOK, TypeOK
<1> QED
  BY <1>1, TypeInit, TypeStep, PTL DEF Spec

LEMMA UniqueStep == TInv /\ OneRowPerGuest /\ [Next]_vars => OneRowPerGuest'
<1> SUFFICES ASSUME TInv, OneRowPerGuest, [Next]_vars PROVE OneRowPerGuest'
  OBVIOUS
<1>0. row \in [Rows -> Row]
  BY DEF TInv, RowOK
<1>1. CASE RowsKept
  <2>1. \A i \in Rows : row'[i].state = "live" =>
           /\ Live(i) /\ row'[i].kind = row[i].kind /\ row'[i].user = row[i].user /\ row'[i].item = row[i].item
    BY <1>1 DEF RowsKept, Gone, Retyped, Live
  <2> QED
    BY <2>1 DEF OneRowPerGuest, Live
<1>2. CASE RowInserted
  BY <1>0, <1>2 DEF RowInserted, OneRowPerGuest, Live, Taken
<1> QED
  BY <1>1, <1>2, Writers

LEMMA OwnedStep == TInv /\ EngagementOwned /\ [Next]_vars => EngagementOwned'
<1> SUFFICES ASSUME TInv, EngagementOwned, [Next]_vars PROVE EngagementOwned'
  OBVIOUS
<1>0. row \in [Rows -> Row] /\ \A i \in Rows : Live(i) => row[i].item \in Items
  BY DEF TInv, RowOK, Used, Live
<1>1. ASSUME RowsKept
      PROVE  \A i \in Rows : row'[i].state = "live" =>
                Live(i) /\ row'[i].user = row[i].user /\ row'[i].item = row[i].item
  BY <1>1 DEF RowsKept, Gone, Retyped, Live
<1>2. CASE NothingGone /\ RowsKept
  BY <1>0, <1>1, <1>2 DEF NothingGone, EngagementOwned, Live
<1>3. CASE NothingGone /\ RowInserted
  BY <1>0, <1>3 DEF NothingGone, RowInserted, EngagementOwned, Live
<1>4. ASSUME RowsKept, NEW u \in Users, UserGone(u) PROVE EngagementOwned'
  BY <1>1, <1>4 DEF UserGone, EngagementOwned, Live
<1>5. ASSUME RowsKept, NEW x \in Items, ItemGone(x) PROVE EngagementOwned'
  BY <1>0, <1>1, <1>5 DEF ItemGone, EngagementOwned, Live
<1> QED
  BY <1>2, <1>3, <1>4, <1>5, Writers

\* A guest has at most one reaction and one favorite on an item, and no live row outlives
\* its account or its item, whichever requests of whomever overlap.
THEOREM EngagementIsSound == Spec => []EngagementSound
<1>1. Init => OneRowPerGuest /\ EngagementOwned
  BY DEF Init, NewRow, Live, OneRowPerGuest, EngagementOwned
<1>2. TInv /\ OneRowPerGuest /\ EngagementOwned /\ [Next]_vars => OneRowPerGuest' /\ EngagementOwned'
  BY UniqueStep, OwnedStep
<1> QED
  BY <1>1, <1>2, TypeInit, TypeStep, PTL DEF Spec, EngagementSound

\* What is withdrawn or lost stays so, also under a request that read it while it was live.
THEOREM WithdrawalIsForever == Spec => WithdrawnForever
<1>1. ASSUME TInv, [Next]_vars, NEW i \in Rows, row[i].state \in {"withdrawn", "lost"}
      PROVE  row'[i].state \in {"withdrawn", "lost"}
  <2>1. CASE RowsKept
    BY <1>1, <2>1 DEF RowsKept, Gone, Retyped, Live
  <2>2. CASE RowInserted
    BY <1>1, <2>2 DEF RowInserted, TInv, RowOK
  <2> QED
    BY <1>1, <2>1, <2>2, Writers
<1>2. TInv /\ [Next]_vars =>
        [\A i \in Rows : row[i].state \in {"withdrawn", "lost"} => row'[i].state \in {"withdrawn", "lost"}]_vars
  BY <1>1
<1> QED
  BY <1>2, TypeInit, TypeStep, PTL DEF Spec, WithdrawnForever

-----------------------------------------------------------------------------
(* The counts.  They are exact at an item that no two requests have met at, and  *)
(* to show it one must know what the request that has such an item open has read *)
(* of it.                                                                       *)

Behind(kind, x) ==
    {i \in Rows : row[i].state \in {"live", "lost"} /\ row[i].kind = kind /\ row[i].item = x}

Viewed(x) == {r \in Requests : req[r].kind = "view" /\ req[r].on = x /\ req[r].reply = "ok"}

Exact(x) ==
    /\ \A kind \in Counted : count[kind][x] = Cardinality(Behind(kind, x))
    /\ count["view"][x] = Cardinality(Viewed(x))

\* What a request holds, whatever others do: a row of its own kind on its own item, or, for
\* a bulk removal, favorites of its guest, the items of which it loads one by one.
Facts(r) ==
    LET q == req[r] IN
    /\ q.pc # "done" => q.reply = "none"
    /\ q.pc \in {"item", "row", "locked"} => q.todo = {} /\ q.gone = {}
    /\ q.pc = "row" => q.kind # "view"
    /\ q.pc = "locked" => q.kind = "comment"
    /\ q.pc = "item" => q.mine = NoRow
    /\ q.pc \in {"row", "locked"} /\ q.mine # NoRow => row[q.mine].item = q.on /\ row[q.mine].kind = q.kind
    /\ q.pc = "bulk" =>
          /\ q.on = NoItem /\ q.kind = "favorite"
          /\ q.held \subseteq q.loaded
          /\ \A y \in q.loaded : \E i \in q.gone : row[i].item = y
          /\ \A i \in q.todo \cup q.gone : i \in Used /\ row[i].kind = "favorite" /\ row[i].user = q.user

\* What it has of an item that no other request has open: the count is still the one it
\* read, and the rows it read are still there.
Undisturbed(r, x) ==
    LET q == req[r] IN
    /\ \A p \in Requests \ {r} : x \notin Open(p)
    /\ q.pc = "item" \/ (q.pc = "row" /\ q.kind # "comment") => q.seen[x] = count[q.kind][x]
    /\ q.pc = "locked" => q.seen[x] = count["comment"][x]
    /\ q.pc \in {"row", "locked"} /\ q.mine # NoRow => Live(q.mine)
    /\ \A i \in q.todo \cup q.gone : row[i].item = x => Live(i)
    /\ \A i \in q.gone : row[i].item = x => x \in q.loaded /\ q.seen[x] = count["favorite"][x]

Accounted(x) == Exact(x) /\ \A r \in Requests : x \in Open(r) => Undisturbed(r, x)

AllAccounted == \A x \in Items \ raced : item[x] # "deleted" => Accounted(x)

KInv == (\A r \in Requests : Facts(r)) /\ AllAccounted

LEMMA KnownInit == Init => KInv
<1> SUFFICES ASSUME Init PROVE KInv
  OBVIOUS
<1> DEFINE o == Opened(NoUser, "view", NoItem, NoType, "new")
<1>1. o.pc = "new" /\ o.reply = "none"
  <2>1. /\ NoUser \in Users \cup {NoUser} /\ NoItem \in Items \cup {NoItem}
        /\ NoType \in Types \cup {NoType} /\ "view" \in Kinds
    BY DEF Kinds
  <2> QED
    BY <2>1, OpenedIsSound, SMT
<1>2. \A r \in Requests : req[r] = o
  BY DEF Init
<1> HIDE DEF o
<1>3. \A r \in Requests : Facts(r)
  BY <1>1, <1>2 DEF Facts
<1>4. ASSUME NEW x \in Items PROVE Accounted(x)
  <2>1. Viewed(x) = {} /\ \A kind \in Counted : Behind(kind, x) = {}
    BY <1>1, <1>2 DEF Viewed, Behind, Init, NewRow
  <2>2. \A kind \in Kinds : count[kind][x] = 0
    BY DEF Init
  <2>3. Exact(x)
    BY <2>1, <2>2, FS_EmptySet DEF Exact, Kinds
  <2>4. \A r \in Requests : Open(r) = {}
    BY <1>1, <1>2 DEF Open, Busy
  <2> QED
    BY <2>3, <2>4 DEF Accounted
<1> QED
  BY <1>3, <1>4 DEF KInv, AllAccounted

-----------------------------------------------------------------------------
(* What requests hold, and which items they have open.                         *)

\* A row that was inserted keeps everything but its state and its type.
LEMMA RowsStable ==
  TInv /\ [Next]_vars => \A i \in Used : /\ row'[i].state # "unused" /\ row'[i].kind = row[i].kind
                                         /\ row'[i].user = row[i].user /\ row'[i].item = row[i].item
<1> SUFFICES ASSUME TInv, [Next]_vars, NEW i \in Used
             PROVE  /\ row'[i].state # "unused" /\ row'[i].kind = row[i].kind
                    /\ row'[i].user = row[i].user /\ row'[i].item = row[i].item
  OBVIOUS
<1>0. i \in Rows /\ row[i].state # "unused" /\ row \in [Rows -> Row]
  BY DEF Used, TInv, RowOK
<1>1. CASE RowsKept
  BY <1>0, <1>1 DEF RowsKept, Gone, Retyped, Live
<1>2. CASE RowInserted
  BY <1>0, <1>2 DEF RowInserted
<1> QED
  BY <1>1, <1>2, Writers

LEMMA EndedFields ==
  ASSUME NEW q \in Request, NEW reply \in {"ok", "refused", "error"}
  PROVE  /\ Ended(q, reply).pc = "done" /\ Ended(q, reply).reply = reply
         /\ Ended(q, reply).kind = q.kind /\ Ended(q, reply).on = q.on
         /\ Ended(q, reply).user = q.user /\ Ended(q, reply).type = q.type /\ Ended(q, reply).was = q.was
BY DEF Ended, Request

LEMMA FinishFields ==
  ASSUME TInv, NEW r \in Requests, NEW reply \in {"ok", "refused", "error"}, Finish(r, reply)
  PROVE  /\ req'[r].pc = "done" /\ req'[r].reply = reply
         /\ req'[r].kind = req[r].kind /\ req'[r].on = req[r].on
BY EndedFields DEF Finish, TInv, ReqOK

\* A request that begins a step of its own leaves the others alone.
LEMMA OthersKept ==
  ASSUME TInv, NEW r \in Requests, Start(r) \/ Continue(r)
  PROVE  \A q \in Requests \ {r} : req'[q] = req[q]
<1>1. PICK new : req' = [req EXCEPT ![r] = new]
  BY ReqStep
<1> QED
  BY <1>1

\* How a request begins.
LEMMA StartShape ==
  ASSUME TInv, NEW r \in Requests, Start(r)
  PROVE  /\ req[r].pc = "new"
         /\ \/ req'[r].pc = "done" /\ req'[r].reply = "refused"
            \/ \E x \in Items :
                  /\ req'[r].pc = "item" /\ req'[r].on = x /\ req'[r].mine = NoRow
                  /\ req'[r].kind \in Kinds /\ req'[r].seen[x] = count[req'[r].kind][x]
                  /\ req'[r].todo = {} /\ req'[r].gone = {} /\ req'[r].reply = "none"
            \/ \E i \in Rows :
                  /\ req'[r].pc = "row" /\ req'[r].kind = "comment" /\ row[i].kind = "comment"
                  /\ req'[r].on = row[i].item /\ req'[r].mine = i /\ Live(i)
                  /\ req'[r].todo = {} /\ req'[r].gone = {} /\ req'[r].reply = "none"
            \/ /\ req'[r].pc = "bulk" /\ req'[r].kind = "favorite" /\ req'[r].on = NoItem
               /\ req'[r].gone = {} /\ req'[r].loaded = {} /\ req'[r].held = {} /\ req'[r].reply = "none"
               /\ \A i \in req'[r].todo :
                     i \in Rows /\ Live(i) /\ row[i].kind = "favorite" /\ row[i].user = req'[r].user
<1>0. req \in [Requests -> Request]
  BY DEF TInv, ReqOK
<1>1. ASSUME NEW u \in Users, NEW kind \in Kinds, NEW x \in Items, NEW type \in Types \cup {NoType},
             ReadItem(r, u, kind, x, type)
      PROVE  /\ req[r].pc = "new"
             /\ \/ req'[r].pc = "done" /\ req'[r].reply = "refused"
                \/ /\ req'[r].pc = "item" /\ req'[r].on = x /\ req'[r].mine = NoRow
                   /\ req'[r].kind \in Kinds /\ req'[r].seen[x] = count[req'[r].kind][x]
                   /\ req'[r].todo = {} /\ req'[r].gone = {} /\ req'[r].reply = "none"
  <2> DEFINE o == Opened(u, kind, x, type, "item")
             new == [o EXCEPT !.loaded = {x}, !.seen[x] = count[kind][x]]
  <2>1. /\ o \in Request /\ o.pc = "item" /\ o.kind = kind /\ o.on = x /\ o.mine = NoRow
        /\ o.todo = {} /\ o.gone = {} /\ o.reply = "none"
    BY OpenedIsSound
  <2>2. count[kind][x] \in Nat
    BY DEF TInv, CountOK
  <2>3. req' = [req EXCEPT ![r] = IF item[x] = "shown" THEN new ELSE Ended(new, "refused")]
    BY <1>1 DEF ReadItem
  <2> HIDE DEF o
  <2>4. /\ new \in Request /\ new.pc = "item" /\ new.kind = kind /\ new.on = x /\ new.mine = NoRow
        /\ new.seen[x] = count[kind][x] /\ new.todo = {} /\ new.gone = {} /\ new.reply = "none"
    BY <2>1, <2>2 DEF Request
  <2> HIDE DEF new
  <2>5. Ended(new, "refused").pc = "done" /\ Ended(new, "refused").reply = "refused"
    BY <2>4, EndedFields
  <2>6. req[r].pc = "new"
    BY <1>1 DEF ReadItem, MayStart
  <2> QED
    BY <1>0, <2>3, <2>4, <2>5, <2>6
<1>2. ASSUME NEW u \in Users, NEW i \in Rows, ReadComment(r, u, i)
      PROVE  /\ req[r].pc = "new"
             /\ \/ req'[r].pc = "done" /\ req'[r].reply = "refused"
                \/ /\ req'[r].pc = "row" /\ req'[r].kind = "comment" /\ row[i].kind = "comment"
                   /\ req'[r].on = row[i].item /\ req'[r].mine = i /\ Live(i)
                   /\ req'[r].todo = {} /\ req'[r].gone = {} /\ req'[r].reply = "none"
  <2> DEFINE o == Opened(u, "comment", row[i].item, NoType, "row")
             new == [o EXCEPT !.mine = i]
  <2>1. row[i].item \in Items
    BY <1>2 DEF ReadComment, TInv, RowOK, Used
  <2>2. /\ o \in Request /\ o.pc = "row" /\ o.kind = "comment" /\ o.on = row[i].item
        /\ o.todo = {} /\ o.gone = {} /\ o.reply = "none"
    BY <2>1, OpenedIsSound DEF Kinds, Counted
  <2>3. req' = [req EXCEPT ![r] = IF Live(i) /\ (row[i].user = u \/ u \in Admins)
                                    THEN new ELSE Ended(new, "refused")]
    BY <1>2 DEF ReadComment
  <2> HIDE DEF o
  <2>4. /\ new \in Request /\ new.pc = "row" /\ new.kind = "comment" /\ new.on = row[i].item /\ new.mine = i
        /\ new.todo = {} /\ new.gone = {} /\ new.reply = "none"
    BY <2>2 DEF Request
  <2> HIDE DEF new
  <2>5. Ended(new, "refused").pc = "done" /\ Ended(new, "refused").reply = "refused"
    BY <2>4, EndedFields
  <2>6. req[r].pc = "new" /\ row[i].kind = "comment"
    BY <1>2 DEF ReadComment, MayStart
  <2> QED
    BY <1>0, <2>3, <2>4, <2>5, <2>6
<1>3. ASSUME NEW u \in Users, NEW xs \in SUBSET Items, BulkRead(r, u, xs)
      PROVE  /\ req[r].pc = "new"
             /\ req'[r].pc = "bulk" /\ req'[r].kind = "favorite" /\ req'[r].on = NoItem
             /\ req'[r].gone = {} /\ req'[r].loaded = {} /\ req'[r].held = {} /\ req'[r].reply = "none"
             /\ \A i \in req'[r].todo :
                   i \in Rows /\ Live(i) /\ row[i].kind = "favorite" /\ row[i].user = req'[r].user
  <2> DEFINE o == Opened(u, "favorite", NoItem, NoType, "bulk")
             todo == {i \in Rows : Live(i) /\ row[i].kind = "favorite" /\ row[i].user = u /\ row[i].item \in xs}
             new == [o EXCEPT !.todo = todo]
  <2>1. /\ u \in Users \cup {NoUser} /\ NoItem \in Items \cup {NoItem}
        /\ NoType \in Types \cup {NoType} /\ "favorite" \in Kinds
    BY DEF Kinds, Counted
  <2>2. /\ o \in Request /\ o.pc = "bulk" /\ o.kind = "favorite" /\ o.on = NoItem /\ o.user = u
        /\ o.gone = {} /\ o.loaded = {} /\ o.held = {} /\ o.reply = "none"
    BY <2>1, OpenedIsSound, SMT
  <2>3. req' = [req EXCEPT ![r] = new] /\ req[r].pc = "new"
    BY <1>3 DEF BulkRead, MayStart
  <2>4. \A i \in todo : i \in Rows /\ Live(i) /\ row[i].kind = "favorite" /\ row[i].user = u
    OBVIOUS
  <2> HIDE DEF o, todo
  <2>5. /\ new.pc = "bulk" /\ new.kind = "favorite" /\ new.on = NoItem /\ new.user = u /\ new.todo = todo
        /\ new.gone = {} /\ new.loaded = {} /\ new.held = {} /\ new.reply = "none"
    BY <2>2 DEF Request
  <2> HIDE DEF new
  <2> QED
    BY <1>0, <2>3, <2>4, <2>5
<1> QED
  BY <1>1, <1>2, <1>3 DEF Start

\* The items a request has open, in terms of what it holds.
LEMMA OpenAt ==
  ASSUME TInv, NEW r \in Requests, Facts(r), NEW x \in Items
  PROVE  x \in Open(r) <=> \/ req[r].pc \in {"item", "row", "locked"} /\ req[r].on = x
                           \/ req[r].pc = "bulk" /\ \E i \in req[r].todo \cup req[r].gone : row[i].item = x
<1>1. req[r] \in Request
  BY DEF TInv, ReqOK
<1>2. req[r].pc \in {"new", "item", "row", "locked", "bulk", "done"}
  BY <1>1 DEF Request
<1> QED
  BY <1>2, ConstantsAssumption DEF Open, Busy, Facts

\* What a step does to the control of its request.
LEMMA ContinueShape ==
  ASSUME TInv, NEW r \in Requests, Continue(r)
  PROVE  \/ req'[r].pc = "done" /\ req'[r].kind = req[r].kind /\ req'[r].on = req[r].on
         \/ /\ ReadOwn(r)
            /\ req[r].pc = "item" /\ req'[r].pc = "row" /\ req[r].kind \in {"reaction", "favorite"}
            /\ req'[r].reply = req[r].reply /\ req'[r].kind = req[r].kind /\ req'[r].on = req[r].on
            /\ req'[r].todo = req[r].todo /\ req'[r].gone = req[r].gone /\ req'[r].seen = req[r].seen
            /\ \/ req'[r].mine = req[r].mine
               \/ /\ req'[r].mine \in Rows /\ Live(req'[r].mine)
                  /\ row[req'[r].mine].kind = req[r].kind /\ row[req'[r].mine].item = req[r].on
         \/ /\ LockComment(r)
            /\ req[r].pc = "row" /\ req'[r].pc = "locked" /\ req[r].kind = "comment"
            /\ req'[r].reply = req[r].reply /\ req'[r].kind = req[r].kind /\ req'[r].on = req[r].on
            /\ req'[r].todo = req[r].todo /\ req'[r].gone = req[r].gone /\ req'[r].mine = req[r].mine
            /\ LET x == row[req[r].mine].item
               IN  x \in Items /\ req'[r].seen[x] = count["comment"][x]
         \/ \E i \in req[r].todo :
               /\ BulkNext(r, i)
               /\ req[r].pc = "bulk" /\ req'[r].pc = "bulk"
               /\ req'[r].reply = req[r].reply /\ req'[r].kind = req[r].kind /\ req'[r].on = req[r].on
               /\ req'[r].user = req[r].user
               /\ req'[r].todo = req[r].todo \ {i} /\ req'[r].gone = req[r].gone \cup {i}
               /\ req'[r].held = req[r].held \cup Unflushed(r)
               /\ LET x == row[i].item
                  IN  /\ x \in Items
                      /\ req'[r].loaded = IF item[x] # "deleted" THEN req[r].loaded \cup {x} ELSE req[r].loaded
                      /\ req'[r].seen[x] = count["favorite"][x]
                      /\ \A y \in Items \ {x} : req'[r].seen[y] = req[r].seen[y]
<1>0. req \in [Requests -> Request] /\ req[r] \in Request /\ Sound(req[r], Used)
  BY DEF TInv, ReqOK
<1>1. ASSUME NEW reply \in {"ok", "refused", "error"}, Finish(r, reply)
      PROVE  req'[r].pc = "done" /\ req'[r].kind = req[r].kind /\ req'[r].on = req[r].on
  BY <1>1, FinishFields
<1>2. CASE ReadOwn(r)
  <2>0. req[r].pc = "item" /\ req[r].kind \in {"reaction", "favorite"}
    BY <1>2 DEF ReadOwn
  <2>1. CASE req' = [req EXCEPT ![r].pc = "row"]
    <3>1. /\ req'[r].pc = "row" /\ req'[r].reply = req[r].reply /\ req'[r].kind = req[r].kind
          /\ req'[r].on = req[r].on /\ req'[r].todo = req[r].todo /\ req'[r].gone = req[r].gone
          /\ req'[r].seen = req[r].seen /\ req'[r].mine = req[r].mine
      BY <1>0, <2>1 DEF Request
    <3> QED
      BY <1>2, <2>0, <3>1
  <2>2. ASSUME NEW i \in Rows, Live(i), row[i].kind = req[r].kind, row[i].item = req[r].on,
               req' = [req EXCEPT ![r].pc = "row", ![r].mine = i, ![r].was = row[i].type]
        PROVE  /\ req'[r].pc = "row" /\ req'[r].reply = req[r].reply /\ req'[r].kind = req[r].kind
               /\ req'[r].on = req[r].on /\ req'[r].todo = req[r].todo /\ req'[r].gone = req[r].gone
               /\ req'[r].seen = req[r].seen /\ req'[r].mine = i
    BY <1>0, <2>2 DEF Request
  <2>3. \/ req' = [req EXCEPT ![r].pc = "row"]
        \/ \E i \in Rows : /\ Live(i) /\ row[i].kind = req[r].kind /\ row[i].item = req[r].on
                           /\ req' = [req EXCEPT ![r].pc = "row", ![r].mine = i, ![r].was = row[i].type]
    BY <1>2 DEF ReadOwn
  <2>4. ASSUME NEW i \in Rows, Live(i), row[i].kind = req[r].kind, row[i].item = req[r].on,
               req' = [req EXCEPT ![r].pc = "row", ![r].mine = i, ![r].was = row[i].type]
        PROVE  /\ ReadOwn(r)
               /\ req[r].pc = "item" /\ req'[r].pc = "row" /\ req[r].kind \in {"reaction", "favorite"}
               /\ req'[r].reply = req[r].reply /\ req'[r].kind = req[r].kind /\ req'[r].on = req[r].on
               /\ req'[r].todo = req[r].todo /\ req'[r].gone = req[r].gone /\ req'[r].seen = req[r].seen
               /\ req'[r].mine \in Rows /\ Live(req'[r].mine)
               /\ row[req'[r].mine].kind = req[r].kind /\ row[req'[r].mine].item = req[r].on
    <3>1. req'[r].mine = i
      BY <2>2, <2>4
    <3> QED
      BY <1>2, <2>0, <2>2, <2>4, <3>1
  <2> QED
    BY <2>1, <2>3, <2>4
<1>3. CASE LockComment(r)
  <2> DEFINE x == row[req[r].mine].item
  <2>0. req[r].pc = "row" /\ req[r].kind = "comment"
    BY <1>3 DEF LockComment
  <2>1. req[r].mine \in Used /\ x \in Items
    BY <1>0, <2>0 DEF Sound, TInv, RowOK
  <2>2. CASE Finish(r, "error")
    BY <1>1, <2>2
  <2>3. CASE req' = [req EXCEPT ![r].pc = "locked", ![r].loaded = {x}, ![r].seen[x] = count["comment"][x]]
    <3>1. /\ req'[r].pc = "locked" /\ req'[r].reply = req[r].reply /\ req'[r].kind = req[r].kind
          /\ req'[r].on = req[r].on /\ req'[r].todo = req[r].todo /\ req'[r].gone = req[r].gone
          /\ req'[r].mine = req[r].mine /\ req'[r].seen = [req[r].seen EXCEPT ![x] = count["comment"][x]]
      BY <1>0, <2>3 DEF Request
    <3>2. req[r].seen \in [Items -> Nat]
      BY <1>0 DEF Request
    <3>3. req'[r].seen[x] = count["comment"][x]
      BY <2>1, <3>1, <3>2
    <3> QED
      BY <1>3, <2>0, <2>1, <3>1, <3>3
  <2> QED
    BY <1>3, <2>2, <2>3 DEF LockComment
<1>4. ASSUME NEW i \in Rows, BulkNext(r, i)
      PROVE  /\ i \in req[r].todo
             /\ req[r].pc = "bulk" /\ req'[r].pc = "bulk"
             /\ req'[r].reply = req[r].reply /\ req'[r].kind = req[r].kind /\ req'[r].on = req[r].on
             /\ req'[r].user = req[r].user
             /\ req'[r].todo = req[r].todo \ {i} /\ req'[r].gone = req[r].gone \cup {i}
             /\ req'[r].held = req[r].held \cup Unflushed(r)
             /\ LET x == row[i].item
                IN  /\ x \in Items
                    /\ req'[r].loaded = IF item[x] # "deleted" THEN req[r].loaded \cup {x} ELSE req[r].loaded
                    /\ req'[r].seen[x] = count["favorite"][x]
                    /\ \A y \in Items \ {x} : req'[r].seen[y] = req[r].seen[y]
  <2> DEFINE x == row[i].item
             unflushed == Unflushed(r)
  <2>0. req[r].pc = "bulk" /\ i \in req[r].todo
    BY <1>4 DEF BulkNext
  <2>1. i \in Used /\ x \in Items
    BY <1>0, <2>0 DEF Sound, TInv, RowOK
  <2>2. req' = [req EXCEPT ![r].todo = @ \ {i}, ![r].gone = @ \cup {i}, ![r].held = @ \cup unflushed,
                           ![r].loaded = IF item[x] # "deleted" THEN @ \cup {x} ELSE @,
                           ![r].seen[x] = count["favorite"][x]]
    BY <1>4 DEF BulkNext
  <2> HIDE DEF unflushed, x
  <2>3. /\ req'[r].pc = req[r].pc /\ req'[r].reply = req[r].reply /\ req'[r].kind = req[r].kind
        /\ req'[r].on = req[r].on /\ req'[r].user = req[r].user
        /\ req'[r].todo = req[r].todo \ {i} /\ req'[r].gone = req[r].gone \cup {i}
    BY <1>0, <2>2 DEF Request
  <2>4. /\ req'[r].held = req[r].held \cup unflushed
        /\ req'[r].loaded = IF item[x] # "deleted" THEN req[r].loaded \cup {x} ELSE req[r].loaded
        /\ req'[r].seen = [req[r].seen EXCEPT ![x] = count["favorite"][x]]
    BY <1>0, <2>2 DEF Request
  <2>5. req[r].seen \in [Items -> Nat]
    BY <1>0 DEF Request
  <2>6. req'[r].seen[x] = count["favorite"][x] /\ \A y \in Items \ {x} : req'[r].seen[y] = req[r].seen[y]
    BY <2>1, <2>4, <2>5
  <2> QED
    BY <2>0, <2>1, <2>3, <2>4, <2>6 DEF unflushed, x
<1>5. ASSUME \/ ToggleOn(r) \/ ToggleOff(r) \/ Switch(r) \/ AddComment(r) \/ IncrementView(r)
             \/ DeleteComment(r) \/ BulkCommit(r) \/ BulkFails(r) \/ DeadlockAbort(r)
      PROVE  Finish(r, "ok") \/ Finish(r, "error")
  BY <1>5 DEF ToggleOn, AddComment, Insert, ToggleOff, Switch, IncrementView, DeleteComment, BulkCommit, BulkFails,
      DeadlockAbort
<1> QED
  BY <1>1, <1>2, <1>3, <1>4, <1>5 DEF Continue

LEMMA FactsStep ==
  ASSUME TInv, \A r \in Requests : Facts(r), [Next]_vars
  PROVE  \A r \in Requests : Facts(r)'
<1>0. \A i \in Used : /\ row'[i].state # "unused" /\ row'[i].kind = row[i].kind
                      /\ row'[i].user = row[i].user /\ row'[i].item = row[i].item
  BY RowsStable
<1>1. req \in [Requests -> Request] /\ \A r \in Requests : Sound(req[r], Used)
  BY DEF TInv, ReqOK
<1>2. Used \subseteq Used'
  BY RowTypeStep
<1>3. ASSUME NEW q \in Requests, req'[q] = req[q] PROVE Facts(q)'
  <2>1. req[q].mine # NoRow => req[q].mine \in Used
    BY <1>1 DEF Sound
  <2>2. req[q].pc \in {"row", "locked"} /\ req[q].mine # NoRow
          => row'[req[q].mine].item = req[q].on /\ row'[req[q].mine].kind = req[q].kind
    BY <1>0, <2>1 DEF Facts
  <2>3. req[q].pc = "bulk" =>
          \A i \in req[q].todo \cup req[q].gone : i \in Used' /\ row'[i].kind = "favorite" /\ row'[i].user = req[q].user
    BY <1>0, <1>2 DEF Facts
  <2>4. req[q].pc = "bulk" => \A y \in req[q].loaded : \E i \in req[q].gone : row'[i].item = y
    BY <1>0 DEF Facts
  <2> QED
    BY <1>3, <2>2, <2>3, <2>4 DEF Facts
<1>4. ASSUME NEW r \in Requests, Start(r) PROVE Facts(r)'
  <2>0. row' = row
    BY <1>4, StartKeeps
  <2> QED
    BY <1>4, <2>0, StartShape, ConstantsAssumption DEF Facts, Used, Live
<1>5. ASSUME NEW r \in Requests, Continue(r) PROVE Facts(r)'
  <2>1. CASE req'[r].pc = "done"
    BY <2>1 DEF Facts
  <2>2. CASE /\ ReadOwn(r)
             /\ req[r].pc = "item" /\ req'[r].pc = "row" /\ req[r].kind \in {"reaction", "favorite"}
             /\ req'[r].reply = req[r].reply /\ req'[r].kind = req[r].kind /\ req'[r].on = req[r].on
             /\ req'[r].todo = req[r].todo /\ req'[r].gone = req[r].gone
             /\ \/ req'[r].mine = req[r].mine
                \/ /\ req'[r].mine \in Rows /\ Live(req'[r].mine)
                   /\ row[req'[r].mine].kind = req[r].kind /\ row[req'[r].mine].item = req[r].on
    BY <2>2 DEF Facts, ReadOwn
  <2>3. CASE /\ LockComment(r)
             /\ req[r].pc = "row" /\ req'[r].pc = "locked" /\ req[r].kind = "comment"
             /\ req'[r].reply = req[r].reply /\ req'[r].kind = req[r].kind /\ req'[r].on = req[r].on
             /\ req'[r].todo = req[r].todo /\ req'[r].gone = req[r].gone /\ req'[r].mine = req[r].mine
    BY <2>3 DEF Facts, LockComment
  <2>4. ASSUME NEW i \in req[r].todo, BulkNext(r, i),
               req[r].pc = "bulk", req'[r].pc = "bulk", req'[r].reply = req[r].reply,
               req'[r].kind = req[r].kind, req'[r].on = req[r].on, req'[r].user = req[r].user,
               req'[r].todo = req[r].todo \ {i}, req'[r].gone = req[r].gone \cup {i},
               req'[r].held = req[r].held \cup Unflushed(r),
               req'[r].loaded = IF item[row[i].item] # "deleted" THEN req[r].loaded \cup {row[i].item}
                                                                 ELSE req[r].loaded
        PROVE  Facts(r)'
    <3>0. row' = row /\ Facts(r)
      BY <2>4 DEF BulkNext
    <3>1. Unflushed(r) \subseteq req[r].loaded
      BY DEF Unflushed
    <3>2. req'[r].held \subseteq req'[r].loaded
      BY <2>4, <3>0, <3>1 DEF Facts
    <3>3. \A y \in req'[r].loaded : \E j \in req'[r].gone : row'[j].item = y
      BY <2>4, <3>0 DEF Facts
    <3>4. \A j \in req'[r].todo \cup req'[r].gone :
             j \in Used' /\ row'[j].kind = "favorite" /\ row'[j].user = req'[r].user
      BY <1>2, <2>4, <3>0 DEF Facts
    <3>5. req'[r].on = NoItem /\ req'[r].kind = "favorite" /\ req'[r].reply = "none"
      BY <2>4, <3>0 DEF Facts
    <3> QED
      BY <2>4, <3>2, <3>3, <3>4, <3>5 DEF Facts
  <2> QED
    BY <1>5, <2>1, <2>2, <2>3, <2>4, ContinueShape
<1>6. ASSUME NEW r \in Requests, Start(r) \/ Continue(r) PROVE \A q \in Requests : Facts(q)'
  BY <1>3, <1>4, <1>5, <1>6, OthersKept
<1>7. CASE req' = req
  BY <1>3, <1>7
<1> QED
  BY <1>6, <1>7 DEF Next, SetVisibility, DeleteItem, DeleteUser, vars

-----------------------------------------------------------------------------
(* The counts under a step.                                                    *)

LEMMA SetsAreFinite ==
  ASSUME NEW kind, NEW x
  PROVE  IsFiniteSet(Behind(kind, x)) /\ IsFiniteSet(Viewed(x))
<1>1. Behind(kind, x) \subseteq Rows /\ Viewed(x) \subseteq Requests
  BY DEF Behind, Viewed
<1> QED
  BY <1>1, FS_Subset, ConstantsAssumption

\* A step that leaves x alone: its counts, the rows on it, and the views of it answered.
Untouched(x) ==
    /\ \A kind \in Kinds : count'[kind][x] = count[kind][x]
    /\ \A kind \in Counted : Behind(kind, x)' = Behind(kind, x)
    /\ Viewed(x)' = Viewed(x)

LEMMA UntouchedExact ==
  ASSUME NEW x \in Items, Exact(x), Untouched(x) PROVE Exact(x)'
BY DEF Exact, Untouched, Kinds

\* What a request that does not move knows of x.
LEMMA StaysUndisturbed ==
  ASSUME TInv, [Next]_vars, NEW x \in Items, NEW q \in Requests, x \in Open(q), Facts(q), Undisturbed(q, x),
         req'[q] = req[q], \A kind \in Kinds : count'[kind][x] = count[kind][x],
         \A i \in Rows : row[i].item = x /\ Live(i) => row'[i].state = "live",
         \A p \in Requests \ {q} : x \notin Open(p)'
  PROVE  Undisturbed(q, x)'
<1>0. /\ req[q] \in Request /\ Sound(req[q], Used)
      /\ \A i \in Used : row'[i].item = row[i].item
  BY RowsStable DEF TInv, ReqOK
<1>1. req[q].pc \in {"row", "locked"} /\ req[q].mine # NoRow => row'[req[q].mine].state = "live"
  <2>1. ASSUME req[q].pc \in {"row", "locked"}, req[q].mine # NoRow
        PROVE  row[req[q].mine].item = x
    BY <2>1, OpenAt DEF Facts
  <2> QED
    BY <1>0, <2>1 DEF Undisturbed, Sound, Used
<1>2. \A i \in req[q].todo \cup req[q].gone : i \in Used
  BY <1>0, OpenAt DEF Facts
<1>3. \A i \in req[q].todo \cup req[q].gone : row'[i].item = x => row'[i].state = "live"
  BY <1>0, <1>2 DEF Undisturbed, Used
<1>4. \A i \in req[q].gone : row'[i].item = x => x \in req[q].loaded /\ req[q].seen[x] = count'["favorite"][x]
  BY <1>0, <1>2 DEF Undisturbed, Kinds, Counted
<1>5. req[q].kind \in Kinds /\ "comment" \in Kinds
  BY <1>0 DEF Request, Kinds, Counted
<1>6. /\ req[q].pc = "item" \/ (req[q].pc = "row" /\ req[q].kind # "comment")
            => req[q].seen[x] = count'[req[q].kind][x]
      /\ req[q].pc = "locked" => req[q].seen[x] = count'["comment"][x]
  BY <1>5 DEF Undisturbed
<1> QED
  BY <1>1, <1>3, <1>4, <1>6 DEF Undisturbed, Live

\* A request does not open another item once it has begun.
LEMMA OpensNoMore ==
  ASSUME TInv, KInv, NEW r \in Requests, Continue(r), NEW x \in Items, NEW q \in Requests, x \in Open(q)'
  PROVE  x \in Open(q)
<1>0. [Next]_vars
  BY DEF Next
<1>1. Facts(q) /\ Facts(q)' /\ TInv'
  BY <1>0, FactsStep, TypeStep DEF KInv
<1>2. \/ req'[q].pc \in {"item", "row", "locked"} /\ req'[q].on = x
      \/ req'[q].pc = "bulk" /\ \E i \in req'[q].todo \cup req'[q].gone : row'[i].item = x
  <2>1. req'[q].pc \in {"new", "item", "row", "locked", "bulk", "done"}
    BY <1>1 DEF TInv, ReqOK, Request
  <2> QED
    BY <1>1, <2>1, ConstantsAssumption DEF Open, Busy, Facts
<1>3. CASE req'[q] = req[q]
  <2>1. req[q].pc = "bulk" => \A i \in req[q].todo \cup req[q].gone : row'[i].item = row[i].item
    BY <1>0, <1>1, RowsStable DEF Facts
  <2> QED
    BY <1>1, <1>2, <1>3, <2>1, OpenAt
<1>4. CASE q = r
  <2>1. CASE req[r].pc \in {"item", "row"}
    BY <1>1, <1>2, <1>4, <2>1, ContinueShape, OpenAt
  <2>2. ASSUME NEW i \in req[r].todo, BulkNext(r, i), req[r].pc = "bulk",
               req'[r].todo = req[r].todo \ {i}, req'[r].gone = req[r].gone \cup {i}, req'[r].pc = "bulk"
        PROVE  x \in Open(r)
    <3>1. row' = row
      BY <2>2 DEF BulkNext
    <3> QED
      BY <1>1, <1>2, <1>4, <2>2, <3>1, OpenAt
  <2> QED
    BY <1>2, <1>4, <2>1, <2>2, ContinueShape
<1> QED
  BY <1>3, <1>4, OthersKept

\* The views of x answered change only by an answered view of x.
LEMMA SameViews ==
  ASSUME TInv, KInv, NEW r \in Requests, Start(r) \/ Continue(r), NEW x \in Items,
         \/ req'[r].reply # "ok"
         \/ req'[r].kind # "view"
         \/ req'[r].on # x
  PROVE  Viewed(x)' = Viewed(x)
<1>1. \A q \in Requests \ {r} : req'[q] = req[q]
  BY OthersKept
<1>2. r \notin Viewed(x)'
  BY DEF Viewed
<1>3. req[r].pc # "done"
  BY StartShape, ContinueShape DEF Continue, ReadOwn, ToggleOn, ToggleOff, Switch, AddComment, IncrementView,
     LockComment, DeleteComment, BulkNext, BulkCommit, BulkFails, DeadlockAbort, WaitsFor
<1>4. r \notin Viewed(x)
  BY <1>3 DEF KInv, Facts, Viewed
<1> QED
  BY <1>1, <1>2, <1>4 DEF Viewed

\* Only rows that are not counted at x change.
LEMMA SameRows ==
  ASSUME NEW x \in Items,
         \A i \in Rows : \/ row'[i] = row[i]
                         \/ /\ row[i].state \in {"live", "lost"} => row[i].item # x
                            /\ row'[i].state \in {"live", "lost"} => row'[i].item # x
  PROVE  /\ \A kind \in Counted : Behind(kind, x)' = Behind(kind, x)
         /\ \A i \in Rows : row[i].item = x /\ Live(i) => row'[i].state = "live"
<1>1. \A i \in Rows : row[i].item = x /\ Live(i) => row'[i].state = "live"
  BY DEF Live
<1>2. \A kind \in Counted : Behind(kind, x)' = Behind(kind, x)
  BY DEF Behind
<1> QED
  BY <1>1, <1>2

\* What a request does is about the items it has open.
LEMMA ElsewhereUntouched ==
  ASSUME TInv, KInv, NEW r \in Requests, Continue(r), NEW x \in Items, x \notin Open(r)
  PROVE  Untouched(x) /\ \A i \in Rows : row[i].item = x /\ Live(i) => row'[i].state = "live"
<1>0. /\ req[r] \in Request /\ Sound(req[r], Used) /\ Facts(r)
      /\ count \in [Kinds -> [Items -> Nat]] /\ row \in [Rows -> Row]
  BY DEF TInv, ReqOK, RowOK, CountOK, KInv
<1>1. req[r].pc \in {"item", "row", "locked", "bulk"}
  BY DEF Continue, ReadOwn, ToggleOn, ToggleOff, Switch, AddComment, IncrementView,
     LockComment, DeleteComment, BulkNext, BulkCommit, BulkFails, DeadlockAbort, WaitsFor
<1>2. req[r].on # x
  BY <1>0, <1>1, OpenAt, ConstantsAssumption DEF Facts
<1>3. Viewed(x)' = Viewed(x)
  BY <1>2, SameViews, ContinueShape
<1> DEFINE SameCounts == \A kind \in Kinds : count'[kind][x] = count[kind][x]
           OtherRows == \A i \in Rows : \/ row'[i] = row[i]
                                        \/ /\ row[i].state \in {"live", "lost"} => row[i].item # x
                                           /\ row'[i].state \in {"live", "lost"} => row'[i].item # x
<1>4. ASSUME NEW kind \in Kinds, NEW n \in Nat, NEW y \in Items, y # x,
             count' = [count EXCEPT ![kind][y] = n]
      PROVE  SameCounts
  BY <1>0, <1>4
<1>5. ASSUME NEW y \in Items PROVE Increased(r, y) \in Nat /\ Decreased(r, y) \in Nat
  <2>1. req[r].seen[y] \in Nat
    BY <1>0 DEF Request
  <2> QED
    BY <2>1 DEF Increased, Decreased
<1>6. CASE ToggleOn(r) \/ AddComment(r)
  <2> SUFFICES SameCounts /\ OtherRows
    BY SameRows, <1>3 DEF Untouched
  <2>1. Insert(r) /\ req[r].on \in Items /\ req[r].kind \in Kinds
    BY <1>0, <1>6 DEF ToggleOn, AddComment, Sound, Request
  <2>2. CASE UNCHANGED <<count, row>>
    BY <2>2
  <2>3. CASE ~UNCHANGED <<count, row>>
    <3>1. count' = [count EXCEPT ![req[r].kind][req[r].on] = Increased(r, req[r].on)]
      BY <2>1, <2>3 DEF Insert
    <3>2. SameCounts
      BY <1>2, <1>4, <1>5, <2>1, <3>1
    <3>3. PICK i \in Rows :
             /\ row[i].state = "unused"
             /\ row' = [row EXCEPT ![i] = [state |-> "live", kind |-> req[r].kind, user |-> req[r].user,
                                           item |-> req[r].on, type |-> req[r].type]]
      BY <2>1, <2>3 DEF Insert
    <3>4. OtherRows
      BY <1>0, <1>2, <3>3
    <3> QED
      BY <3>2, <3>4
  <2> QED
    BY <2>2, <2>3
<1>7. CASE ToggleOff(r)
  <2>1. /\ req[r].on \in Items /\ req[r].kind \in Kinds /\ req[r].mine \in Rows
        /\ row[req[r].mine].item = req[r].on
    BY <1>0, <1>7 DEF ToggleOff, Sound, Request, Facts
  <2>2. SameCounts
    BY <1>2, <1>4, <1>5, <1>7, <2>1 DEF ToggleOff
  <2>3. OtherRows
    BY <1>0, <1>2, <1>7, <2>1 DEF ToggleOff, Row
  <2> QED
    BY <2>2, <2>3, SameRows, <1>3 DEF Untouched
<1>8. CASE Switch(r)
  <2>1. req[r].mine \in Rows /\ row[req[r].mine].item = req[r].on
    BY <1>0, <1>8 DEF Switch, Request, Facts
  <2>2. SameCounts
    BY <1>8 DEF Switch
  <2>3. OtherRows
    BY <1>0, <1>2, <1>8, <2>1 DEF Switch, Row
  <2> QED
    BY <2>2, <2>3, SameRows, <1>3 DEF Untouched
<1>9. CASE IncrementView(r)
  <2>1. req[r].on \in Items /\ "view" \in Kinds
    BY <1>0, <1>9 DEF IncrementView, Sound, Kinds
  <2>2. SameCounts
    BY <1>2, <1>4, <1>5, <1>9, <2>1 DEF IncrementView
  <2>3. OtherRows
    BY <1>9 DEF IncrementView
  <2> QED
    BY <2>2, <2>3, SameRows, <1>3 DEF Untouched
<1>10. CASE DeleteComment(r)
  <2>1. /\ req[r].on \in Items /\ "comment" \in Kinds /\ req[r].mine \in Rows
        /\ row[req[r].mine].item = req[r].on
    BY <1>0, <1>10 DEF DeleteComment, Sound, Kinds, Counted, Request, Facts, Used
  <2> DEFINE y == req[r].on
             n == IF Decreased(r, y) # req[r].seen[y] THEN Decreased(r, y) ELSE count["comment"][y]
  <2>2. n \in Nat /\ count' = [count EXCEPT !["comment"][y] = n]
    BY <1>0, <1>5, <1>10, <2>1 DEF DeleteComment
  <2>3. SameCounts
    BY <1>2, <1>4, <2>1, <2>2
  <2>4. OtherRows
    BY <1>0, <1>2, <1>10, <2>1 DEF DeleteComment, Row
  <2> QED
    BY <2>3, <2>4, SameRows, <1>3 DEF Untouched
<1>11. CASE BulkCommit(r)
  <2>1. req[r].pc = "bulk" /\ \A i \in req[r].gone : row[i].item # x
    BY <1>0, <1>11, OpenAt DEF BulkCommit
  <2>2. x \notin Unflushed(r) \cup req[r].held
    BY <1>0, <2>1 DEF Facts, Unflushed
  <2>3. SameCounts
    BY <1>0, <1>11, <2>2 DEF BulkCommit, Kinds, Counted
  <2>4. OtherRows
    BY <1>0, <1>11, <2>1 DEF BulkCommit, Row
  <2> QED
    BY <2>3, <2>4, SameRows, <1>3 DEF Untouched
<1>12. ASSUME \/ ReadOwn(r) \/ LockComment(r) \/ BulkFails(r) \/ DeadlockAbort(r)
              \/ \E i \in Rows : BulkNext(r, i)
       PROVE  UNCHANGED <<row, count>>
  BY <1>12 DEF ReadOwn, LockComment, BulkFails, DeadlockAbort, BulkNext
<1>13. CASE UNCHANGED <<row, count>>
  BY <1>13, SameRows, <1>3 DEF Untouched
<1> QED
  BY <1>6, <1>7, <1>8, <1>9, <1>10, <1>11, <1>12, <1>13 DEF Continue

LEMMA OneMore ==
  ASSUME TInv, NEW x \in Items, NEW kind \in Counted, NEW i, Exact(x), i \notin Behind(kind, x),
         Behind(kind, x)' = Behind(kind, x) \cup {i}, count'[kind][x] = count[kind][x] + 1,
         \A k \in Counted \ {kind} : Behind(k, x)' = Behind(k, x),
         \A k \in Kinds \ {kind} : count'[k][x] = count[k][x],
         Viewed(x)' = Viewed(x)
  PROVE  Exact(x)'
<1>1. Cardinality(Behind(kind, x)') = Cardinality(Behind(kind, x)) + 1
  BY SetsAreFinite, FS_AddElement
<1> QED
  BY <1>1 DEF Exact, Counted, Kinds

LEMMA OneLess ==
  ASSUME TInv, NEW x \in Items, NEW kind \in Counted, NEW i, Exact(x), i \in Behind(kind, x),
         Behind(kind, x)' = Behind(kind, x) \ {i},
         count[kind][x] > 0 => count'[kind][x] = count[kind][x] - 1,
         \A k \in Counted \ {kind} : Behind(k, x)' = Behind(k, x),
         \A k \in Kinds \ {kind} : count'[k][x] = count[k][x],
         Viewed(x)' = Viewed(x)
  PROVE  Exact(x)'
<1>1. Cardinality(Behind(kind, x)') = Cardinality(Behind(kind, x)) - 1
  BY SetsAreFinite, FS_RemoveElement
<1>2. Cardinality(Behind(kind, x)) # 0 /\ Cardinality(Behind(kind, x)) \in Nat
  BY SetsAreFinite, FS_EmptySet, FS_CardinalityType
<1>3. count[kind][x] = Cardinality(Behind(kind, x))
  BY DEF Exact
<1>4. count'[kind][x] = Cardinality(Behind(kind, x)')
  BY <1>1, <1>2, <1>3
<1>5. \A k \in Counted \ {kind} : count'[k][x] = Cardinality(Behind(k, x)')
  BY DEF Exact, Counted, Kinds
<1>6. count'["view"][x] = Cardinality(Viewed(x)')
  BY DEF Exact, Counted, Kinds
<1> QED
  BY <1>4, <1>5, <1>6 DEF Exact

LEMMA Positive ==
  ASSUME NEW x \in Items, NEW kind \in Counted, NEW i, Exact(x), i \in Behind(kind, x)
  PROVE  count[kind][x] # 0 /\ count[kind][x] \in Nat
BY SetsAreFinite, FS_EmptySet, FS_CardinalityType DEF Exact

\* A request that ends at x, which no other request has open, leaves its counts exact.
LEMMA EndsExact ==
  ASSUME TInv, KInv, OneRowPerGuest, NEW r \in Requests, Continue(r), NEW x \in Items,
         item[x] # "deleted", Exact(x), Undisturbed(r, x), x \in Open(r)
  PROVE  Exact(x)'
<1>0. /\ req[r] \in Request /\ Sound(req[r], Used) /\ Facts(r)
      /\ count \in [Kinds -> [Items -> Nat]] /\ row \in [Rows -> Row]
  BY DEF TInv, ReqOK, RowOK, CountOK, KInv
<1>1. \/ req[r].pc \in {"item", "row", "locked"} /\ req[r].on = x
      \/ req[r].pc = "bulk" /\ \E i \in req[r].todo \cup req[r].gone : row[i].item = x
  BY <1>0, OpenAt
<1>2. ASSUME Viewed(x)' = Viewed(x), UNCHANGED <<row, count>> PROVE Exact(x)'
  BY <1>2, UntouchedExact DEF Untouched, Behind
<1>3. CASE ReadOwn(r) \/ LockComment(r) \/ \E i \in Rows : BulkNext(r, i)
  <2>1. UNCHANGED <<row, count>>
    BY <1>3 DEF ReadOwn, LockComment, BulkNext
  <2>2. req'[r].reply # "ok"
    <3>1. CASE LockComment(r)
      <4>1. Finish(r, "error") \/ req'[r].reply = req[r].reply
        BY <3>1, <1>0 DEF LockComment, TInv, ReqOK, Request
      <4> QED
        BY <4>1, <3>1, <1>0, FinishFields DEF LockComment, Facts
    <3>2. CASE ReadOwn(r) \/ \E i \in Rows : BulkNext(r, i)
      <4>0. req \in [Requests -> Request]
        BY DEF TInv, ReqOK
      <4>1. req'[r].reply = req[r].reply
        <5>1. CASE ReadOwn(r)
          <6>1. ASSUME req' = [req EXCEPT ![r].pc = "row"] PROVE req'[r].reply = req[r].reply
            BY <6>1, <4>0, <1>0 DEF Request
          <6>2. ASSUME NEW i, req' = [req EXCEPT ![r].pc = "row", ![r].mine = i, ![r].was = row[i].type]
                PROVE  req'[r].reply = req[r].reply
            BY <6>2, <4>0, <1>0 DEF Request
          <6> QED
            BY <5>1, <6>1, <6>2 DEF ReadOwn
        <5>2. ASSUME NEW i \in Rows, BulkNext(r, i) PROVE req'[r].reply = req[r].reply
          BY <5>2, <4>0, <1>0 DEF BulkNext, Request
        <5> QED
          BY <3>2, <5>1, <5>2
      <4> QED
        BY <4>1, <3>2, <1>0 DEF ReadOwn, BulkNext, Facts
    <3> QED
      BY <1>3, <3>1, <3>2
  <2> QED
    BY <1>2, <2>1, <2>2, SameViews
<1>4. CASE BulkFails(r) \/ DeadlockAbort(r)
  <2>1. UNCHANGED <<row, count>> /\ Finish(r, "error")
    BY <1>4 DEF BulkFails, DeadlockAbort
  <2> QED
    BY <1>2, <2>1, FinishFields, SameViews
<1>5. CASE ToggleOn(r) \/ AddComment(r)
  <2>0. PICK kind \in Counted : kind = req[r].kind
    BY <1>5 DEF ToggleOn, AddComment, Counted
  <2>1. Insert(r) /\ kind = req[r].kind /\ req[r].on = x
    BY <1>1, <1>5, <2>0 DEF ToggleOn, AddComment
  <2>2. Viewed(x)' = Viewed(x)
    BY <2>1, SameViews, ContinueShape, FinishFields DEF Insert, Counted
  <2>3. CASE UNCHANGED <<row, count>>
    BY <1>2, <2>2, <2>3
  <2>4. CASE ~UNCHANGED <<row, count>>
    <3>1. req[r].seen[x] = count[kind][x]
      BY <1>5, <2>1 DEF Undisturbed, ToggleOn, AddComment
    <3>2. count' = [count EXCEPT ![kind][x] = count[kind][x] + 1]
      BY <2>1, <2>4, <3>1 DEF Insert, Increased
    <3>3. count'[kind][x] = count[kind][x] + 1 /\ \A k \in Kinds \ {kind} : count'[k][x] = count[k][x]
      BY <1>0, <2>1, <3>2 DEF Kinds
    <3>4. PICK i \in Rows :
             /\ row[i].state = "unused"
             /\ row' = [row EXCEPT ![i] = [state |-> "live", kind |-> kind, user |-> req[r].user,
                                           item |-> x, type |-> req[r].type]]
      BY <2>1, <2>4 DEF Insert
    <3>5. i \notin Behind(kind, x) /\ Behind(kind, x)' = Behind(kind, x) \cup {i}
      BY <1>0, <3>4 DEF Behind
    <3>6. \A k \in Counted \ {kind} : Behind(k, x)' = Behind(k, x)
      BY <1>0, <3>4 DEF Behind
    <3> QED
      BY <2>1, <2>2, <3>3, <3>5, <3>6, OneMore
  <2> QED
    BY <2>3, <2>4
<1>6. CASE ToggleOff(r)
  <2>0. PICK kind \in Counted, i \in Rows : kind = req[r].kind /\ i = req[r].mine
    BY <1>0, <1>6 DEF ToggleOff, Counted, Request
  <2>1. /\ kind = req[r].kind /\ i = req[r].mine /\ kind # "comment" /\ req[r].on = x /\ i # NoRow
        /\ Live(i) /\ row[i].item = x /\ row[i].kind = kind
    BY <1>0, <1>1, <1>6, <2>0 DEF ToggleOff, Facts, Undisturbed
  <2>2. Viewed(x)' = Viewed(x)
    BY <2>1, <1>6, SameViews, FinishFields DEF ToggleOff, Counted
  <2>3. i \in Behind(kind, x)
    BY <2>1 DEF Behind, Live
  <2>4. req[r].seen[x] = count[kind][x] /\ count[kind][x] # 0 /\ count[kind][x] \in Nat
    BY <1>6, <2>1, <2>3, Positive DEF Undisturbed, ToggleOff
  <2>5. Decreased(r, x) = count[kind][x] - 1 /\ Decreased(r, x) # req[r].seen[x]
    BY <2>4 DEF Decreased
  <2>6. /\ row' = [row EXCEPT ![i].state = "withdrawn"]
        /\ count' = [count EXCEPT ![kind][x] = count[kind][x] - 1]
    BY <1>6, <2>1, <2>5 DEF ToggleOff
  <2>7. count'[kind][x] = count[kind][x] - 1 /\ \A k \in Kinds \ {kind} : count'[k][x] = count[k][x]
    BY <1>0, <2>1, <2>6 DEF Kinds
  <2>8. row'[i].state = "withdrawn" /\ \A j \in Rows \ {i} : row'[j] = row[j]
    BY <1>0, <2>1, <2>6 DEF Row
  <2>9. Behind(kind, x)' = Behind(kind, x) \ {i}
    BY <2>8 DEF Behind
  <2>10. \A k \in Counted \ {kind} : Behind(k, x)' = Behind(k, x)
    BY <2>1, <2>8 DEF Behind
  <2> QED
    BY <2>1, <2>2, <2>3, <2>7, <2>9, <2>10, OneLess
<1>7. CASE Switch(r)
  <2>1. req[r].mine \in Rows /\ req[r].kind # "view" /\ count' = count
    BY <1>0, <1>7 DEF Switch, Request, Facts
  <2>2. Viewed(x)' = Viewed(x)
    BY <1>7, <2>1, SameViews, FinishFields DEF Switch
  <2>3. \A j \in Rows : /\ row'[j].state = row[j].state /\ row'[j].kind = row[j].kind
                        /\ row'[j].item = row[j].item
    BY <1>0, <1>7, <2>1 DEF Switch, Row
  <2>4. \A kind \in Counted : Behind(kind, x)' = Behind(kind, x)
    BY <2>3 DEF Behind
  <2> QED
    BY <2>1, <2>2, <2>4, UntouchedExact DEF Untouched
<1>8. CASE IncrementView(r)
  <2>1. req[r].on = x /\ req[r].kind = "view" /\ req[r].seen[x] = count["view"][x] /\ req[r].pc = "item"
    BY <1>1, <1>8 DEF IncrementView, Undisturbed
  <2>2. count' = [count EXCEPT !["view"][x] = count["view"][x] + 1] /\ row' = row /\ Finish(r, "ok")
    BY <1>8, <2>1 DEF IncrementView, Increased
  <2>3. r \notin Viewed(x)
    BY <1>0, <2>1 DEF Facts, Viewed
  <2>4. Viewed(x)' = Viewed(x) \cup {r}
    BY <2>1, <2>2, FinishFields, OthersKept DEF Viewed
  <2>5. Cardinality(Viewed(x)') = Cardinality(Viewed(x)) + 1
    BY <2>3, <2>4, SetsAreFinite, FS_AddElement
  <2>6. /\ count'["view"][x] = count["view"][x] + 1
        /\ \A k \in Counted : count'[k][x] = count[k][x] /\ Behind(k, x)' = Behind(k, x)
    BY <1>0, <2>2 DEF Counted, Kinds, Behind
  <2> QED
    BY <2>5, <2>6 DEF Exact
<1>9. CASE DeleteComment(r)
  <2> DEFINE i == req[r].mine
  <2>1. /\ req[r].on = x /\ i \in Rows /\ i # NoRow /\ Live(i) /\ row[i].item = x /\ row[i].kind = "comment"
        /\ req[r].kind = "comment" /\ "comment" \in Counted /\ req[r].seen[x] = count["comment"][x]
    BY <1>0, <1>1, <1>9 DEF DeleteComment, Counted, Sound, Used, Facts, Undisturbed
  <2>2. Viewed(x)' = Viewed(x)
    BY <2>1, <1>9, SameViews, FinishFields DEF DeleteComment
  <2>3. i \in Behind("comment", x)
    BY <2>1 DEF Behind, Live
  <2>4. count["comment"][x] # 0 /\ count["comment"][x] \in Nat
    BY <2>1, <2>3, Positive
  <2>5. Decreased(r, x) = count["comment"][x] - 1 /\ Decreased(r, x) # req[r].seen[x]
    BY <2>1, <2>4 DEF Decreased
  <2>6. /\ row' = [row EXCEPT ![i].state = "withdrawn"]
        /\ count' = [count EXCEPT !["comment"][x] = count["comment"][x] - 1]
    BY <1>9, <2>1, <2>5 DEF DeleteComment
  <2>7. count'["comment"][x] = count["comment"][x] - 1 /\ \A k \in Kinds \ {"comment"} : count'[k][x] = count[k][x]
    BY <1>0, <2>1, <2>6 DEF Kinds
  <2>8. row'[i].state = "withdrawn" /\ \A j \in Rows \ {i} : row'[j] = row[j]
    BY <1>0, <2>1, <2>6 DEF Row
  <2>9. Behind("comment", x)' = Behind("comment", x) \ {i}
    BY <2>8 DEF Behind
  <2>10. \A k \in Counted \ {"comment"} : Behind(k, x)' = Behind(k, x)
    BY <2>1, <2>8 DEF Behind
  <2> QED
    BY <2>1, <2>2, <2>3, <2>7, <2>9, <2>10, OneLess
<1>10. CASE BulkCommit(r)
  <2>1. /\ req[r].pc = "bulk" /\ req[r].kind = "favorite" /\ req[r].todo = {} /\ "favorite" \in Counted
        /\ req[r].gone \subseteq Rows
    BY <1>0, <1>10 DEF BulkCommit, Facts, Counted, Request
  <2>2. PICK i \in req[r].gone : row[i].item = x
    BY <1>1, <2>1
  <2>3. Live(i) /\ row[i].kind = "favorite" /\ i \in Rows /\ x \in req[r].loaded /\ req[r].seen[x] = count["favorite"][x]
    BY <1>0, <2>1, <2>2 DEF Facts, Undisturbed
  <2>4. \A j \in req[r].gone : row[j].item = x => j = i
    BY <1>0, <2>1, <2>2, <2>3 DEF Facts, Undisturbed, OneRowPerGuest
  <2>5. Viewed(x)' = Viewed(x)
    BY <1>10, <2>1, SameViews, FinishFields DEF BulkCommit
  <2>6. i \in Behind("favorite", x)
    BY <2>2, <2>3 DEF Behind, Live
  <2>7. count["favorite"][x] # 0 /\ count["favorite"][x] \in Nat
    BY <2>1, <2>6, Positive
  <2>8. Decreased(r, x) = count["favorite"][x] - 1 /\ x \in Unflushed(r) \cup req[r].held
    BY <2>3, <2>7 DEF Decreased, Unflushed
  <2>9. count'["favorite"][x] = count["favorite"][x] - 1 /\ \A k \in Kinds \ {"favorite"} : count'[k][x] = count[k][x]
    BY <1>0, <1>10, <2>1, <2>8 DEF BulkCommit, Kinds
  <2>10. row'[i].state = "withdrawn"
    BY <1>0, <1>10, <2>2, <2>3 DEF BulkCommit, Row
  <2>11. \A j \in Rows \ {i} : \/ row'[j] = row[j]
                               \/ row[j].item # x /\ row'[j].item # x
    BY <1>0, <1>10, <2>4 DEF BulkCommit, Row
  <2>12. Behind("favorite", x)' = Behind("favorite", x) \ {i}
    BY <2>10, <2>11 DEF Behind
  <2>13. \A k \in Counted \ {"favorite"} : Behind(k, x)' = Behind(k, x)
    BY <2>3, <2>10, <2>11 DEF Behind
  <2> QED
    BY <2>1, <2>5, <2>6, <2>9, <2>12, <2>13, OneLess
<1> QED
  BY <1>3, <1>4, <1>5, <1>6, <1>7, <1>8, <1>9, <1>10 DEF Continue

LEMMA ContinueAccounted ==
  ASSUME TInv, KInv, OneRowPerGuest, NEW r \in Requests, Continue(r), NEW x \in Items, item[x] # "deleted",
         Accounted(x)
  PROVE  Accounted(x)'
<1>0. /\ req[r] \in Request /\ Sound(req[r], Used) /\ Facts(r) /\ [Next]_vars
      /\ \A q \in Requests \ {r} : req'[q] = req[q]
  BY OthersKept DEF TInv, ReqOK, KInv, Next
<1>1. CASE x \notin Open(r)
  <2>1. Untouched(x) /\ \A i \in Rows : row[i].item = x /\ Live(i) => row'[i].state = "live"
    BY <1>1, ElsewhereUntouched
  <2>2. Exact(x)'
    BY <2>1, UntouchedExact DEF Accounted
  <2>3. ASSUME NEW q \in Requests, x \in Open(q)' PROVE Undisturbed(q, x)'
    <3>1. x \in Open(q) /\ q # r /\ Facts(q) /\ Undisturbed(q, x)
      BY <1>1, <2>3, OpensNoMore DEF KInv, Accounted
    <3>2. \A p \in Requests \ {q} : x \notin Open(p)'
      BY <3>1, OpensNoMore DEF Undisturbed
    <3> QED
      BY <1>0, <2>1, <3>1, <3>2, StaysUndisturbed DEF Untouched
  <2> QED
    BY <2>2, <2>3 DEF Accounted
<1>2. CASE x \in Open(r)
  <2>0. Undisturbed(r, x)
    BY <1>2 DEF Accounted
  <2>1. Exact(x)'
    BY <1>2, <2>0, EndsExact DEF Accounted
  <2>2. \A p \in Requests \ {r} : x \notin Open(p)'
    BY <2>0, OpensNoMore DEF Undisturbed
  <2>3. \/ req[r].pc \in {"item", "row", "locked"} /\ req[r].on = x
        \/ req[r].pc = "bulk"
    BY <1>0, <1>2, OpenAt
  <2>4. ASSUME req'[r].pc # "done" PROVE UNCHANGED <<row, count>>
    <3>1. ReadOwn(r) \/ LockComment(r) \/ \E i \in Rows : BulkNext(r, i)
      <4>1. req[r].todo \subseteq Rows
        BY <1>0 DEF Request
      <4> QED
        BY <2>4, <4>1, ContinueShape
    <3> QED
      BY <3>1 DEF ReadOwn, LockComment, BulkNext
  <2>5. CASE req'[r].pc = "done"
    <3>1. \A q \in Requests : x \notin Open(q)'
      BY <2>2, <2>5 DEF Open, Busy
    <3> QED
      BY <2>1, <3>1 DEF Accounted
  <2>6. ASSUME Undisturbed(r, x)' PROVE Accounted(x)'
    BY <2>1, <2>2, <2>6 DEF Accounted
  <2>7. CASE /\ req[r].pc = "item" /\ req'[r].pc = "row" /\ req[r].kind \in {"reaction", "favorite"}
             /\ req'[r].kind = req[r].kind
             /\ req'[r].todo = req[r].todo /\ req'[r].gone = req[r].gone /\ req'[r].seen = req[r].seen
             /\ \/ req'[r].mine = req[r].mine
                \/ /\ req'[r].mine \in Rows /\ Live(req'[r].mine)
    <3>1. req'[r].mine # NoRow => Live(req'[r].mine)
      BY <1>0, <2>7 DEF Facts
    <3>2. req'[r].todo = {} /\ req'[r].gone = {} /\ req'[r].seen[x] = count[req'[r].kind][x]
      BY <1>0, <2>0, <2>7 DEF Facts, Undisturbed
    <3> QED
      BY <2>2, <2>4, <2>6, <2>7, <3>1, <3>2 DEF Undisturbed, Live
  <2>8. CASE /\ req[r].pc = "row" /\ req'[r].pc = "locked" /\ req[r].kind = "comment"
             /\ req'[r].todo = req[r].todo /\ req'[r].gone = req[r].gone /\ req'[r].mine = req[r].mine
             /\ req'[r].seen[row[req[r].mine].item] = count["comment"][row[req[r].mine].item]
    <3>1. req[r].mine # NoRow /\ req[r].on = x
      BY <1>0, <2>3, <2>8 DEF Sound
    <3>2. row[req[r].mine].item = x /\ Live(req[r].mine) /\ req[r].todo = {} /\ req[r].gone = {}
      BY <1>0, <2>0, <2>8, <3>1 DEF Facts, Undisturbed
    <3> QED
      BY <2>2, <2>4, <2>6, <2>8, <3>1, <3>2 DEF Undisturbed, Live
  <2>9. ASSUME NEW i \in req[r].todo, req[r].pc = "bulk", req'[r].pc = "bulk",
               req'[r].todo = req[r].todo \ {i}, req'[r].gone = req[r].gone \cup {i},
               req'[r].loaded = IF item[row[i].item] # "deleted" THEN req[r].loaded \cup {row[i].item}
                                                                 ELSE req[r].loaded,
               req'[r].seen[row[i].item] = count["favorite"][row[i].item],
               \A y \in Items \ {row[i].item} : req'[r].seen[y] = req[r].seen[y]
        PROVE  Accounted(x)'
    <3>1. UNCHANGED <<row, count>>
      BY <2>4, <2>9
    <3>2. \A j \in req'[r].todo \cup req'[r].gone : row'[j].item = x => row'[j].state = "live"
      BY <2>0, <2>9, <3>1 DEF Undisturbed, Live
    <3>3. \A j \in req'[r].gone : row'[j].item = x => x \in req'[r].loaded
      BY <2>0, <2>9, <3>1 DEF Undisturbed
    <3>4. \A j \in req'[r].gone : row'[j].item = x => req'[r].seen[x] = count'["favorite"][x]
      BY <2>0, <2>9, <3>1 DEF Undisturbed
    <3> QED
      BY <2>2, <2>6, <2>9, <3>2, <3>3, <3>4 DEF Undisturbed, Live
  <2> QED
    BY <2>5, <2>7, <2>8, <2>9, ContinueShape
<1> QED
  BY <1>1, <1>2

LEMMA StartAccounted ==
  ASSUME TInv, KInv, NEW r \in Requests, Start(r), NEW x \in Items, x \notin raced', Accounted(x)
  PROVE  Accounted(x)'
<1>0. /\ UNCHANGED <<users, item, count, row>> /\ [Next]_vars /\ req[r].pc = "new"
      /\ \A q \in Requests \ {r} : req'[q] = req[q]
  BY StartKeeps, StartShape, OthersKept DEF Next
<1>1. Exact(x)'
  <2>1. req'[r].reply # "ok"
    BY StartShape
  <2>2. Viewed(x)' = Viewed(x)
    BY <2>1, SameViews
  <2> QED
    BY <1>0, <2>2, UntouchedExact DEF Untouched, Behind, Accounted
<1>2. Open(r) = {} /\ \A q \in Requests \ {r} : Open(q)' = Open(q)
  BY <1>0 DEF Open, Busy
<1>3. x \in Open(r)' => \A q \in Requests \ {r} : x \notin Open(q)'
  <2>1. Meets(r)
    BY DEF Start
  <2> QED
    BY <1>2, <2>1 DEF Meets
<1>4. ASSUME NEW q \in Requests, q # r, x \in Open(q)' PROVE Undisturbed(q, x)'
  <2>1. x \in Open(q) /\ Facts(q) /\ Undisturbed(q, x) /\ req'[q] = req[q]
    BY <1>0, <1>2, <1>4 DEF KInv, Accounted
  <2>2. \A p \in Requests \ {q} : x \notin Open(p)'
    BY <1>2, <1>3, <1>4, <2>1 DEF Undisturbed
  <2>3. \A i \in Rows : row[i].item = x /\ Live(i) => row'[i].state = "live"
    BY <1>0 DEF Live
  <2> QED
    BY <1>0, <2>1, <2>2, <2>3, StaysUndisturbed
<1>5. ASSUME x \in Open(r)' PROVE Undisturbed(r, x)'
  <2>1. req'[r].pc # "done"
    BY <1>5 DEF Open, Busy
  <2>2. ASSUME NEW y \in Items, req'[r].pc = "item", req'[r].on = y, req'[r].seen[y] = count[req'[r].kind][y],
               req'[r].todo = {}, req'[r].gone = {}
        PROVE  Undisturbed(r, x)'
    <3>1. x = y
      BY <1>5, <2>2 DEF Open, Busy
    <3> QED
      BY <1>0, <1>3, <1>5, <2>2, <3>1 DEF Undisturbed
  <2>3. ASSUME NEW i \in Rows, req'[r].pc = "row", req'[r].kind = "comment", req'[r].mine = i, Live(i),
               req'[r].todo = {}, req'[r].gone = {}
        PROVE  Undisturbed(r, x)'
    BY <1>0, <1>3, <1>5, <2>3 DEF Undisturbed, Live
  <2>4. ASSUME req'[r].pc = "bulk", req'[r].gone = {}, \A i \in req'[r].todo : Live(i)
        PROVE  Undisturbed(r, x)'
    BY <1>0, <1>3, <1>5, <2>4 DEF Undisturbed, Live
  <2> QED
    BY <2>1, <2>2, <2>3, <2>4, StartShape
<1> QED
  BY <1>1, <1>4, <1>5 DEF Accounted

LEMMA SameOpen ==
  ASSUME TInv, req' = req, \A i \in Rows : row'[i].item = row[i].item
  PROVE  \A q \in Requests : Open(q)' = Open(q)
<1> SUFFICES ASSUME NEW q \in Requests PROVE Open(q)' = Open(q)
  OBVIOUS
<1>1. req[q].todo \cup req[q].gone \subseteq Rows
  BY DEF TInv, ReqOK, Request
<1>2. {row'[i].item : i \in req[q].todo \cup req[q].gone} = {row[i].item : i \in req[q].todo \cup req[q].gone}
  BY <1>1
<1> QED
  BY <1>2 DEF Open, Busy

\* A step of no request.
LEMMA BystandersAccounted ==
  ASSUME TInv, KInv, [Next]_vars, req' = req, NEW x \in Items, Accounted(x),
         \A kind \in Kinds : count'[kind][x] = count[kind][x],
         \A i \in Rows : row[i].item = x => row'[i] = row[i],
         \A i \in Rows : row'[i].item = row[i].item
  PROVE  Accounted(x)'
<1>1. Exact(x)'
  BY UntouchedExact DEF Untouched, Behind, Viewed, Accounted
<1>2. \A q \in Requests : Open(q)' = Open(q)
  BY SameOpen
<1>3. ASSUME NEW q \in Requests, x \in Open(q)' PROVE Undisturbed(q, x)'
  <2>1. x \in Open(q) /\ Facts(q) /\ Undisturbed(q, x)
    BY <1>2, <1>3 DEF KInv, Accounted
  <2>2. \A p \in Requests \ {q} : x \notin Open(p)'
    BY <1>2, <2>1 DEF Undisturbed
  <2>3. \A i \in Rows : row[i].item = x /\ Live(i) => row'[i].state = "live"
    BY DEF Live
  <2> QED
    BY <2>1, <2>2, <2>3, StaysUndisturbed
<1> QED
  BY <1>1, <1>3 DEF Accounted

LEMMA KnownStep == TInv /\ OneRowPerGuest /\ KInv /\ [Next]_vars => KInv'
<1> SUFFICES ASSUME TInv, OneRowPerGuest, KInv, [Next]_vars PROVE KInv'
  OBVIOUS
<1>0. /\ row \in [Rows -> Row] /\ item \in [Items -> {"shown", "hidden", "deleted"}]
      /\ count \in [Kinds -> [Items -> Nat]]
  BY DEF TInv, RowOK, RestOK, CountOK
<1>1. \A r \in Requests : Facts(r)'
  BY FactsStep DEF KInv
<1> SUFFICES ASSUME NEW x \in Items, x \notin raced', item'[x] # "deleted" PROVE Accounted(x)'
  BY <1>1 DEF KInv, AllAccounted
<1>2. ASSUME x \notin raced, item[x] # "deleted" PROVE Accounted(x)
  BY <1>2 DEF KInv, AllAccounted
<1>3. ASSUME NEW r \in Requests, Start(r) PROVE Accounted(x)'
  <2>1. x \notin raced /\ item[x] # "deleted"
    BY <1>3, StartKeeps DEF Start, Meets
  <2> QED
    BY <1>2, <1>3, <2>1, StartAccounted
<1>4. ASSUME NEW r \in Requests, Continue(r) PROVE Accounted(x)'
  <2>1. x \notin raced /\ item[x] # "deleted"
    BY <1>4, RequestRefs DEF Continue
  <2> QED
    BY <1>2, <1>4, <2>1, ContinueAccounted
<1>5. ASSUME NEW y \in Items, DeleteItem(y) PROVE Accounted(x)'
  <2>1. x # y /\ x \notin raced /\ item[x] # "deleted" /\ req' = req
    BY <1>0, <1>5 DEF DeleteItem
  <2>2. \A kind \in Kinds : count'[kind][x] = count[kind][x]
    BY <1>0, <1>5, <2>1 DEF DeleteItem
  <2>3. \A i \in Rows : row'[i].item = row[i].item /\ (row[i].item = x => row'[i] = row[i])
    BY <1>0, <1>5, <2>1, Withdraws DEF DeleteItem
  <2> QED
    BY <1>2, <2>1, <2>2, <2>3, BystandersAccounted
<1>6. ASSUME NEW y \in Items, NEW visible \in BOOLEAN, SetVisibility(y, visible) PROVE Accounted(x)'
  <2>1. x \notin raced /\ item[x] # "deleted" /\ UNCHANGED <<req, row, count>>
    BY <1>0, <1>6 DEF SetVisibility
  <2> QED
    BY <1>2, <2>1, BystandersAccounted
<1>7. ASSUME NEW u \in Users, DeleteUser(u) PROVE Accounted(x)'
  <2>1. x \notin raced /\ item[x] # "deleted" /\ UNCHANGED <<req, count>> /\ \A q \in Requests : x \notin Open(q)
    BY <1>7 DEF DeleteUser
  <2>2. \A i \in Rows : /\ row'[i].item = row[i].item /\ row'[i].kind = row[i].kind
                        /\ row'[i].state \in {"live", "lost"} <=> row[i].state \in {"live", "lost"}
    BY <1>0, <1>7, Withdraws DEF DeleteUser, Live
  <2>3. Exact(x)'
    BY <1>2, <2>1, <2>2, UntouchedExact DEF Untouched, Behind, Viewed, Accounted
  <2>4. \A q \in Requests : Open(q)' = Open(q)
    BY <2>1, <2>2, SameOpen
  <2> QED
    BY <2>1, <2>3, <2>4 DEF Accounted
<1>8. CASE UNCHANGED vars
  <2>1. x \notin raced /\ item[x] # "deleted" /\ UNCHANGED <<req, row, count>>
    BY <1>8 DEF vars
  <2> QED
    BY <1>2, <2>1, BystandersAccounted
<1> QED
  BY <1>3, <1>4, <1>5, <1>6, <1>7, <1>8 DEF Next

\* The counts on an item are the rows behind it, and its views the views answered, as long
\* as no two requests met there: counting in Python from a SELECT is exact but for that.
THEOREM CountsAreAccounted == Spec => []CountsAccountedFor
<1>1. KInv => CountsAccountedFor
  BY DEF KInv, AllAccounted, Accounted, Exact, Behind, Viewed, CountsAccountedFor
<1>2. Init => OneRowPerGuest
  BY DEF Init, NewRow, Live, OneRowPerGuest
<1> QED
  BY <1>1, <1>2, KnownInit, KnownStep, UniqueStep, TypeInit, TypeStep, PTL DEF Spec

-----------------------------------------------------------------------------
(* Every request ends (the safety half of EveryRequestEnds): what it has left to *)
(* do shrinks with each of its steps, and when all wait for locks, some of them  *)
(* wait in a circle, which the database breaks.                                *)

\* The steps a request has left, at most.
Remaining(q) ==
    CASE q.pc = "item" -> 3
      [] q.pc = "row" -> 2
      [] q.pc = "locked" -> 1
      [] q.pc = "bulk" -> 1 + Cardinality(q.todo)
      [] OTHER -> 0

\* Nothing another request or a deletion does gives a request more to do: it keeps what it
\* has, or has fewer steps left.
StepsRunOut ==
    [][\A r \in Requests : Busy(r) => req'[r] = req[r] \/ Remaining(req'[r]) < Remaining(req[r])]_vars

LEMMA RemainingShrinks ==
  ASSUME TInv, NEW r \in Requests, Busy(r), Continue(r)
  PROVE  Remaining(req'[r]) < Remaining(req[r])
<1>0. req[r] \in Request /\ Sound(req[r], Used)
  BY DEF TInv, ReqOK
<1>1. IsFiniteSet(req[r].todo)
  BY <1>0, FS_Subset, ConstantsAssumption DEF Request
<1>2. Cardinality(req[r].todo) \in Nat
  BY <1>1, FS_CardinalityType
<1>3. req[r].pc \in {"item", "row", "locked", "bulk"}
  BY <1>0 DEF Busy, Request
<1>4. CASE req'[r].pc = "done"
  BY <1>2, <1>3, <1>4 DEF Remaining
<1>5. CASE req[r].pc = "item" /\ req'[r].pc = "row"
  BY <1>5 DEF Remaining
<1>6. CASE req[r].pc = "row" /\ req'[r].pc = "locked"
  BY <1>6 DEF Remaining
<1>7. ASSUME NEW i \in req[r].todo, req[r].pc = "bulk", req'[r].pc = "bulk", req'[r].todo = req[r].todo \ {i}
      PROVE  Remaining(req'[r]) < Remaining(req[r])
  <2>1. Cardinality(req'[r].todo) = Cardinality(req[r].todo) - 1
    BY <1>1, <1>7, FS_RemoveElement
  <2> QED
    BY <1>2, <1>7, <2>1 DEF Remaining
<1> QED
  BY <1>4, <1>5, <1>6, <1>7, ContinueShape

\* A request that has begun is not begun again, and what it has left to do shrinks with
\* every step of its own, whatever is deleted or moderated meanwhile.
THEOREM RequestsRunOut == Spec => StepsRunOut
<1>1. TInv /\ [Next]_vars =>
        \A r \in Requests : Busy(r) => req'[r] = req[r] \/ Remaining(req'[r]) < Remaining(req[r])
  <2> SUFFICES ASSUME TInv, [Next]_vars, NEW r \in Requests, Busy(r)
               PROVE  req'[r] = req[r] \/ Remaining(req'[r]) < Remaining(req[r])
    OBVIOUS
  <2>1. CASE Continue(r)
    BY <2>1, RemainingShrinks
  <2>2. CASE Start(r)
    BY <2>2, StartShape DEF Busy
  <2>3. ASSUME NEW q \in Requests, q # r, Start(q) \/ Continue(q) PROVE req'[r] = req[r]
    BY <2>3, OthersKept
  <2>4. CASE req' = req
    BY <2>4
  <2> QED
    BY <2>1, <2>2, <2>3, <2>4 DEF Next, SetVisibility, DeleteItem, DeleteUser, vars
<1> QED
  BY <1>1, TypeInit, TypeStep, PTL DEF Spec, StepsRunOut

\* Only bulk removals keep an item locked from one step to the next.
HeldByBulk == \A r \in Requests : req[r].held # {} => req[r].pc = "bulk"

LEMMA HeldStep ==
  ASSUME TInv, HeldByBulk, NEW r \in Requests, Start(r) \/ Continue(r)
  PROVE  req'[r].held # {} => req'[r].pc = "bulk"
<1>0. req \in [Requests -> Request] /\ req[r] \in Request
  BY DEF TInv, ReqOK
<1>1. ASSUME NEW reply \in {"ok", "refused", "error"}, Finish(r, reply) PROVE req'[r].held = {}
  BY <1>0, <1>1 DEF Finish, Ended, Request
<1>2. CASE Start(r)
  <2>1. ASSUME NEW u \in Users, NEW kind \in Kinds, NEW x \in Items, NEW type \in Types \cup {NoType},
               ReadItem(r, u, kind, x, type)
        PROVE  req'[r].held = {}
    <3> DEFINE o == Opened(u, kind, x, type, "item")
               new == [o EXCEPT !.loaded = {x}, !.seen[x] = count[kind][x]]
    <3>1. o \in Request /\ o.held = {}
      BY OpenedIsSound
    <3>2. req' = [req EXCEPT ![r] = IF item[x] = "shown" THEN new ELSE Ended(new, "refused")]
      BY <2>1 DEF ReadItem
    <3> HIDE DEF o
    <3>3. new.held = {}
      BY <3>1 DEF Request
    <3>4. Ended(new, "refused").held = {}
      BY <3>1 DEF Request, Ended
    <3> HIDE DEF new
    <3> QED
      BY <1>0, <3>2, <3>3, <3>4
  <2>2. ASSUME NEW u \in Users, NEW i \in Rows, ReadComment(r, u, i) PROVE req'[r].held = {}
    <3> DEFINE o == Opened(u, "comment", row[i].item, NoType, "row")
               new == [o EXCEPT !.mine = i]
    <3>0. row[i].item \in Items
      BY <2>2 DEF ReadComment, TInv, RowOK, Used
    <3>1. o \in Request /\ o.held = {}
      BY <3>0, OpenedIsSound DEF Kinds, Counted
    <3>2. req' = [req EXCEPT ![r] = IF Live(i) /\ (row[i].user = u \/ u \in Admins)
                                      THEN new ELSE Ended(new, "refused")]
      BY <2>2 DEF ReadComment
    <3> HIDE DEF o
    <3>3. new.held = {}
      BY <3>1 DEF Request
    <3>4. Ended(new, "refused").held = {}
      BY <3>1 DEF Request, Ended
    <3> HIDE DEF new
    <3> QED
      BY <1>0, <3>2, <3>3, <3>4
  <2>3. ASSUME NEW u \in Users, NEW xs \in SUBSET Items, BulkRead(r, u, xs) PROVE req'[r].pc = "bulk"
    <3>1. req[r].pc = "new" /\ req'[r].pc # "done" /\ req'[r].pc # "item" /\ req'[r].pc # "row"
      <4> DEFINE o == Opened(u, "favorite", NoItem, NoType, "bulk")
                 todo == {i \in Rows : Live(i) /\ row[i].kind = "favorite" /\ row[i].user = u /\ row[i].item \in xs}
                 new == [o EXCEPT !.todo = todo]
      <4>1. o.pc = "bulk" /\ o \in Request
        <5>1. /\ u \in Users \cup {NoUser} /\ NoItem \in Items \cup {NoItem}
              /\ NoType \in Types \cup {NoType} /\ "favorite" \in Kinds
          BY DEF Kinds, Counted
        <5> QED
          BY <5>1, OpenedIsSound, SMT
      <4>2. req' = [req EXCEPT ![r] = new] /\ req[r].pc = "new"
        BY <2>3 DEF BulkRead, MayStart
      <4> HIDE DEF o, todo
      <4>3. new.pc = "bulk"
        BY <4>1 DEF Request
      <4> QED
        BY <1>0, <4>2, <4>3
    <3> QED
      BY <1>2, <3>1, StartShape
  <2> QED
    BY <1>2, <2>1, <2>2, <2>3 DEF Start
<1>3. CASE Continue(r)
  <2>1. CASE ReadOwn(r)
    <3>1. \/ req' = [req EXCEPT ![r].pc = "row"]
          \/ \E i \in Rows : req' = [req EXCEPT ![r].pc = "row", ![r].mine = i, ![r].was = row[i].type]
      BY <2>1 DEF ReadOwn
    <3>2. req'[r].held = req[r].held
      <4>1. CASE req' = [req EXCEPT ![r].pc = "row"]
        BY <1>0, <4>1 DEF Request
      <4>2. ASSUME NEW i \in Rows, req' = [req EXCEPT ![r].pc = "row", ![r].mine = i, ![r].was = row[i].type]
            PROVE  req'[r].held = req[r].held
        BY <1>0, <4>2 DEF Request
      <4> QED
        BY <3>1, <4>1, <4>2
    <3>3. req[r].pc = "item"
      BY <2>1 DEF ReadOwn
    <3> QED
      BY <3>2, <3>3 DEF HeldByBulk
  <2>2. CASE LockComment(r)
    <3>1. CASE Finish(r, "error")
      BY <1>1, <3>1
    <3>2. CASE req' = [req EXCEPT ![r].pc = "locked", ![r].loaded = {row[req[r].mine].item},
                                  ![r].seen[row[req[r].mine].item] = count["comment"][row[req[r].mine].item]]
      <4>1. req'[r].held = req[r].held
        BY <1>0, <3>2 DEF Request
      <4> QED
        BY <2>2, <4>1 DEF HeldByBulk, LockComment
    <3> QED
      BY <2>2, <3>1, <3>2 DEF LockComment
  <2>3. ASSUME NEW i \in Rows, BulkNext(r, i) PROVE req'[r].pc = "bulk"
    BY <1>0, <2>3 DEF BulkNext, Request
  <2>4. ASSUME \/ ToggleOn(r) \/ ToggleOff(r) \/ Switch(r) \/ AddComment(r) \/ IncrementView(r)
               \/ DeleteComment(r) \/ BulkCommit(r) \/ BulkFails(r) \/ DeadlockAbort(r)
        PROVE  req'[r].held = {}
    <3>1. Finish(r, "ok") \/ Finish(r, "error")
      BY <2>4 DEF ToggleOn, AddComment, Insert, ToggleOff, Switch, IncrementView, DeleteComment, BulkCommit,
          BulkFails, DeadlockAbort
    <3> QED
      BY <1>1, <3>1
  <2> QED
    BY <1>3, <2>1, <2>2, <2>3, <2>4 DEF Continue
<1> QED
  BY <1>2, <1>3

LEMMA HeldNext == TInv /\ HeldByBulk /\ [Next]_vars => HeldByBulk'
<1> SUFFICES ASSUME TInv, HeldByBulk, [Next]_vars, NEW q \in Requests
             PROVE  req'[q].held # {} => req'[q].pc = "bulk"
  BY DEF HeldByBulk
<1>1. ASSUME NEW r \in Requests, Start(r) \/ Continue(r) PROVE req'[q].held # {} => req'[q].pc = "bulk"
  BY <1>1, HeldStep, OthersKept DEF HeldByBulk
<1>2. CASE req' = req
  BY <1>2 DEF HeldByBulk
<1> QED
  BY <1>1, <1>2 DEF Next, SetVisibility, DeleteItem, DeleteUser, vars

\* What keeps the next step of a request waiting: the media row it updates is held, or the
\* comment it deletes.  (A bulk removal that finds a media row gone does not wait: it fails.)
Waits(r) ==
    LET q == req[r]
        writes == Decreased(r, q.on) # q.seen[q.on]
    IN  \/ q.pc = "item" /\ q.kind \in {"comment", "view"} /\ Blocked(r, q.on)
        \/ q.pc = "row" /\ q.kind # "comment" /\ q.mine = NoRow /\ Blocked(r, q.on)
        \/ q.pc = "row" /\ q.kind # "comment" /\ q.mine # NoRow /\ q.was = q.type /\ writes /\ Blocked(r, q.on)
        \/ q.pc = "row" /\ q.kind = "comment" /\ ~Unlocked(q.mine)
        \/ q.pc = "locked" /\ writes /\ Blocked(r, q.on)
        \/ /\ q.pc = "bulk"
           /\ \E x \in Unflushed(r) : Blocked(r, x)
           /\ \A x \in Unflushed(r) : item[x] # "deleted"

\* Requests that can only wait for each other do so in a circle of bulk removals: there is
\* a set of them that all wait for one another, one of which DeadlockAbort ends.
NoGridlock ==
    (\E r \in Requests : Busy(r)) /\ (\A r \in Requests : Busy(r) => Waits(r))
        => \E circle \in SUBSET Requests :
              circle # {} /\ \A p \in circle : \E q \in circle : WaitsFor(p, q)

LEMMA HeldGivesCircle == HeldByBulk => NoGridlock
<1> SUFFICES ASSUME HeldByBulk, \A r \in Requests : Busy(r) => Waits(r), NEW r \in Requests, Busy(r)
             PROVE  \E circle \in SUBSET Requests :
                       circle # {} /\ \A p \in circle : \E q \in circle : WaitsFor(p, q)
  BY DEF NoGridlock
<1> DEFINE circle == {p \in Requests : req[p].pc = "bulk"}
<1>1. ASSUME NEW p \in Requests, NEW x, Blocked(p, x)
      PROVE  \E q \in circle : q # p /\ x \in req[q].held
  BY <1>1 DEF Blocked, HeldByBulk
<1>2. ASSUME NEW p \in circle PROVE \E q \in circle : WaitsFor(p, q)
  <2>1. Waits(p) /\ req[p].pc = "bulk"
    BY DEF Busy
  <2>2. PICK x \in Unflushed(p) : Blocked(p, x)
    BY <2>1 DEF Waits
  <2> QED
    BY <1>1, <2>1, <2>2 DEF WaitsFor
<1>3. ASSUME NEW p \in Requests, req[p].pc = "locked" PROVE circle # {}
  <2>1. Waits(p)
    BY <1>3 DEF Busy
  <2> QED
    BY <1>1, <1>3, <2>1 DEF Waits
<1>4. circle # {}
  <2>1. Waits(r)
    OBVIOUS
  <2>2. CASE req[r].pc = "row" /\ req[r].kind = "comment" /\ ~Unlocked(req[r].mine)
    BY <1>3, <2>2 DEF Unlocked
  <2> QED
    BY <1>1, <2>1, <2>2 DEF Waits
<1> QED
  BY <1>2, <1>4

\* No lock order is needed for requests to end: whenever all of them wait, the database
\* finds a circle to break.
THEOREM CirclesAreBroken == Spec => []NoGridlock
<1>1. Init => HeldByBulk
  <2>1. /\ NoUser \in Users \cup {NoUser} /\ NoItem \in Items \cup {NoItem}
        /\ NoType \in Types \cup {NoType} /\ "view" \in Kinds
    BY DEF Kinds
  <2>2. Opened(NoUser, "view", NoItem, NoType, "new").held = {}
    BY <2>1, OpenedIsSound, SMT
  <2> QED
    BY <2>2 DEF Init, HeldByBulk
<1> QED
  BY <1>1, HeldNext, HeldGivesCircle, TypeInit, TypeStep, PTL DEF Spec

-----------------------------------------------------------------------------
(* The refinement of Engagement.  It needs to know for whom and about what each  *)
(* request works.                                                              *)

\* A request is made by a guest, reads that guest's rows, or a comment that the guest may
\* delete; only reactions have a type.
Asked(r) ==
    LET q == req[r] IN
    /\ q.pc = "new" => q.user = NoUser /\ q.kind = "view" /\ q.on = NoItem /\ q.reply = "none"
    /\ q.pc # "new" => q.user \in Users
    /\ q.kind # "reaction" => q.type = NoType /\ q.was = NoType
    /\ q.kind = "reaction" => q.type \in Types
    /\ q.pc = "row" /\ q.mine # NoRow /\ q.kind # "comment" => row[q.mine].user = q.user
    /\ q.pc \in {"row", "locked"} /\ q.kind = "comment" => row[q.mine].user = q.user \/ q.user \in Admins

Typed == \A i \in Used : row[i].kind # "reaction" => row[i].type = NoType

AInv == (\A r \in Requests : Asked(r)) /\ Typed

LEMMA OpenedIsTyped ==
  ASSUME NEW u \in Users \cup {NoUser}, NEW kind \in Kinds, NEW x \in Items \cup {NoItem},
         NEW type \in Types \cup {NoType}, NEW pc \in {"new", "item", "row", "locked", "bulk", "done"}
  PROVE  Opened(u, kind, x, type, pc).type = type /\ Opened(u, kind, x, type, pc).was = NoType
BY DEF Opened

LEMMA StartCall ==
  ASSUME TInv, NEW r \in Requests, Start(r)
  PROVE  /\ req[r].pc = "new" /\ req'[r].pc # "new" /\ req'[r].pc # "locked"
         /\ req'[r].user \in users /\ req'[r].kind \in Kinds /\ req'[r].on \in Items \cup {NoItem}
         /\ req'[r].reply \in {"none", "refused"} /\ req'[r].was = NoType
         /\ req'[r].kind # "reaction" => req'[r].type = NoType
         /\ req'[r].kind = "reaction" => req'[r].type \in Types
         /\ req'[r].pc = "row" => /\ req'[r].kind = "comment"
                                  /\ row[req'[r].mine].user = req'[r].user \/ req'[r].user \in Admins
<1>0. req \in [Requests -> Request] /\ users \subseteq Users
  BY DEF TInv, ReqOK, RestOK
<1> DEFINE Begun(q) ==
             /\ q.pc # "new" /\ q.pc # "locked"
             /\ q.user \in users /\ q.kind \in Kinds /\ q.on \in Items \cup {NoItem}
             /\ q.reply \in {"none", "refused"} /\ q.was = NoType
             /\ q.kind # "reaction" => q.type = NoType
             /\ q.kind = "reaction" => q.type \in Types
             /\ q.pc = "row" => /\ q.kind = "comment"
                                /\ row[q.mine].user = q.user \/ q.user \in Admins
<1>e. ASSUME NEW q \in Request, Begun(q) PROVE Begun(Ended(q, "refused"))
  BY <1>e, EndedFields
<1>1. ASSUME NEW u \in Users, NEW kind \in Kinds, NEW x \in Items, NEW type \in Types \cup {NoType},
             ReadItem(r, u, kind, x, type)
      PROVE  req[r].pc = "new" /\ Begun(req'[r])
  <2> DEFINE o == Opened(u, kind, x, type, "item")
             new == [o EXCEPT !.loaded = {x}, !.seen[x] = count[kind][x]]
  <2>1. /\ o \in Request /\ o.pc = "item" /\ o.kind = kind /\ o.on = x /\ o.user = u
        /\ o.reply = "none" /\ o.type = type /\ o.was = NoType
    BY OpenedIsSound, OpenedIsTyped
  <2>2. count[kind][x] \in Nat
    BY DEF TInv, CountOK
  <2>3. /\ req' = [req EXCEPT ![r] = IF item[x] = "shown" THEN new ELSE Ended(new, "refused")]
        /\ req[r].pc = "new" /\ u \in users
        /\ (IF kind = "reaction" THEN type \in Types ELSE type = NoType)
    BY <1>1 DEF ReadItem, MayStart
  <2> HIDE DEF o
  <2>4. /\ new \in Request /\ new.pc = "item" /\ new.kind = kind /\ new.on = x /\ new.user = u
        /\ new.reply = "none" /\ new.type = type /\ new.was = NoType
    BY <2>1, <2>2 DEF Request
  <2> HIDE DEF new
  <2>5. Begun(new)
    BY <2>3, <2>4
  <2>6. Begun(Ended(new, "refused"))
    BY <1>e, <2>4, <2>5
  <2>7. req'[r] = new \/ req'[r] = Ended(new, "refused")
    BY <1>0, <2>3
  <2> HIDE DEF Begun
  <2> QED
    BY <2>3, <2>5, <2>6, <2>7
<1>2. ASSUME NEW u \in Users, NEW i \in Rows, ReadComment(r, u, i)
      PROVE  req[r].pc = "new" /\ Begun(req'[r])
  <2> DEFINE o == Opened(u, "comment", row[i].item, NoType, "row")
             new == [o EXCEPT !.mine = i]
  <2>1. row[i].item \in Items
    BY <1>2 DEF ReadComment, TInv, RowOK, Used
  <2>2. /\ o \in Request /\ o.pc = "row" /\ o.kind = "comment" /\ o.on = row[i].item /\ o.user = u
        /\ o.reply = "none" /\ o.type = NoType /\ o.was = NoType
    BY <2>1, OpenedIsSound, OpenedIsTyped DEF Kinds, Counted
  <2>3. /\ req' = [req EXCEPT ![r] = IF Live(i) /\ (row[i].user = u \/ u \in Admins)
                                       THEN new ELSE Ended(new, "refused")]
        /\ req[r].pc = "new" /\ u \in users
    BY <1>2 DEF ReadComment, MayStart
  <2> HIDE DEF o
  <2>4. /\ new \in Request /\ new.pc = "row" /\ new.kind = "comment" /\ new.on = row[i].item /\ new.user = u
        /\ new.mine = i /\ new.reply = "none" /\ new.type = NoType /\ new.was = NoType
    BY <2>2 DEF Request
  <2> HIDE DEF new
  <2>5. CASE req'[r] = new /\ (row[i].user = u \/ u \in Admins)
    <3>1. Begun(new)
      BY <2>1, <2>3, <2>4, <2>5 DEF Kinds, Counted
    <3> HIDE DEF Begun
    <3> QED
      BY <2>3, <2>5, <3>1
  <2>6. CASE req'[r] = Ended(new, "refused")
    <3> DEFINE f == Ended(new, "refused")
    <3>1. /\ f.pc = "done" /\ f.kind = "comment" /\ f.on = row[i].item /\ f.user = u
          /\ f.reply = "refused" /\ f.type = NoType /\ f.was = NoType
      BY <2>4, EndedFields
    <3> HIDE DEF f
    <3>2. Begun(f)
      BY <2>1, <2>3, <3>1 DEF Kinds, Counted
    <3> HIDE DEF Begun
    <3> QED
      BY <2>3, <2>6, <3>2 DEF f
  <2> HIDE DEF Begun
  <2> QED
    BY <1>0, <2>3, <2>5, <2>6
<1>3. ASSUME NEW u \in Users, NEW xs \in SUBSET Items, BulkRead(r, u, xs)
      PROVE  req[r].pc = "new" /\ Begun(req'[r])
  <2> DEFINE o == Opened(u, "favorite", NoItem, NoType, "bulk")
             todo == {i \in Rows : Live(i) /\ row[i].kind = "favorite" /\ row[i].user = u /\ row[i].item \in xs}
             new == [o EXCEPT !.todo = todo]
  <2>1. /\ u \in Users \cup {NoUser} /\ NoItem \in Items \cup {NoItem}
        /\ NoType \in Types \cup {NoType} /\ "favorite" \in Kinds
    BY DEF Kinds, Counted
  <2>2. /\ o \in Request /\ o.pc = "bulk" /\ o.kind = "favorite" /\ o.on = NoItem /\ o.user = u
        /\ o.reply = "none" /\ o.type = NoType /\ o.was = NoType
    <3>1. o \in Request /\ o.pc = "bulk" /\ o.kind = "favorite"
      BY <2>1, OpenedIsSound, SMT
    <3>2. o.on = NoItem
      BY <2>1, OpenedIsSound, SMT
    <3>3. o.user = u /\ o.reply = "none"
      BY <2>1, OpenedIsSound, SMT
    <3>4. o.type = NoType /\ o.was = NoType
      BY <2>1, OpenedIsTyped, SMT
    <3> QED
      BY <3>1, <3>2, <3>3, <3>4
  <2>3. req' = [req EXCEPT ![r] = new] /\ req[r].pc = "new" /\ u \in users
    BY <1>3 DEF BulkRead, MayStart
  <2> HIDE DEF o, todo
  <2>4. /\ new.pc = "bulk" /\ new.kind = "favorite" /\ new.on = NoItem /\ new.user = u
        /\ new.reply = "none" /\ new.type = NoType /\ new.was = NoType
    BY <2>2 DEF Request
  <2> HIDE DEF new
  <2>5. Begun(new)
    BY <2>1, <2>3, <2>4
  <2> HIDE DEF Begun
  <2> QED
    BY <1>0, <2>3, <2>5
<1>4. req[r].pc = "new" /\ Begun(req'[r])
  <2> HIDE DEF Begun
  <2> QED
    BY <1>1, <1>2, <1>3 DEF Start
<1> QED
  BY <1>4

LEMMA ContinueCall ==
  ASSUME TInv, NEW r \in Requests, Continue(r)
  PROVE  /\ req[r].pc # "new" /\ req'[r].pc # "new"
         /\ req'[r].user = req[r].user /\ req'[r].kind = req[r].kind /\ req'[r].on = req[r].on
         /\ req'[r].type = req[r].type
         /\ \/ req'[r].was = req[r].was /\ (req'[r].pc \in {"row", "locked"} => req'[r].mine = req[r].mine)
            \/ /\ req[r].kind \in {"reaction", "favorite"}
               /\ \E i \in Used : /\ row[i].kind = req[r].kind /\ row[i].user = req[r].user
                                  /\ req'[r].was = row[i].type /\ req'[r].mine = i
<1>0. req \in [Requests -> Request] /\ req[r] \in Request /\ Sound(req[r], Used)
  BY DEF TInv, ReqOK
<1>1. ASSUME NEW reply \in {"ok", "refused", "error"}, Finish(r, reply)
      PROVE  /\ req'[r].pc = "done"
             /\ req'[r].user = req[r].user /\ req'[r].kind = req[r].kind /\ req'[r].on = req[r].on
             /\ req'[r].type = req[r].type /\ req'[r].was = req[r].was
  BY <1>0, <1>1, EndedFields DEF Finish
<1>2. CASE ReadOwn(r)
  <2>0. req[r].pc = "item" /\ req[r].kind \in {"reaction", "favorite"}
    BY <1>2 DEF ReadOwn
  <2>1. CASE req' = [req EXCEPT ![r].pc = "row"]
    <3>1. /\ req'[r].pc = "row" /\ req'[r].mine = req[r].mine
          /\ req'[r].user = req[r].user /\ req'[r].kind = req[r].kind /\ req'[r].on = req[r].on
          /\ req'[r].type = req[r].type /\ req'[r].was = req[r].was
      BY <1>0, <2>1 DEF Request
    <3> QED
      BY <2>0, <3>1
  <2>2. ASSUME NEW i \in Rows, Live(i), row[i].kind = req[r].kind, row[i].user = req[r].user,
               req' = [req EXCEPT ![r].pc = "row", ![r].mine = i, ![r].was = row[i].type]
        PROVE  /\ req'[r].pc = "row" /\ req'[r].mine = i /\ i \in Used
               /\ req'[r].user = req[r].user /\ req'[r].kind = req[r].kind /\ req'[r].on = req[r].on
               /\ req'[r].type = req[r].type /\ req'[r].was = row[i].type
    <3>1. i \in Used
      BY <2>2 DEF Live, Used
    <3>2. /\ req'[r].pc = "row" /\ req'[r].mine = i
          /\ req'[r].user = req[r].user /\ req'[r].kind = req[r].kind /\ req'[r].on = req[r].on
          /\ req'[r].type = req[r].type /\ req'[r].was = row[i].type
      BY <1>0, <2>2 DEF Request
    <3> QED
      BY <3>1, <3>2
  <2>3. \/ req' = [req EXCEPT ![r].pc = "row"]
        \/ \E i \in Rows : /\ Live(i) /\ row[i].kind = req[r].kind /\ row[i].user = req[r].user
                           /\ req' = [req EXCEPT ![r].pc = "row", ![r].mine = i, ![r].was = row[i].type]
    BY <1>2 DEF ReadOwn
  <2>4. ASSUME NEW i \in Rows, Live(i), row[i].kind = req[r].kind, row[i].user = req[r].user,
               req' = [req EXCEPT ![r].pc = "row", ![r].mine = i, ![r].was = row[i].type]
        PROVE  /\ req[r].pc # "new" /\ req'[r].pc # "new"
               /\ req'[r].user = req[r].user /\ req'[r].kind = req[r].kind /\ req'[r].on = req[r].on
               /\ req'[r].type = req[r].type
               /\ req[r].kind \in {"reaction", "favorite"}
               /\ \E j \in Used : /\ row[j].kind = req[r].kind /\ row[j].user = req[r].user
                                  /\ req'[r].was = row[j].type /\ req'[r].mine = j
    BY <2>0, <2>2, <2>4
  <2> QED
    BY <2>1, <2>3, <2>4
<1>3. CASE LockComment(r)
  <2> DEFINE x == row[req[r].mine].item
  <2>0. req[r].pc = "row"
    BY <1>3 DEF LockComment
  <2>2. CASE Finish(r, "error")
    BY <1>1, <2>0, <2>2
  <2>3. CASE req' = [req EXCEPT ![r].pc = "locked", ![r].loaded = {x}, ![r].seen[x] = count["comment"][x]]
    <3>1. /\ req'[r].pc = "locked" /\ req'[r].mine = req[r].mine
          /\ req'[r].user = req[r].user /\ req'[r].kind = req[r].kind /\ req'[r].on = req[r].on
          /\ req'[r].type = req[r].type /\ req'[r].was = req[r].was
      BY <1>0, <2>3 DEF Request
    <3> QED
      BY <2>0, <3>1
  <2> QED
    BY <1>3, <2>2, <2>3 DEF LockComment
<1>4. ASSUME NEW i \in Rows, BulkNext(r, i)
      PROVE  /\ req[r].pc = "bulk" /\ req'[r].pc = "bulk"
             /\ req'[r].user = req[r].user /\ req'[r].kind = req[r].kind /\ req'[r].on = req[r].on
             /\ req'[r].type = req[r].type /\ req'[r].was = req[r].was
  <2> DEFINE x == row[i].item
             unflushed == Unflushed(r)
  <2>1. /\ req[r].pc = "bulk"
        /\ req' = [req EXCEPT ![r].todo = @ \ {i}, ![r].gone = @ \cup {i}, ![r].held = @ \cup unflushed,
                              ![r].loaded = IF item[x] # "deleted" THEN @ \cup {x} ELSE @,
                              ![r].seen[x] = count["favorite"][x]]
    BY <1>4 DEF BulkNext
  <2> HIDE DEF unflushed, x
  <2> QED
    BY <1>0, <2>1 DEF Request
<1>5. ASSUME \/ ToggleOn(r) \/ ToggleOff(r) \/ Switch(r) \/ AddComment(r) \/ IncrementView(r)
             \/ DeleteComment(r) \/ BulkCommit(r) \/ BulkFails(r) \/ DeadlockAbort(r)
      PROVE  req[r].pc # "new" /\ (Finish(r, "ok") \/ Finish(r, "error"))
  BY <1>5 DEF ToggleOn, AddComment, Insert, ToggleOff, Switch, IncrementView, DeleteComment, BulkCommit, BulkFails,
      DeadlockAbort, WaitsFor
<1> QED
  BY <1>1, <1>2, <1>3, <1>4, <1>5 DEF Continue

\* The rows of G are live no longer, nothing else changes in any row.
Drops(G) ==
    /\ \A i \in Rows : /\ row'[i].kind = row[i].kind /\ row'[i].user = row[i].user
                       /\ row'[i].item = row[i].item /\ row'[i].type = row[i].type
    /\ \A i \in Rows : /\ row'[i].state = "live" <=> Live(i) /\ i \notin G
                       /\ row'[i].state = "unused" <=> row[i].state = "unused"

LEMMA StateOnly ==
  ASSUME NEW k \in Row, NEW s \in {"withdrawn", "lost"}
  PROVE  /\ [k EXCEPT !.state = s].state = s /\ [k EXCEPT !.state = s].type = k.type
         /\ [k EXCEPT !.state = s].user = k.user /\ [k EXCEPT !.state = s].item = k.item
         /\ [k EXCEPT !.state = s].kind = k.kind
BY DEF Row

LEMMA DropsOne ==
  ASSUME TInv, NEW i \in Used, row' = [row EXCEPT ![i].state = "withdrawn"]
  PROVE  Drops({i})
<1>1. row \in [Rows -> Row] /\ i \in Rows /\ row[i].state # "unused"
  BY DEF TInv, RowOK, Used
<1>2. row'[i] = [row[i] EXCEPT !.state = "withdrawn"] /\ \A j \in Rows \ {i} : row'[j] = row[j]
  BY <1>1
<1> QED
  BY <1>1, <1>2, StateOnly DEF Drops, Live

LEMMA DropsSet ==
  ASSUME TInv, NEW G \in SUBSET Rows, NEW s \in {"withdrawn", "lost"},
         row' = [i \in Rows |-> IF i \in G /\ Live(i) THEN [row[i] EXCEPT !.state = s] ELSE row[i]]
  PROVE  Drops(G)
<1>1. row \in [Rows -> Row]
  BY DEF TInv, RowOK
<1>2. ASSUME NEW i \in Rows
      PROVE  /\ row'[i].kind = row[i].kind /\ row'[i].user = row[i].user
             /\ row'[i].item = row[i].item /\ row'[i].type = row[i].type
             /\ row'[i].state = "live" <=> Live(i) /\ i \notin G
             /\ row'[i].state = "unused" <=> row[i].state = "unused"
  BY <1>1, StateOnly DEF Live
<1> QED
  BY <1>2 DEF Drops

\* What a request inserts.
Inserts(r, i) ==
    /\ row[i].state = "unused" /\ req[r].user \in users /\ item[req[r].on] # "deleted"
    /\ req[r].on \in Items /\ ~Taken(req[r].kind, req[r].user, req[r].on)
    /\ row'[i].state = "live" /\ row'[i].kind = req[r].kind /\ row'[i].user = req[r].user
    /\ row'[i].item = req[r].on /\ row'[i].type = req[r].type
    /\ \A j \in Rows \ {i} : row'[j] = row[j]

\* What a step of a request does to the engagement.
LEMMA ContinueEffect ==
  ASSUME TInv, NEW r \in Requests, Facts(r), Continue(r)
  PROVE  \/ row' = row /\ req'[r].reply = req[r].reply
         \/ row' = row /\ \E how \in {"ok", "error"} : Finish(r, how)
         \/ /\ req[r].kind \in Counted /\ Finish(r, "ok") /\ \E i \in Rows : Inserts(r, i)
         \/ /\ req[r].kind \in {"reaction", "favorite"} /\ req[r].pc = "row" /\ req[r].mine \in Used
            /\ Live(req[r].mine) /\ Finish(r, "ok") /\ Drops({req[r].mine})
         \/ /\ req[r].kind = "comment" /\ req[r].pc = "locked" /\ req[r].mine \in Used
            /\ Finish(r, "ok") /\ Drops({req[r].mine})
         \/ /\ req[r].pc = "row" /\ req[r].mine \in Used /\ Live(req[r].mine) /\ req[r].was # req[r].type
            /\ Finish(r, "ok") /\ row' = [row EXCEPT ![req[r].mine].type = req[r].type]
         \/ req[r].pc = "bulk" /\ Finish(r, "ok") /\ Drops(req[r].gone)
<1>0. req \in [Requests -> Request] /\ req[r] \in Request /\ Sound(req[r], Used) /\ row \in [Rows -> Row]
  BY DEF TInv, ReqOK, RowOK
<1>1. ASSUME Insert(r), req[r].pc \in {"item", "row"}, req[r].kind \in Counted
      PROVE  \/ row' = row /\ Finish(r, "error")
             \/ Finish(r, "ok") /\ \E i \in Rows : Inserts(r, i)
  <2> DEFINE q == req[r]
             new == [state |-> "live", kind |-> q.kind, user |-> q.user, item |-> q.on, type |-> q.type]
  <2>1. CASE row' = row /\ Finish(r, "error")
    BY <2>1
  <2>2. ASSUME NEW i \in Rows, row[i].state = "unused", q.user \in users, item[q.on] # "deleted",
               ~Taken(q.kind, q.user, q.on), row' = [row EXCEPT ![i] = new]
        PROVE  Inserts(r, i)
    <3>1. q.on \in Items
      BY <1>0, <1>1 DEF Sound
    <3>2. /\ new.state = "live" /\ new.kind = q.kind /\ new.user = q.user
          /\ new.item = q.on /\ new.type = q.type
      OBVIOUS
    <3> HIDE DEF new
    <3> QED
      BY <1>0, <2>2, <3>1, <3>2 DEF Inserts
  <2>3. \/ row' = row /\ Finish(r, "error")
        \/ /\ q.user \in users /\ item[q.on] # "deleted" /\ ~Taken(q.kind, q.user, q.on) /\ Finish(r, "ok")
           /\ \E i \in Rows : row[i].state = "unused" /\ row' = [row EXCEPT ![i] = new]
    BY <1>1 DEF Insert
  <2> HIDE DEF q, new
  <2> QED
    BY <2>1, <2>2, <2>3
<1>2. CASE ReadOwn(r)
  <2>1. \/ req' = [req EXCEPT ![r].pc = "row"]
        \/ \E i \in Rows : req' = [req EXCEPT ![r].pc = "row", ![r].mine = i, ![r].was = row[i].type]
    BY <1>2 DEF ReadOwn
  <2>2. CASE req' = [req EXCEPT ![r].pc = "row"]
    BY <1>0, <1>2, <2>2 DEF ReadOwn, Request
  <2>3. ASSUME NEW i \in Rows, req' = [req EXCEPT ![r].pc = "row", ![r].mine = i, ![r].was = row[i].type]
        PROVE  row' = row /\ req'[r].reply = req[r].reply
    BY <1>0, <1>2, <2>3 DEF ReadOwn, Request
  <2> QED
    BY <2>1, <2>2, <2>3
<1>3. CASE ToggleOn(r)
  <2>1. Insert(r) /\ req[r].pc = "row" /\ req[r].kind \in Counted
    BY <1>3 DEF ToggleOn, Counted
  <2> QED
    BY <1>1, <2>1
<1>4. CASE AddComment(r)
  <2>1. Insert(r) /\ req[r].pc = "item" /\ req[r].kind \in Counted
    BY <1>4 DEF AddComment, Counted
  <2> QED
    BY <1>1, <2>1
<1>5. CASE ToggleOff(r)
  <2>1. /\ req[r].pc = "row" /\ req[r].kind \in {"reaction", "favorite"} /\ req[r].mine \in Used
        /\ \/ Finish(r, "error") /\ row' = row
           \/ Finish(r, "ok") /\ row' = IF Live(req[r].mine) THEN [row EXCEPT ![req[r].mine].state = "withdrawn"]
                                                             ELSE row
    BY <1>0, <1>5 DEF ToggleOff, Sound
  <2>2. CASE row' = row
    BY <2>1, <2>2
  <2>3. CASE row' # row
    <3>1. /\ Live(req[r].mine) /\ Finish(r, "ok") /\ row' = [row EXCEPT ![req[r].mine].state = "withdrawn"]
      BY <2>1, <2>3
    <3>2. Drops({req[r].mine})
      BY <2>1, <3>1, DropsOne
    <3> QED
      BY <2>1, <3>1, <3>2
  <2> QED
    BY <2>2, <2>3
<1>6. CASE Switch(r)
  BY <1>0, <1>6 DEF Switch, Sound
<1>7. CASE IncrementView(r)
  BY <1>7 DEF IncrementView
<1>8. CASE LockComment(r)
  <2>1. row' = row /\ (Finish(r, "error") \/ req'[r].pc = "locked")
    BY <1>0, <1>8 DEF LockComment, Request
  <2>2. CASE req'[r].pc = "locked"
    BY <1>8, <2>1, <2>2, ContinueShape DEF ReadOwn, LockComment
  <2> QED
    BY <2>1, <2>2
<1>9. CASE DeleteComment(r)
  <2>1. /\ req[r].pc = "locked" /\ req[r].kind = "comment" /\ req[r].mine \in Used
        /\ Finish(r, "ok") /\ row' = [row EXCEPT ![req[r].mine].state = "withdrawn"]
    BY <1>0, <1>9 DEF DeleteComment, Facts, Sound
  <2>2. Drops({req[r].mine})
    BY <2>1, DropsOne
  <2> QED
    BY <2>1, <2>2
<1>10. ASSUME NEW i \in Rows, BulkNext(r, i) PROVE row' = row /\ req'[r].reply = req[r].reply
  <2>1. row' = row /\ req'[r].pc = "bulk"
    BY <1>0, <1>10 DEF BulkNext, Request
  <2> QED
    BY <2>1, ContinueShape
<1>11. CASE BulkCommit(r)
  <2>1. /\ req[r].pc = "bulk" /\ Finish(r, "ok") /\ req[r].gone \in SUBSET Rows
        /\ row' = [i \in Rows |-> IF i \in req[r].gone /\ Live(i)
                                    THEN [row[i] EXCEPT !.state = "withdrawn"] ELSE row[i]]
    BY <1>0, <1>11 DEF BulkCommit, Request
  <2>2. Drops(req[r].gone)
    BY <2>1, DropsSet
  <2> QED
    BY <2>1, <2>2
<1>12. CASE BulkFails(r) \/ DeadlockAbort(r)
  BY <1>12 DEF BulkFails, DeadlockAbort
<1> QED
  BY <1>2, <1>3, <1>4, <1>5, <1>6, <1>7, <1>8, <1>9, <1>10, <1>11, <1>12 DEF Continue

\* What a row says of its kind, its guest and its item stays, and so does its type unless
\* it is a reaction's.
LEMMA TypedStep == TInv /\ (\A r \in Requests : Facts(r)) /\ AInv /\ [Next]_vars => Typed'
<1> SUFFICES ASSUME TInv, \A r \in Requests : Facts(r), AInv, [Next]_vars PROVE Typed'
  OBVIOUS
<1>0. row \in [Rows -> Row] /\ Typed
  BY DEF TInv, RowOK, AInv
<1>1. ASSUME NEW G, Drops(G) PROVE Typed'
  BY <1>0, <1>1 DEF Drops, Typed, Used
<1>2. CASE row' = row
  BY <1>0, <1>2 DEF Typed, Used
<1>3. ASSUME NEW r \in Requests, NEW i \in Rows, Inserts(r, i) PROVE Typed'
  <2>1. Asked(r)
    BY DEF AInv
  <2> QED
    BY <1>0, <1>3, <2>1 DEF Inserts, Typed, Used, Asked
<1>4. ASSUME NEW r \in Requests, req[r].pc = "row", req[r].mine \in Used, req[r].was # req[r].type,
             row' = [row EXCEPT ![req[r].mine].type = req[r].type]
      PROVE  Typed'
  <2>0. req[r].kind = "reaction"
    BY <1>4 DEF AInv, Asked
  <2>1. req[r].mine \in Rows /\ row[req[r].mine].kind = "reaction"
    BY <1>4, <2>0, ConstantsAssumption DEF Facts, Used
  <2> DEFINE new == [row[req[r].mine] EXCEPT !.type = req[r].type]
  <2>2. new.kind = row[req[r].mine].kind /\ row'[req[r].mine] = new /\ \A j \in Rows \ {req[r].mine} : row'[j] = row[j]
    BY <1>0, <1>4, <2>1 DEF Row
  <2> HIDE DEF new
  <2> QED
    BY <1>0, <2>1, <2>2 DEF Typed, Used
<1>5. ASSUME NEW r \in Requests, Start(r) \/ Continue(r) PROVE Typed'
  <2>1. CASE Start(r)
    BY <1>2, <2>1, StartKeeps
  <2>2. CASE Continue(r)
    BY <1>1, <1>2, <1>3, <1>4, <2>2, ContinueEffect
  <2> QED
    BY <1>5, <2>1, <2>2
<1>6. ASSUME NEW x \in Items, DeleteItem(x) PROVE Typed'
  <2> DEFINE G == {i \in Rows : row[i].item = x}
  <2>1. row' = [i \in Rows |-> IF i \in G /\ Live(i) THEN [row[i] EXCEPT !.state = "withdrawn"] ELSE row[i]]
    BY <1>6 DEF DeleteItem
  <2>2. G \in SUBSET Rows
    OBVIOUS
  <2> HIDE DEF G
  <2> QED
    BY <1>1, <2>1, <2>2, DropsSet
<1>7. ASSUME NEW u \in Users, DeleteUser(u) PROVE Typed'
  <2> DEFINE G == {i \in Rows : row[i].user = u}
  <2>1. row' = [i \in Rows |-> IF i \in G /\ Live(i) THEN [row[i] EXCEPT !.state = "lost"] ELSE row[i]]
    BY <1>7 DEF DeleteUser
  <2>2. G \in SUBSET Rows
    OBVIOUS
  <2> HIDE DEF G
  <2> QED
    BY <1>1, <2>1, <2>2, DropsSet
<1>8. ASSUME NEW x \in Items, NEW visible \in BOOLEAN, SetVisibility(x, visible) PROVE Typed'
  BY <1>2, <1>8 DEF SetVisibility
<1>9. CASE UNCHANGED vars
  BY <1>2, <1>9 DEF vars
<1> QED
  BY <1>5, <1>6, <1>7, <1>8, <1>9 DEF Next

LEMMA AskedStep == TInv /\ (\A r \in Requests : Facts(r)) /\ AInv /\ [Next]_vars => \A r \in Requests : Asked(r)'
<1> SUFFICES ASSUME TInv, \A r \in Requests : Facts(r), AInv, [Next]_vars PROVE \A r \in Requests : Asked(r)'
  OBVIOUS
<1>0. \A i \in Used : /\ row'[i].kind = row[i].kind /\ row'[i].user = row[i].user
                      /\ row'[i].item = row[i].item
  BY RowsStable
<1>1. ASSUME NEW q \in Requests, req'[q] = req[q] PROVE Asked(q)'
  <2>1. Asked(q) /\ Sound(req[q], Used)
    BY DEF AInv, TInv, ReqOK
  <2>2. req[q].mine # NoRow => row'[req[q].mine].user = row[req[q].mine].user
    BY <1>0, <2>1 DEF Sound
  <2> QED
    BY <1>1, <2>1, <2>2 DEF Asked, Sound
<1>2. ASSUME NEW r \in Requests, Start(r) PROVE Asked(r)'
  <2>1. row' = row /\ users \subseteq Users
    BY <1>2, StartKeeps DEF TInv, RestOK
  <2> QED
    BY <1>2, <2>1, StartCall DEF Asked
<1>3. ASSUME NEW r \in Requests, Continue(r) PROVE Asked(r)'
  <2>1. Asked(r) /\ Facts(r) /\ Sound(req[r], Used) /\ Typed
    BY DEF AInv, TInv, ReqOK
  <2>2. req'[r].user \in Users
    BY <1>3, <2>1, ContinueCall DEF Asked
  <2>3. /\ req'[r].kind # "reaction" => req'[r].type = NoType /\ req'[r].was = NoType
        /\ req'[r].kind = "reaction" => req'[r].type \in Types
    BY <1>3, <2>1, ContinueCall DEF Asked, Typed
  <2>4. ASSUME req'[r].pc = "row", req'[r].mine # NoRow, req'[r].kind # "comment"
        PROVE  row'[req'[r].mine].user = req'[r].user
    <3>1. ReadOwn(r) /\ req[r].pc = "item" /\ row' = row
      BY <1>3, <2>4, ContinueShape DEF ReadOwn
    <3>2. req[r].mine = NoRow
      BY <2>1, <3>1 DEF Facts
    <3> QED
      BY <1>3, <2>4, <3>1, <3>2, ContinueCall
  <2>5. ASSUME req'[r].pc \in {"row", "locked"}, req'[r].kind = "comment"
        PROVE  row'[req'[r].mine].user = req'[r].user \/ req'[r].user \in Admins
    <3>1. req[r].pc = "row" /\ req[r].kind = "comment" /\ req'[r].mine = req[r].mine /\ req'[r].user = req[r].user
      BY <1>3, <2>5, ContinueShape, ContinueCall
    <3>2. req[r].mine \in Used
      BY <2>1, <3>1 DEF Sound
    <3> QED
      BY <1>0, <2>1, <3>1, <3>2 DEF Asked
  <2> QED
    BY <1>3, <2>2, <2>3, <2>4, <2>5, ContinueCall DEF Asked
<1>4. ASSUME NEW r \in Requests, Start(r) \/ Continue(r) PROVE \A q \in Requests : Asked(q)'
  BY <1>1, <1>2, <1>3, <1>4, OthersKept
<1>5. CASE req' = req
  BY <1>1, <1>5
<1> QED
  BY <1>4, <1>5 DEF Next, SetVisibility, DeleteItem, DeleteUser, vars

LEMMA Begun ==
  ASSUME NEW r \in Requests, Continue(r) PROVE req[r].pc # "done"
BY DEF Continue, ReadOwn, ToggleOn, ToggleOff, Switch, AddComment, IncrementView, LockComment, DeleteComment,
    BulkNext, BulkCommit, BulkFails, DeadlockAbort, WaitsFor

-----------------------------------------------------------------------------
(* The steps of Engagement that the steps of Social are.                        *)

LEMMA SameEngagement ==
  ASSUME row' = row
  PROVE  Reactions' = Reactions /\ Favorites' = Favorites /\ Comments' = Comments
BY DEF Reactions, Favorites, Comments, LiveRows, Live

LEMMA DroppedEngagement ==
  ASSUME NEW G, Drops(G)
  PROVE  /\ Reactions' = {<<row[i].user, row[i].item, row[i].type>> : i \in LiveRows("reaction") \ G}
         /\ Favorites' = {<<row[i].user, row[i].item>> : i \in LiveRows("favorite") \ G}
         /\ Comments' = {<<i, row[i].user, row[i].item>> : i \in LiveRows("comment") \ G}
<1>1. \A kind : LiveRows(kind)' = LiveRows(kind) \ G
  BY DEF Drops, LiveRows, Live
<1>2. \A kind : \A i \in LiveRows(kind) : /\ row'[i].user = row[i].user /\ row'[i].item = row[i].item
                                          /\ row'[i].type = row[i].type
  BY DEF Drops, LiveRows
<1> QED
  BY <1>1, <1>2 DEF Reactions, Favorites, Comments

LEMMA InsertedEngagement ==
  ASSUME NEW r \in Requests, NEW i \in Rows, Inserts(r, i)
  PROVE  LET u == req[r].user
             x == req[r].on
         IN  /\ Reactions' = Reactions \cup (IF req[r].kind = "reaction" THEN {<<u, x, req[r].type>>} ELSE {})
             /\ Favorites' = Favorites \cup (IF req[r].kind = "favorite" THEN {<<u, x>>} ELSE {})
             /\ Comments' = Comments \cup (IF req[r].kind = "comment" THEN {<<i, u, x>>} ELSE {})
             /\ \A p \in Comments : p[1] # i
<1>1. \A kind : LiveRows(kind)' = LiveRows(kind) \cup (IF req[r].kind = kind THEN {i} ELSE {})
  BY DEF Inserts, LiveRows, Live
<1>2. \A kind : i \notin LiveRows(kind)
  BY DEF Inserts, LiveRows, Live
<1>3. \A kind : \A j \in LiveRows(kind) : j \in Rows \ {i} /\ row'[j] = row[j]
  BY <1>2 DEF Inserts, LiveRows
<1>4. row'[i].user = req[r].user /\ row'[i].item = req[r].on /\ row'[i].type = req[r].type
  BY DEF Inserts
<1>5. Reactions' = Reactions \cup (IF req[r].kind = "reaction" THEN {<<req[r].user, req[r].on, req[r].type>>} ELSE {})
  <2>1. CASE req[r].kind = "reaction"
    BY <1>1, <1>3, <1>4, <2>1 DEF Reactions
  <2>2. CASE req[r].kind # "reaction"
    BY <1>1, <1>3, <2>2 DEF Reactions
  <2> QED
    BY <2>1, <2>2
<1>6. Favorites' = Favorites \cup (IF req[r].kind = "favorite" THEN {<<req[r].user, req[r].on>>} ELSE {})
  <2>1. CASE req[r].kind = "favorite"
    BY <1>1, <1>3, <1>4, <2>1 DEF Favorites
  <2>2. CASE req[r].kind # "favorite"
    BY <1>1, <1>3, <2>2 DEF Favorites
  <2> QED
    BY <2>1, <2>2
<1>7. Comments' = Comments \cup (IF req[r].kind = "comment" THEN {<<i, req[r].user, req[r].on>>} ELSE {})
  <2>1. CASE req[r].kind = "comment"
    BY <1>1, <1>3, <1>4, <2>1 DEF Comments
  <2>2. CASE req[r].kind # "comment"
    BY <1>1, <1>3, <2>2 DEF Comments
  <2> QED
    BY <2>1, <2>2
<1>8. \A p \in Comments : p[1] # i
  BY <1>2 DEF Comments
<1> QED
  BY <1>5, <1>6, <1>7, <1>8

\* A guest's live reaction to an item is all there is of them in Reactions.
LEMMA OnlyReaction ==
  ASSUME OneRowPerGuest, NEW i \in LiveRows("reaction")
  PROVE  Atomic!Of(row[i].user, row[i].item) = {<<row[i].user, row[i].item, row[i].type>>}
<1>1. ASSUME NEW j \in LiveRows("reaction"), row[j].user = row[i].user, row[j].item = row[i].item PROVE j = i
  BY <1>1 DEF OneRowPerGuest, LiveRows
<1> QED
  BY <1>1 DEF Atomic!Of, Reactions

LEMMA CallsKept ==
  ASSUME TInv, NEW r \in Requests, Continue(r)
  PROVE  Calls' = Calls
<1>1. \A q \in Requests : req'[q].user = req[q].user /\ req'[q].kind = req[q].kind /\ req'[q].on = req[q].on
  BY ContinueCall, OthersKept
<1> QED
  BY <1>1 DEF Calls

LEMMA Answered ==
  ASSUME TInv, NEW r \in Requests, NEW how \in {"ok", "error"}, Finish(r, how)
  PROVE  Answers' = [Answers EXCEPT ![r] = how]
<1>1. \A q \in Requests : req'[q].reply = IF q = r THEN how ELSE req[q].reply
  BY FinishFields DEF Finish, TInv, ReqOK
<1> QED
  BY <1>1 DEF Answers

\* A step of a request that answers it is an Answer of Engagement.
LEMMA AnswerStep ==
  ASSUME TInv, NEW r \in Requests, Facts(r), Asked(r), Continue(r), NEW how \in {"ok", "error"}, Finish(r, how)
  PROVE  Atomic!Answer(r, how)
<1>1. req[r].pc # "new" /\ req[r].pc # "done"
  BY ContinueCall, Begun
<1>2. Calls[r].by = req[r].user /\ Answers[r] = req[r].reply
  BY DEF Calls, Answers
<1>3. req[r].user # NoUser /\ req[r].reply = "none"
  BY <1>1, ConstantsAssumption DEF Asked, Facts
<1>4. users' = users /\ Present' = Present
  BY RequestRefs DEF Present
<1> QED
  BY <1>2, <1>3, <1>4, CallsKept, Answered DEF Atomic!Answer

LEMMA StartSimulates ==
  ASSUME TInv, AInv, NEW r \in Requests, Start(r)
  PROVE  \E u \in Users, kind \in Kinds, x \in Items \cup {NoItem} : Atomic!Call(r, u, kind, x)
<1> DEFINE q == req'[r]
<1>0. users' = users /\ row' = row /\ item' = item /\ users \subseteq Users
  BY StartKeeps DEF TInv, RestOK
<1>1. /\ req[r].pc = "new" /\ q.user \in users /\ q.kind \in Kinds /\ q.on \in Items \cup {NoItem}
      /\ q.reply \in {"none", "refused"}
  BY StartCall
<1>2. req[r].user = NoUser /\ req[r].kind = "view" /\ req[r].on = NoItem /\ req[r].reply = "none"
  BY <1>1 DEF AInv, Asked
<1>3. \A p \in Requests \ {r} : req'[p] = req[p]
  BY OthersKept
<1>4. Calls[r] = Atomic!NoCall
  BY <1>2 DEF Calls, Atomic!NoCall
<1>5. Calls' = [Calls EXCEPT ![r] = [by |-> q.user, kind |-> q.kind, on |-> q.on]]
  BY <1>3 DEF Calls
<1>6. Answers' = [Answers EXCEPT ![r] = q.reply]
  BY <1>3 DEF Answers
<1>7. Answers' = Answers \/ Answers' = [Answers EXCEPT ![r] = "refused"]
  <2>1. CASE q.reply = "none"
    <3>1. \A p \in Requests : req'[p].reply = req[p].reply
      BY <1>2, <1>3, <2>1
    <3> QED
      BY <3>1 DEF Answers
  <2> QED
    BY <1>1, <1>6, <2>1
<1>8. UNCHANGED <<users, Present, Atomic!engagement>>
  BY <1>0, SameEngagement DEF Present, Atomic!engagement
<1>9. Atomic!Call(r, q.user, q.kind, q.on)
  BY <1>1, <1>4, <1>5, <1>7, <1>8 DEF Atomic!Call
<1> QED
  BY <1>0, <1>1, <1>9

LEMMA ContinueSimulates ==
  ASSUME TInv, AInv, OneRowPerGuest, EngagementOwned, NEW r \in Requests, Facts(r), Continue(r)
  PROVE  Atomic!Serve(r) \/ UNCHANGED Atomic!vars
<1> DEFINE u == req[r].user
           x == req[r].on
           mine == req[r].mine
<1>0. /\ Asked(r) /\ Sound(req[r], Used) /\ req[r] \in Request /\ row \in [Rows -> Row]
      /\ users' = users /\ Present' = Present /\ Calls' = Calls
  BY CallsKept, RequestRefs DEF AInv, TInv, ReqOK, RowOK, Present
<1>1. Calls[r].by = u /\ Calls[r].kind = req[r].kind /\ Calls[r].on = x
  BY DEF Calls
<1>2. CASE row' = row /\ req'[r].reply = req[r].reply
  <2>1. \A p \in Requests : req'[p].reply = req[p].reply
    BY <1>2, OthersKept
  <2>2. Answers' = Answers
    BY <2>1 DEF Answers
  <2> QED
    BY <1>0, <1>2, <2>2, SameEngagement DEF Atomic!vars, Atomic!engagement
<1>3. ASSUME NEW how \in {"ok", "error"}, row' = row, Finish(r, how)
      PROVE  Atomic!Serve(r)
  <2>1. Atomic!Answer(r, how) /\ UNCHANGED Atomic!engagement
    BY <1>0, <1>3, AnswerStep, SameEngagement DEF Atomic!engagement
  <2> QED
    BY <2>1 DEF Atomic!Serve, Atomic!Fail, Atomic!Nothing
<1>4. ASSUME req[r].kind \in Counted, Finish(r, "ok"), NEW i \in Rows, Inserts(r, i)
      PROVE  Atomic!Serve(r)
  <2>1. Atomic!Answer(r, "ok")
    BY <1>0, <1>4, AnswerStep
  <2>2. u \in users /\ x \in Present /\ ~Taken(req[r].kind, u, x)
    BY <1>4 DEF Inserts, Present
  <2>3. CASE req[r].kind = "reaction"
    <3>1. req[r].type \in Types
      BY <1>0, <2>3 DEF Asked
    <3>2. Atomic!Of(u, x) = {}
      BY <2>2, <2>3 DEF Atomic!Of, Reactions, LiveRows, Taken
    <3>3. Reactions' = Reactions \cup {<<u, x, req[r].type>>} /\ Favorites' = Favorites /\ Comments' = Comments
      BY <1>4, <2>3, InsertedEngagement
    <3>4. Atomic!React(r, req[r].type)
      BY <1>1, <2>1, <2>2, <2>3, <3>2, <3>3 DEF Atomic!React
    <3> QED
      BY <3>1, <3>4 DEF Atomic!Serve
  <2>4. CASE req[r].kind = "favorite"
    <3>1. <<u, x>> \notin Favorites
      BY <2>2, <2>4 DEF Favorites, LiveRows, Taken
    <3>2. Reactions' = Reactions /\ Favorites' = Favorites \cup {<<u, x>>} /\ Comments' = Comments
      BY <1>4, <2>4, InsertedEngagement
    <3>3. Atomic!Favorite(r)
      BY <1>1, <2>1, <2>2, <2>4, <3>1, <3>2 DEF Atomic!Favorite
    <3> QED
      BY <3>3 DEF Atomic!Serve
  <2>5. CASE req[r].kind = "comment"
    <3>1. /\ Reactions' = Reactions /\ Favorites' = Favorites
          /\ Comments' = Comments \cup {<<i, u, x>>} /\ \A p \in Comments : p[1] # i
      BY <1>4, <2>5, InsertedEngagement
    <3>2. Atomic!Comment(r, i)
      BY <1>1, <2>1, <2>2, <2>5, <3>1 DEF Atomic!Comment
    <3> QED
      BY <3>2 DEF Atomic!Serve
  <2> QED
    BY <1>4, <2>3, <2>4, <2>5 DEF Counted
<1>5. ASSUME req[r].kind \in {"reaction", "favorite"}, req[r].pc = "row", mine \in Used, Live(mine),
             Finish(r, "ok"), Drops({mine})
      PROVE  Atomic!Serve(r)
  <2>1. Atomic!Answer(r, "ok")
    BY <1>0, <1>5, AnswerStep
  <2>2. mine # NoRow /\ mine \in Rows
    BY <1>5, ConstantsAssumption DEF Used
  <2>3. row[mine].kind = req[r].kind /\ row[mine].item = x /\ row[mine].user = u
    BY <1>0, <1>5, <2>2 DEF Facts, Asked
  <2>4. mine \in LiveRows(req[r].kind)
    BY <1>5, <2>2, <2>3 DEF LiveRows
  <2>5. CASE req[r].kind = "reaction"
    <3>1. Atomic!Of(u, x) = {<<u, x, row[mine].type>>}
      BY <2>3, <2>4, <2>5, OnlyReaction
    <3>2. ASSUME NEW j \in LiveRows("reaction"), row[j].user = u, row[j].item = x PROVE j = mine
      BY <1>5, <2>2, <2>3, <2>5, <3>2 DEF OneRowPerGuest, LiveRows
    <3>3. Reactions' = Reactions \ Atomic!Of(u, x)
      BY <1>5, <2>3, <3>1, <3>2, DroppedEngagement DEF Reactions
    <3>4. Favorites' = Favorites /\ Comments' = Comments
      BY <1>5, <2>4, <2>5, DroppedEngagement DEF Favorites, Comments, LiveRows
    <3>5. Atomic!Unreact(r)
      BY <1>1, <2>1, <2>5, <3>3, <3>4 DEF Atomic!Unreact
    <3> QED
      BY <3>5 DEF Atomic!Serve
  <2>6. CASE req[r].kind = "favorite"
    <3>1. x \in Items
      BY <1>0, <1>5 DEF Sound
    <3>2. ASSUME NEW j \in LiveRows("favorite"), row[j].user = u, row[j].item = x PROVE j = mine
      BY <1>5, <2>2, <2>3, <2>6, <3>2 DEF OneRowPerGuest, LiveRows
    <3>3. Favorites' = Favorites \ ({u} \X {x})
      BY <1>5, <2>3, <3>2, DroppedEngagement DEF Favorites
    <3>4. Reactions' = Reactions /\ Comments' = Comments
      BY <1>5, <2>4, <2>6, DroppedEngagement DEF Reactions, Comments, LiveRows
    <3>5. Atomic!Unfavorite(r, {x})
      BY <1>1, <2>1, <2>6, <3>3, <3>4 DEF Atomic!Unfavorite
    <3> QED
      BY <3>1, <3>5 DEF Atomic!Serve
  <2> QED
    BY <1>5, <2>5, <2>6
<1>6. ASSUME req[r].kind = "comment", req[r].pc = "locked", mine \in Used, Finish(r, "ok"), Drops({mine})
      PROVE  Atomic!Serve(r)
  <2>1. Atomic!Answer(r, "ok")
    BY <1>0, <1>6, AnswerStep
  <2>2. mine # NoRow /\ mine \in Rows /\ row[mine].user \in Users
    BY <1>6, ConstantsAssumption DEF Used, TInv, RowOK
  <2>3. /\ row[mine].kind = "comment" /\ row[mine].item = x
        /\ row[mine].user = u \/ u \in Admins
    BY <1>0, <1>6, <2>2 DEF Facts, Asked
  <2>4. Comments' = Comments \ {<<mine, row[mine].user, x>>}
    BY <1>6, <2>3, DroppedEngagement DEF Comments
  <2>5. Reactions' = Reactions /\ Favorites' = Favorites
    BY <1>6, <2>3, DroppedEngagement DEF Reactions, Favorites, LiveRows
  <2>6. Atomic!Uncomment(r, mine, row[mine].user)
    BY <1>1, <1>6, <2>1, <2>3, <2>4, <2>5 DEF Atomic!Uncomment
  <2> QED
    BY <2>2, <2>6 DEF Atomic!Serve
<1>7. ASSUME req[r].pc = "row", mine \in Used, Live(mine), req[r].was # req[r].type, Finish(r, "ok"),
             row' = [row EXCEPT ![mine].type = req[r].type]
      PROVE  Atomic!Serve(r)
  <2>1. Atomic!Answer(r, "ok")
    BY <1>0, <1>7, AnswerStep
  <2>2. mine # NoRow /\ mine \in Rows
    BY <1>7, ConstantsAssumption DEF Used
  <2>3. req[r].kind = "reaction" /\ req[r].type \in Types
    BY <1>0, <1>7 DEF Asked
  <2>4. row[mine].kind = "reaction" /\ row[mine].item = x /\ row[mine].user = u
    BY <1>0, <1>7, <2>2, <2>3 DEF Facts, Asked
  <2>5. mine \in LiveRows("reaction")
    BY <1>7, <2>2, <2>4 DEF LiveRows
  <2>6. /\ \A j \in Rows \ {mine} : row'[j] = row[j]
        /\ row'[mine].state = row[mine].state /\ row'[mine].kind = row[mine].kind
        /\ row'[mine].user = u /\ row'[mine].item = x /\ row'[mine].type = req[r].type
    <3>1. row'[mine] = [row[mine] EXCEPT !.type = req[r].type] /\ \A j \in Rows \ {mine} : row'[j] = row[j]
      BY <1>0, <1>7, <2>2
    <3>2. row[mine] \in Row
      BY <1>0, <2>2
    <3> QED
      BY <2>4, <3>1, <3>2 DEF Row
  <2>7. \A kind : LiveRows(kind)' = LiveRows(kind)
    BY <2>2, <2>6 DEF LiveRows, Live
  <2>8. Favorites' = Favorites /\ Comments' = Comments
    <3>1. mine \notin LiveRows("favorite") /\ mine \notin LiveRows("comment")
      BY <2>4 DEF LiveRows
    <3>2. \A kind : \A j \in LiveRows(kind) \ {mine} : row'[j] = row[j]
      BY <2>6 DEF LiveRows
    <3> QED
      BY <2>7, <3>1, <3>2 DEF Favorites, Comments
  <2>9. Atomic!Of(u, x) = {<<u, x, row[mine].type>>}
    BY <2>4, <2>5, OnlyReaction
  <2>10. ASSUME NEW j \in LiveRows("reaction"), row[j].user = u, row[j].item = x PROVE j = mine
    BY <2>4, <2>5, <2>10 DEF OneRowPerGuest, LiveRows
  <2>11. Reactions' = (Reactions \ Atomic!Of(u, x)) \cup {<<u, x, req[r].type>>}
    <3>1. \A j \in LiveRows("reaction") \ {mine} : row'[j] = row[j]
      BY <2>6 DEF LiveRows
    <3>2. Reactions' = {<<row[j].user, row[j].item, row[j].type>> : j \in LiveRows("reaction") \ {mine}}
                          \cup {<<u, x, req[r].type>>}
      BY <2>5, <2>6, <2>7, <3>1 DEF Reactions
    <3>3. Reactions \ {<<u, x, row[mine].type>>}
            = {<<row[j].user, row[j].item, row[j].type>> : j \in LiveRows("reaction") \ {mine}}
      BY <2>4, <2>5, <2>10 DEF Reactions
    <3> QED
      BY <2>9, <3>2, <3>3
  <2>12. Atomic!Switch(r, req[r].type)
    BY <1>1, <2>1, <2>3, <2>8, <2>9, <2>11 DEF Atomic!Switch
  <2> QED
    BY <2>3, <2>12 DEF Atomic!Serve
<1>8. ASSUME req[r].pc = "bulk", Finish(r, "ok"), Drops(req[r].gone)
      PROVE  Atomic!Serve(r)
  <2> DEFINE gone == {i \in req[r].gone : Live(i)}
             xs == {row[i].item : i \in gone}
  <2>1. Atomic!Answer(r, "ok")
    BY <1>0, <1>8, AnswerStep
  <2>2. req[r].kind = "favorite" /\ x = NoItem
    BY <1>8 DEF Facts
  <2>3. \A i \in req[r].gone : i \in Used /\ row[i].kind = "favorite" /\ row[i].user = u
    BY <1>8 DEF Facts
  <2>4. xs \in SUBSET Items
    BY <2>3 DEF TInv, RowOK
  <2>5. Favorites' = Favorites \ ({u} \X xs)
    <3>1. Favorites' = {<<row[i].user, row[i].item>> : i \in LiveRows("favorite") \ req[r].gone}
      BY <1>8, DroppedEngagement
    <3>2. ASSUME NEW i \in LiveRows("favorite"), row[i].user = u, row[i].item \in xs PROVE i \in req[r].gone
      <4>1. PICK j \in gone : row[j].item = row[i].item
        BY <3>2
      <4>2. j \in Rows /\ Live(j) /\ row[j].kind = "favorite" /\ row[j].user = u
        BY <2>3, <4>1 DEF Used
      <4>3. i = j
        BY <3>2, <4>1, <4>2 DEF OneRowPerGuest, LiveRows
      <4> QED
        BY <4>3
    <3>3. \A i \in LiveRows("favorite") \cap req[r].gone : row[i].user = u /\ row[i].item \in xs
      BY <2>3 DEF LiveRows
    <3> HIDE DEF xs
    <3> QED
      BY <3>1, <3>2, <3>3 DEF Favorites
  <2>6. Reactions' = Reactions /\ Comments' = Comments
    <3>1. LiveRows("reaction") \ req[r].gone = LiveRows("reaction") /\ LiveRows("comment") \ req[r].gone = LiveRows("comment")
      BY <2>3 DEF LiveRows
    <3> QED
      BY <1>8, <3>1, DroppedEngagement DEF Reactions, Comments
  <2> HIDE DEF xs
  <2>7. Atomic!Unfavorite(r, xs)
    BY <1>1, <2>1, <2>2, <2>5, <2>6 DEF Atomic!Unfavorite
  <2> QED
    BY <2>4, <2>7 DEF Atomic!Serve
<1> QED
  BY <1>2, <1>3, <1>4, <1>5, <1>6, <1>7, <1>8, ContinueEffect

LEMMA DeletionSimulates ==
  ASSUME TInv, EngagementOwned
  PROVE  /\ \A x \in Items : DeleteItem(x) => Atomic!DeleteItem(x)
         /\ \A u \in Users : DeleteUser(u) => Atomic!DeleteUser(u)
         /\ \A x \in Items, visible \in BOOLEAN : SetVisibility(x, visible) => UNCHANGED Atomic!vars
         /\ UNCHANGED vars => UNCHANGED Atomic!vars
<1>0. item \in [Items -> {"shown", "hidden", "deleted"}]
  BY DEF TInv, RestOK
<1>1. ASSUME req' = req PROVE Calls' = Calls /\ Answers' = Answers
  BY <1>1 DEF Calls, Answers
<1>2. ASSUME NEW x \in Items, DeleteItem(x) PROVE Atomic!DeleteItem(x)
  <2> DEFINE G == {i \in Rows : row[i].item = x}
  <2>1. row' = [i \in Rows |-> IF i \in G /\ Live(i) THEN [row[i] EXCEPT !.state = "withdrawn"] ELSE row[i]]
    BY <1>2 DEF DeleteItem
  <2>2. Drops(G)
    <3>1. G \in SUBSET Rows
      OBVIOUS
    <3> HIDE DEF G
    <3> QED
      BY <2>1, <3>1, DropsSet
  <2>3. \A kind : LiveRows(kind) \ G = {i \in LiveRows(kind) : row[i].item # x}
    BY DEF LiveRows
  <2> HIDE DEF G
  <2>4. Reactions' = {p \in Reactions : p[2] # x}
    BY <2>2, <2>3, DroppedEngagement DEF Reactions
  <2>5. Favorites' = {p \in Favorites : p[2] # x}
    BY <2>2, <2>3, DroppedEngagement DEF Favorites
  <2>6. Comments' = {p \in Comments : p[3] # x}
    BY <2>2, <2>3, DroppedEngagement DEF Comments
  <2>7. x \in Present /\ Present' = Present \ {x}
    BY <1>0, <1>2 DEF DeleteItem, Present
  <2>8. users' = users /\ Calls' = Calls /\ Answers' = Answers
    BY <1>1, <1>2 DEF DeleteItem
  <2> QED
    BY <2>4, <2>5, <2>6, <2>7, <2>8 DEF Atomic!DeleteItem
<1>3. ASSUME NEW u \in Users, DeleteUser(u) PROVE Atomic!DeleteUser(u)
  <2> DEFINE G == {i \in Rows : row[i].user = u}
  <2>1. row' = [i \in Rows |-> IF i \in G /\ Live(i) THEN [row[i] EXCEPT !.state = "lost"] ELSE row[i]]
    BY <1>3 DEF DeleteUser
  <2>2. Drops(G)
    <3>1. G \in SUBSET Rows
      OBVIOUS
    <3> HIDE DEF G
    <3> QED
      BY <2>1, <3>1, DropsSet
  <2>3. \A kind : LiveRows(kind) \ G = {i \in LiveRows(kind) : row[i].user # u}
    BY DEF LiveRows
  <2> HIDE DEF G
  <2>4. Reactions' = {p \in Reactions : p[1] # u}
    BY <2>2, <2>3, DroppedEngagement DEF Reactions
  <2>5. Favorites' = {p \in Favorites : p[1] # u}
    BY <2>2, <2>3, DroppedEngagement DEF Favorites
  <2>6. Comments' = {p \in Comments : p[2] # u}
    BY <2>2, <2>3, DroppedEngagement DEF Comments
  <2>7. Present' = Present /\ users' = users \ {u} /\ u \in users
    BY <1>3 DEF DeleteUser, Present
  <2>8. Calls' = Calls /\ Answers' = Answers
    BY <1>1, <1>3 DEF DeleteUser
  <2> QED
    BY <2>4, <2>5, <2>6, <2>7, <2>8 DEF Atomic!DeleteUser
<1>4. ASSUME NEW x \in Items, NEW visible \in BOOLEAN, SetVisibility(x, visible) PROVE UNCHANGED Atomic!vars
  <2>1. Present' = Present
    BY <1>0, <1>4 DEF SetVisibility, Present
  <2> QED
    BY <1>1, <1>4, <2>1, SameEngagement DEF SetVisibility, Atomic!vars, Atomic!engagement
<1>5. ASSUME UNCHANGED vars PROVE UNCHANGED Atomic!vars
  <2>1. Present' = Present
    BY <1>5 DEF vars, Present
  <2> QED
    BY <1>1, <1>5, <2>1, SameEngagement DEF vars, Atomic!vars, Atomic!engagement
<1> QED
  BY <1>2, <1>3, <1>4, <1>5

LEMMA AtomicStep ==
  TInv /\ OneRowPerGuest /\ EngagementOwned /\ KInv /\ AInv /\ [Next]_vars => [Atomic!Next]_(Atomic!vars)
<1> SUFFICES ASSUME TInv, OneRowPerGuest, EngagementOwned, KInv, AInv, [Next]_vars
             PROVE  Atomic!Next \/ UNCHANGED Atomic!vars
  OBVIOUS
<1>1. ASSUME NEW r \in Requests, Start(r) PROVE Atomic!Next
  BY <1>1, StartSimulates DEF Atomic!Next, Kinds, Counted
<1>2. ASSUME NEW r \in Requests, Continue(r) PROVE Atomic!Next \/ UNCHANGED Atomic!vars
  <2>1. Facts(r)
    BY DEF KInv
  <2> QED
    BY <1>2, <2>1, ContinueSimulates DEF Atomic!Next
<1>3. ASSUME NEW x \in Items, DeleteItem(x) PROVE Atomic!Next
  BY <1>3, DeletionSimulates DEF Atomic!Next
<1>4. ASSUME NEW u \in Users, DeleteUser(u) PROVE Atomic!Next
  BY <1>4, DeletionSimulates DEF Atomic!Next
<1>5. ASSUME NEW x \in Items, NEW visible \in BOOLEAN, SetVisibility(x, visible) PROVE UNCHANGED Atomic!vars
  BY <1>5, DeletionSimulates
<1>6. CASE UNCHANGED vars
  BY <1>6, DeletionSimulates
<1> QED
  BY <1>1, <1>2, <1>3, <1>4, <1>5, <1>6 DEF Next

LEMMA AtomicInit == Init => AInv /\ Atomic!Init
<1> SUFFICES ASSUME Init PROVE AInv /\ Atomic!Init
  OBVIOUS
<1> DEFINE o == Opened(NoUser, "view", NoItem, NoType, "new")
<1>1. /\ o.pc = "new" /\ o.user = NoUser /\ o.kind = "view" /\ o.on = NoItem /\ o.reply = "none"
      /\ o.type = NoType /\ o.was = NoType
  BY DEF Opened
<1>2. \A r \in Requests : req[r] = o
  BY DEF Init
<1> HIDE DEF o
<1>3. \A i \in Rows : row[i].state = "unused"
  BY DEF Init, NewRow
<1>4. AInv
  BY <1>1, <1>2, <1>3 DEF AInv, Asked, Typed, Used
<1>5. Reactions = {} /\ Favorites = {} /\ Comments = {}
  BY <1>3 DEF Reactions, Favorites, Comments, LiveRows, Live
<1>6. users = Users /\ Present = Items
  BY DEF Init, Present
<1>7. Calls = [r \in Requests |-> Atomic!NoCall] /\ Answers = [r \in Requests |-> "none"]
  BY <1>1, <1>2 DEF Calls, Answers, Atomic!NoCall
<1> QED
  BY <1>4, <1>5, <1>6, <1>7 DEF Atomic!Init

\* Whatever the statements of the handlers interleave with, every request takes effect at
\* one instant or not at all, for its own guest and its own item: Social implements
\* Engagement, and with it all that Engagement promises.
THEOREM SocialImplementsEngagement == Spec => ImplementsEngagement
<1>1. Init => OneRowPerGuest /\ EngagementOwned
  BY DEF Init, NewRow, Live, OneRowPerGuest, EngagementOwned
<1>2. TInv /\ KInv /\ AInv /\ [Next]_vars => AInv'
  BY TypedStep, AskedStep DEF KInv, AInv
<1> QED
  BY <1>1, <1>2, AtomicInit, AtomicStep, KnownInit, KnownStep, UniqueStep, OwnedStep, TypeInit, TypeStep, PTL
  DEF Spec, ImplementsEngagement, Atomic!Spec
=============================================================================
