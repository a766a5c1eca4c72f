------------------------------ MODULE MCSocial ------------------------------
(* Social for TLC, and a start in which every guest has favorited every item:   *)
(* bulk removals need several favorites to get in each other's way.            *)
EXTENDS Social, TLC

Symmetry == Permutations(Items) \cup Permutations(Rows) \cup Permutations(Requests)
              \cup Permutations(Types)

\* One row per guest and item.
FavoriteRow ==
    CHOOSE f \in [Users \X Items -> Rows] : \A p, q \in Users \X Items : f[p] = f[q] => p = q

FavoritedInit ==
    /\ users = Users
    /\ item = [x \in Items |-> "shown"]
    /\ count = [kind \in Kinds |-> [x \in Items |-> IF kind = "favorite" THEN Cardinality(Users) ELSE 0]]
    /\ row = [i \in Rows |->
                IF \E p \in Users \X Items : FavoriteRow[p] = i
                  THEN LET p == CHOOSE p \in Users \X Items : FavoriteRow[p] = i
                       IN  [state |-> "live", kind |-> "favorite", user |-> p[1], item |-> p[2],
                            type |-> NoType]
                  ELSE NewRow]
    /\ req = [r \in Requests |-> Opened(NoUser, "view", NoItem, NoType, "new")]
    /\ raced = {}

\* From there: bulk removals, views, and the deletions they may run into.  None of
\* these inserts a row, so Rows need not exceed the favorites.
FavoritedNext ==
    \/ \E r \in Requests :
          \/ (\E u \in Users, xs \in SUBSET Items : BulkRead(r, u, xs)) /\ Meets(r)
          \/ (\E u \in Users, x \in Items : ReadItem(r, u, "view", x, NoType)) /\ Meets(r)
          \/ Continue(r)
    \/ \E x \in Items : DeleteItem(x)
    \/ \E u \in Users : DeleteUser(u)

FavoritedSpec == FavoritedInit /\ [][FavoritedNext]_vars /\ Fairness
=============================================================================
