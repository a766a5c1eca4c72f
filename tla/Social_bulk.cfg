\* Liveness: overlapping bulk removals, from a start with favorites.
SPECIFICATION FavoritedSpec
CONSTANTS
    Users = {u1, u2}
    NoUser = NoUser
    Admins = {u1, u2}
    Items = {x1, x2}
    NoItem = NoItem
    Rows = {e1, e2, e3, e4}
    NoRow = NoRow
    Types = {like}
    NoType = NoType
    Requests = {r1, r2}
PROPERTY EveryRequestEnds
CHECK_DEADLOCK FALSE
