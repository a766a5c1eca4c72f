\* Overlapping requests of two guests on one item.
SPECIFICATION Spec
CONSTANTS
    Users = {u1, u2}
    NoUser = NoUser
    Admins = {u1}
    Items = {x1}
    NoItem = NoItem
    Rows = {e1, e2, e3}
    NoRow = NoRow
    Types = {like, love}
    NoType = NoType
    Requests = {r1, r2, r3}
SYMMETRY Symmetry
INVARIANT TypeOK
INVARIANT EngagementSound
INVARIANT CountsAccountedFor
PROPERTY WithdrawnForever
PROPERTY ImplementsEngagement
CHECK_DEADLOCK FALSE
