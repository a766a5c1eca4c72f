\* Two pages of one browser, and other devices, over logins, refreshes and logouts.
SPECIFICATION ClientSpec
CONSTANTS
    Names = {n1}
    NoName = NoName
    Users = {u1, u2}
    NoUser = NoUser
    Tokens = {t1, t2, t3}
    NoToken = NoToken
    Requests = {r1, r2, r3}
    Pages = {p1, p2}
    NoRequest = NoRequest
SYMMETRY Symmetry
INVARIANT ClientTypeOK
INVARIANT AccountsSound
INVARIANT ParentSpent
INVARIANT RotatedOnce
INVARIANT SignedOffIsFinal
INVARIANT IdentityAgrees
INVARIANT LogoutReachesEveryPage
PROPERTY RevokedForever
PROPERTY SingleFlight
CHECK_DEADLOCK FALSE
