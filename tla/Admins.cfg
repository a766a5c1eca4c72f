\* The built-in admin and two guests to promote, three requests, restarts.
SPECIFICATION Spec
CONSTANTS
    Accounts = {a1, a2, a3}
    NoAccount = NoAccount
    Names = {boss, n1}
    NoName = NoName
    AdminName = boss
    Settings = Settings
    Requests = {r1, r2, r3}
SYMMETRY Symmetry
INVARIANT TypeOK
INVARIANT AnAdminRemains
PROPERTY ActsWithAuthority
PROPERTY DecisionsStand
PROPERTY SettingsStand
CHECK_DEADLOCK FALSE
