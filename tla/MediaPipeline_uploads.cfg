\* Two guests, an admin and a crash, over upload, delete and re-upload of one content.
SPECIFICATION Spec
CONSTANTS
    Users = {u1, u2}
    NoUser = NoUser
    Hashes = {image}
    NoHash = NoHash
    Videos = {}
    MediaIds = {m1, m2}
    Requests = {r1, r2, r3, r4}
    Workers = {w1}
    Scripts = {}
    MaxConfirms = 1
    MaxCrashes = 1
    Faults = TRUE
SYMMETRY Symmetry
PROPERTY DecisionsSurvive
PROPERTY OnlyOwnerOrAdminDeletes
PROPERTY ImplementsLifecycle
INVARIANT TypeOK
INVARIANT OneRowPerHash
INVARIANT ReadyIsStored
CHECK_DEADLOCK FALSE
