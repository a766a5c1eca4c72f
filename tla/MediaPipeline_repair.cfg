\* The repair script beside a worker, an item confirmed twice, failing calls, a crash.
SPECIFICATION Spec
CONSTANTS
    Users = {u1}
    NoUser = NoUser
    Hashes = {image}
    NoHash = NoHash
    Videos = {}
    MediaIds = {m1, m2}
    Requests = {r1, r2, r3}
    Workers = {w1}
    Scripts = {s1}
    MaxConfirms = 2
    MaxCrashes = 1
    Faults = TRUE
SYMMETRY Symmetry
INVARIANT ReadyImageComplete
INVARIANT AnnouncedComplete
PROPERTY DeletedForever
CHECK_DEADLOCK FALSE
