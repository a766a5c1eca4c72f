\* Liveness: two workers, one item, confirmed twice.
SPECIFICATION FairSpec
CONSTANTS
    Users = {u1}
    NoUser = NoUser
    Hashes = {image, video}
    NoHash = NoHash
    Videos = {video}
    MediaIds = {m1}
    Requests = {r1, r2, r3}
    Workers = {w1, w2}
    Scripts = {}
    MaxConfirms = 2
    MaxCrashes = 0
    Faults = TRUE
PROPERTY QueuedIsResolved
CHECK_DEADLOCK FALSE
