\* Expected to be violated: see findings in the README.
SPECIFICATION Spec
CONSTANTS
    Users = {u1}
    NoUser = NoUser
    Hashes = {image}
    NoHash = NoHash
    Videos = {}
    MediaIds = {m1}
    Requests = {r1, r2, r3}
    Workers = {w1}
    Scripts = {}
    MaxConfirms = 1
    MaxCrashes = 0
    Faults = FALSE
SYMMETRY Symmetry
PROPERTY LostUploadCanBeRetried
CHECK_DEADLOCK FALSE
