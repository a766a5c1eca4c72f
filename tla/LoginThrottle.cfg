\* Two addresses, three requests under way at once, a Redis fault.
SPECIFICATION FairSpec
CONSTANTS
    Addresses = {venue, home}
    Logins = {a1, a2, a3}
    NoAddress = NoAddress
    MaxFailures = 2
    Window = 2
    MaxFaults = 2
INVARIANT TypeOK
INVARIANT OvershootBounded
PROPERTY LockoutEnds
CHECK_DEADLOCK FALSE
