\* Two connections, one action of the guest who may use this browser; two tabs.
SPECIFICATION Spec
CONSTANTS
    u1 = u1
    u2 = u2
    User = {u1, u2}
    Tab = {t1, t2}
    MaxEndpoints = 2
    MaxPresses = 2
    MaxLosses = 1
    Page = {p1, p2}
    Action = {a1}
    Actor <- ActorOf
SYMMETRY Symmetry
INVARIANT TypeOK
INVARIANT NotifiedIsShown
INVARIANT AudienceHears
INVARIANT DeviceHears
CHECK_DEADLOCK FALSE
