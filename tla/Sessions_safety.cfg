\* Two users, two streams, two requests; every kind of request and a reload
\* with each of the two users removed or re-keyed.
SPECIFICATION Spec
CONSTANTS
    Users = {alice, bob}
    Sids = {s1, s2}
    Reqs = {r1, r2}
    None = None
    EventCap = 1
    MaxGen = 2
SYMMETRY Symmetry
INVARIANTS
    AnswersReachOwner
    RevokedStreamsClosed
    OnlyRevokedClosed
    NoStrayAnswer
CHECK_DEADLOCK FALSE
