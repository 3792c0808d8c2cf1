\* A reload that re-keys the caller ends the stream its own answer goes to.
SPECIFICATION Spec
CONSTANTS
    Users = {alice, bob}
    Sids = {s1, s2}
    Reqs = {r1, r2}
    None = None
    EventCap = 1
    MaxGen = 2
SYMMETRY Symmetry
INVARIANT SessionsSurviveReload
CHECK_DEADLOCK FALSE
