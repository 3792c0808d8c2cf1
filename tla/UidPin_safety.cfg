\* One user, two OS uids, three requests, two reloads or restarts, one or two
\* linuxctl runs.
SPECIFICATION Spec
CONSTANTS
    Users = {alice}
    Uids = {i1, i2}
    Auths = {a1, a2, a3}
    None = None
    MaxGen = 2
    MaxEpoch = 2
SYMMETRY Symmetry
INVARIANTS
    AcceptedUidsAgree
    PinsHold
    DeadTokensStayDead
CHECK_DEADLOCK FALSE
