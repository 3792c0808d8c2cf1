\* Two users and three reads - one may remove what another stored afresh -
\* of three kinds of resources, one reload.
SPECIFICATION Spec
CONSTANTS
    Users = {alice, bob}
    Reads = {r1, r2, r3}
    None = None
    Uris <- SomeUris
    GrantSets <- SomeGrants
    MaxEpoch = 1
SYMMETRY Symmetry
INVARIANTS
    RootContentNeedsGrant
    ClearIsABarrier
CHECK_DEADLOCK FALSE
