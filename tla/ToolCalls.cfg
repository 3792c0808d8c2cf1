\* One user, two calls that share flights and cache entries, cached or not, as
\* root or not, one reload; under the scheduler's fairness, so without symmetry.
SPECIFICATION FairSpec
CONSTANTS
    Users = {alice}
    Calls = {c1, c2}
    None = None
    Requests <- FewRequests
    MaxEpoch = 1
INVARIANTS
    SnapshotNotOlder
    RootOnlyByGrant
    SharedResultsAgree
    RootResultsWereGranted
    OneWorkerPerKey
PROPERTY EveryCallEnds
CHECK_DEADLOCK FALSE
