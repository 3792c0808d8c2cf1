\* Three container IDs and names, an image and two volumes; two calls, two
\* changes by others.
SPECIFICATION Spec
CONSTANTS
    image = image
    anon = anon
    named = named
    web = web
    db = db
    lb = lb
    Ids <- MCIds
    Names <- MCNames
    Objs <- MCObjs
    KindOf <- MCKindOf
    Precious <- MCPrecious
    Uses <- MCUses
    Grants <- MCGrants
    Requests <- MCRequests
    Calls = {c1, c2}
    MaxOutside = 2
    None = None
SYMMETRY Symmetry
INVARIANTS
    ActsOnWhatIsGranted
    DestroysOnlyWaste
    ExecEndIsReal
    ListingShowsUsers
CHECK_DEADLOCK FALSE
