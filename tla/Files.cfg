SPECIFICATION Spec
CONSTANTS
    Dirs <- MCDirs
    Regs <- MCRegs
    Fresh <- MCFresh
    Links <- MCLinks
    LinkTo <- MCLinkTo
    RootDir = "/"
    Names <- MCNames
    Tree <- MCTree
    Outside <- MCOutside
    UserDirs <- MCUserDirs
    Virtual <- MCVirtual
    Chars <- MCChars
    Text0 <- MCText0
    Mode0 <- MCMode0
    Own0 <- MCOwn0
    Binary = {"key"}
    UserUid = 7
    Passwd <- MCPasswd
    Group <- MCGroup
    Atoi <- MCAtoi
    SafeLen = 2
    Calls = {1, 2}
    Scenarios <- MCScenarios
    None = None
INVARIANTS
    StaysInside
    UpdateKeepsRest
    SharedDirsKeepSetgid
    WalkReachesAll
