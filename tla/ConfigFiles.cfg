\* One ordinary user and one name that is a root account; two commands, one
\* after the other, and any number of pins the daemon saves between and during
\* them.  Commands that overlap are left out: every property excepts them.
SPECIFICATION Spec
CONSTANTS
    Names = {alice, root}
    RootNames = {root}
    Procs = {linuxctl, mcpd}
    Mcpd = mcpd
    MaxCmds = 2
    None = None
INVARIANTS
    UsersAreKept
    QuietDirLoads
    NoInheritedGrants
CHECK_DEADLOCK FALSE
