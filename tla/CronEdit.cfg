\* One mcpd user, another account and root; two clients, two writes.
SPECIFICATION Spec
CONSTANTS
    Accts = {alice, bob, root}
    Root = root
    Callers = {alice}
    RuleSets <- SomeRules
    Spellings <- SomeSpellings
    Clients = {c1, c2}
    MaxVer = 2
    None = None
SYMMETRY Symmetry
INVARIANTS
    RootCrontabUntouched
    EditsByRule
    LostOnlyInWindow
    ListAgreesWithView
CHECK_DEADLOCK FALSE
