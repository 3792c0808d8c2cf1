\* One line of every kind and a second request; a channel of two, so that
\* senders wait.
SPECIFICATION StdioFairSpec
CONSTANTS
    l1 = l1
    l2 = l2
    l3 = l3
    l4 = l4
    l5 = l5
    l6 = l6
    Lines <- Input
    Kind <- InputKind
    EventSize = 2
    Nothing = Nothing
INVARIANTS
    NoSendAfterClose
    ExitFlushesAll
PROPERTIES
    KeepsPromise
    Exits
