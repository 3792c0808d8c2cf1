\* One user, one stream, two requests: blocked senders, reloads that close the
\* stream, disconnects and restarts, under the scheduler's fairness.
SPECIFICATION FairSpec
CONSTANTS
    Users = {alice}
    Sids = {s1}
    Reqs = {r1, r2}
    None = None
    EventCap = 1
    MaxGen = 2
PROPERTIES
    StreamsEnd
    AcceptedIsAnswered
CHECK_DEADLOCK FALSE
