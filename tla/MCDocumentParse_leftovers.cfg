\* One client parses, stops, parses or runs again and removes a document; fair scheduling.
SPECIFICATION FairSpec
CONSTANTS
    Pages = {p1}
    Clients = {c1}
    Watchers = {w}
    Kinds = {"parse", "run", "stop", "remove"}
    Outcomes = {"chunks", "error"}
    MaxAttempts = 1
    MaxRuns = 2
    MaxRequests = 3
    MaxAborts = 0
    MaxCrashes = 0
    KeysExpire = FALSE
INVARIANTS TypeOK NoLeftovers
PROPERTIES RunningEnds
CHECK_DEADLOCK FALSE
