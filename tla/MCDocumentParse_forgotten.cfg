\* One request, one task, one progress thread that is late.
SPECIFICATION Spec
CONSTANTS
    Pages = {p1}
    Clients = {c1}
    Watchers = {w}
    Kinds = {"run"}
    Outcomes = {"chunks"}
    MaxAttempts = 1
    MaxRuns = 1
    MaxRequests = 1
    MaxAborts = 0
    MaxCrashes = 0
    KeysExpire = FALSE
INVARIANTS RunningIsWatched
CHECK_DEADLOCK FALSE
