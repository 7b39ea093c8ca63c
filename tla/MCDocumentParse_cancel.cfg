\* Two clients make any two requests; a request, an executor and a flag may be lost.
SPECIFICATION Spec
CONSTANTS
    Pages = {p1}
    Clients = {c1, c2}
    Watchers = {w}
    Kinds = {"run", "keep", "redo", "cancel", "parse", "stop", "remove", "rm"}
    Outcomes = {"chunks", "none", "error"}
    MaxAttempts = 1
    MaxRuns = 1
    MaxRequests = 2
    MaxAborts = 1
    MaxCrashes = 1
    KeysExpire = TRUE
SYMMETRY Symmetry
PROPERTIES CancelHolds
CHECK_DEADLOCK FALSE
