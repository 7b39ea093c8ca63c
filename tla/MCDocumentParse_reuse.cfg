\* Two page ranges, parsed twice from the web UI; the first request may die halfway.
SPECIFICATION Spec
CONSTANTS
    Pages = {p1, p2}
    Clients = {c1}
    Watchers = {}
    Kinds = {"run", "redo"}
    Outcomes = {"chunks"}
    MaxAttempts = 1
    MaxRuns = 2
    MaxRequests = 2
    MaxAborts = 1
    MaxCrashes = 0
    KeysExpire = FALSE
SYMMETRY Symmetry
INVARIANTS FinishedIsStored
CHECK_DEADLOCK FALSE
