\* A document is cancelled halfway and run again without delete.
SPECIFICATION Spec
CONSTANTS
    Pages = {p1, p2}
    Clients = {c1}
    Watchers = {}
    Kinds = {"run", "cancel"}
    Outcomes = {"chunks"}
    MaxAttempts = 1
    MaxRuns = 2
    MaxRequests = 3
    MaxAborts = 0
    MaxCrashes = 0
    KeysExpire = FALSE
PROPERTIES ReuseIsValid
CHECK_DEADLOCK FALSE
