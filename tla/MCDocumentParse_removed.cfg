\* FileService.delete_docs removes a document that is being parsed.
SPECIFICATION Spec
CONSTANTS
    Pages = {p1}
    Clients = {c1}
    Watchers = {}
    Kinds = {"run", "rm"}
    Outcomes = {"chunks"}
    MaxAttempts = 1
    MaxRuns = 1
    MaxRequests = 2
    MaxAborts = 0
    MaxCrashes = 0
    KeysExpire = FALSE
INVARIANTS RemovalCancels
CHECK_DEADLOCK FALSE
