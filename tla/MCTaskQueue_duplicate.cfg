\* XADD's reply may be lost once: queue_product appends the task again.
SPECIFICATION Spec
CONSTANTS
    Tasks = {t1}
    Memories = {}
    Debugs = {}
    Workers = {w1,w2}
    Slots = {s1}
    NQueues = 2
    MaxAttempts = 3
    MaxSends = 3
    MaxMishaps = 3
    FaultKinds = {"reply"}
SYMMETRY Symmetry
INVARIANTS AttemptsBounded
