\* A document's task and a memory's for an executor with two coroutines; two
\* mishaps, each a death or a failed call of any kind but a lost reply of XADD: two
\* deaths spend both attempts of the document's task.  Fair scheduling.
SPECIFICATION FairSpec
CONSTANTS
    Tasks = {t1,t2}
    Memories = {t2}
    Debugs = {}
    Workers = {w1}
    Slots = {s1,s2}
    NQueues = 2
    MaxAttempts = 2
    MaxSends = 3
    MaxMishaps = 2
    FaultKinds = {"xadd", "xread", "pel", "db", "ack"}
INVARIANTS TypeOK NoStranding AttemptsBounded ExclusiveDelivery
PROPERTIES KeepsLifecycle EverySettles
