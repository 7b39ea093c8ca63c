\* Two containers for one language and one for another under three runners; two
\* documents with two merge tasks; a source of two objects for two datasets; three
\* requests of two users for a replica; two turns for a memory of one message; four users of a lock;
\* three requests for a document and a task that breaks off.
SPECIFICATION StoresSpec
CONSTANTS
    py = py
    js = js
    p1 = p1
    p2 = p2
    j1 = j1
    Languages = {py, js}
    Containers = {p1, p2, j1}
    LanguageOf <- MCLanguageOf
    Runners = {r1, r2, r3}
    MaxRequests = 3
    MaxFailures = 2
    Docs = {d1, d2}
    Merges = {m1, m2}
    MaxFaults = 2
    Datasets = {k1, k2}
    Objects = {i1, i2}
    MaxChanges = 1
    MaxCommands = 2
    MaxSyncFaults = 1
    c1 = c1
    c2 = c2
    c3 = c3
    u1 = u1
    u2 = u2
    Callers = {c1, c2, c3}
    Users = {u1, u2}
    UserOf <- MCUserOf
    MaxSaves = 2
    MaxExpiries = 1
    Turns = {t1, t2}
    Old = {}
    Limit = 1
    MaxExtracts = 1
    MaxForgotten = 1
    MaxMemoryFaults = 1
    MaxId = 9
    Procs = {q1, q2, q3, q4}
    Values = {q1, q2, q3, q4}
    Value <- OwnValue
    NoValue = none
    Configs <- MCConfigs
    Files <- MCFiles
    RowStep = 3
    MaxDocRequests = 3
    MaxBreakOffs = 1
CHECK_DEADLOCK FALSE
INVARIANTS StoresTypeOK OneUserPerContainer BusyMeansLost
    GraphIsRebuildable MergedOnce RemovedStaysOut NothingIsMissed NeverStuck
     NothingOverwritten ExtractedIsStored MutualExclusion
    EachUnitOnce DoneIsStored
PROPERTIES DoneIsMerged ChangesArrive
