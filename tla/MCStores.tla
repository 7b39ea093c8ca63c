------------------------------- MODULE MCStores -------------------------------
(* Parts in which several users share a store: the container pool of the     *)
(* sandbox, the graph of a dataset, the log of a data source, the replica of *)
(* a canvas, a memory, the lock of redis_conn.py, and the chunks of a        *)
(* document.  They have nothing in common with each other here: one of them, *)
(* part, moves, and the others stay as they are.                             *)
EXTENDS SandboxPool, GraphMerge, ConnectorSync, CanvasReplica, MemoryStore, RedisLock,
    TaskSplit, TLC

CONSTANTS py, js, p1, p2, j1, c1, c2, c3, u1, u2
MCLanguageOf == (p1 :> py) @@ (p2 :> py) @@ (j1 :> js)
MCUserOf == (c1 :> u1) @@ (c2 :> u1) @@ (c3 :> u2)
OwnValue == [p \in Procs |-> p]

\* Ranges that overlap, start before the file, end after it, and repeat each other.
Ranges == <<<<0, 3>>, <<2, 5>>, <<2, 5>>>>
All == <<<<1, 100>>>>
Config(method, ranges, n, toc) == [method |-> method, ranges |-> ranges, step |-> n, toc |-> toc]
MCConfigs == {Config("naive", Ranges, 2, FALSE), Config("naive", All, 1000, TRUE),
              Config("table", All, 2, FALSE)}
\* PDFs with and without pages; a sheet without data, and one with more than a task takes.
Pdf(n) == [kind |-> "pdf", pages |-> n, sheets |-> <<>>]
Sheet(h, d) == [head |-> h, data |-> d]
Book(sheets) == [kind |-> "book", pages |-> 0, sheets |-> sheets]
MCFiles == {Pdf(0), Pdf(3), Book(<<Sheet(1, 4), Sheet(1, 0), Sheet(1, 1)>>), Book(<<Sheet(1, 1)>>)}

VARIABLE part
Parts == {"pool", "graph", "sync", "replica", "memory", "lock", "split"}
storesVars == <<part, poolVars, graphVars, syncVars, replicaVars, memoryVars, vars, splitVars>>

InPool(A)    == /\ part = "pool" /\ A
                /\ UNCHANGED <<part, splitVars, graphVars, syncVars, replicaVars, memoryVars, vars>>
InGraph(A)   == /\ part = "graph" /\ A
                /\ UNCHANGED <<part, splitVars, poolVars, syncVars, replicaVars, memoryVars, vars>>
InSync(A)    == /\ part = "sync" /\ A
                /\ UNCHANGED <<part, splitVars, poolVars, graphVars, replicaVars, memoryVars, vars>>
InReplica(A) == /\ part = "replica" /\ A
                /\ UNCHANGED <<part, splitVars, poolVars, graphVars, syncVars, memoryVars, vars>>
InMemory(A)  == /\ part = "memory" /\ A
                /\ UNCHANGED <<part, splitVars, poolVars, graphVars, syncVars, replicaVars, vars>>
InLock(A)    == /\ part = "lock" /\ A
                /\ UNCHANGED <<part, splitVars, poolVars, graphVars, syncVars, replicaVars, memoryVars>>
InSplit(A)   == /\ part = "split" /\ A
                /\ UNCHANGED <<part, poolVars, graphVars, syncVars, replicaVars, memoryVars, vars>>

StoresInit ==
    /\ part \in Parts
    /\ PoolInit
    /\ part # "pool" => alive = Containers /\ Head(queue[py]) = p1
    /\ SplitInit
    /\ part # "split" => config = Config("naive", All, 1000, TRUE) /\ file = Pdf(0)
    /\ GraphInit /\ SyncInit /\ ReplicaInit /\ MemoryInit /\ Init

StoresNext ==
    \/ InPool(PoolNext) \/ InGraph(GraphNext) \/ InSync(SyncNext)
    \/ InReplica(ReplicaNext) \/ InMemory(MemoryNext) \/ InLock(Next)
    \/ InSplit(SplitNext)

\* SyncFairness.
StoresFairness ==
    /\ WF_storesVars(InSync(\E r \in Runs : RunSync(r)))
    /\ \A k \in Datasets :
          SF_storesVars(InSync(DispatchTasks /\ \E r \in Runs : r[1] = k /\ sync'[r].at = "called"))

StoresSpec == StoresInit /\ [][StoresNext]_storesVars /\ StoresFairness

\* Types of the variables of all parts.
StoresTypeOK ==
    /\ PoolTypeOK /\ GraphTypeOK /\ SyncTypeOK /\ ReplicaTypeOK /\ MemoryTypeOK /\ TypeOK
    /\ SplitTypeOK
    /\ part \in Parts
=============================================================================
