------------------------------ MODULE GraphMerge -------------------------------
(***************************************************************************)
(* The knowledge graph of a dataset.  A task builds a subgraph for each    *)
(* document the graph does not contain, then merges them one by one: it    *)
(* reads the graph, deletes the rows of the graph and of ALL subgraphs,    *)
(* and inserts the new graph and a subgraph per document of it, in bulks   *)
(* of which the first holds the graph.  The lock of the merge has the same *)
(* value in every task, so spin_acquire deletes whoever holds it and never *)
(* waits: it is left out.  What keeps tasks apart is the API, which looks  *)
(* at the dataset's task first and binds the new one last: two requests at *)
(* a time pass both, and so does one after the task's row was deleted.  An *)
(* executor may die, and its task is run again; a task may fail; documents *)
(* may be removed.                                                         *)
(***************************************************************************)
EXTENDS Naturals, FiniteSets

CONSTANTS Docs,       \* documents of the dataset
          Merges,     \* the dataset's GraphRAG tasks
          MaxFaults   \* bound: executors that die, extractions that fail, unbinds,
                      \* removals of documents, rows and the graph, tasks beside another

ASSUME GraphAssumption == MaxFaults \in Nat

NoMerge == "no task"
ASSUME GraphNames == NoMerge \notin Merges

VARIABLES removed_kwd,   \* of the row "graph": "N", "Y", or "none" without a row
          graph_copies,  \* per document: how often source_id of that row lists it
          subgraph_rows, \* documents with a row "subgraph"
          kept_docs,     \* documents of the dataset that are not removed
          bound,         \* graphrag_task_id of the dataset
          rowless,       \* tasks whose row was deleted
          at_merge,      \* per task: where it stands
          canceled_merges, \* tasks with the flag in Redis
          built,         \* per task: documents in its dict subgraphs
          todo,          \* per task: those not merged yet
          mem_graph,     \* per task: copies per document of the graph in memory
          faults,        \* bound
          torn, met, loose \* history: an insert was cut short; something met a
                         \* task at work; a removed document kept its subgraph

rowsVars == <<removed_kwd, graph_copies, subgraph_rows>>
taskVars == <<built, todo, mem_graph>>
historyVars == <<torn, met, loose>>
requestVars == <<bound, rowless>>
graphVars == <<rowsVars, kept_docs, requestVars, at_merge, canceled_merges, taskVars, faults, historyVars>>

NoCopies == [d \in Docs |-> 0]
Sources(f) == {d \in Docs : f[d] > 0}
Contained == IF removed_kwd = "N" THEN Sources(graph_copies) ELSE {}  \* does_graph_contains
AtWork == {m \in Merges : at_merge[m] \notin {"new", "asked", "done", "failed"}}
MergeGoes(m, from, to) == at_merge[m] = from /\ at_merge' = [at_merge EXCEPT ![m] = to]
\* What a task held in memory is gone with it.
Forgets(m) ==
    /\ built' = [built EXCEPT ![m] = {}] /\ todo' = [todo EXCEPT ![m] = {}]
    /\ mem_graph' = [mem_graph EXCEPT ![m] = NoCopies]
Fault == faults < MaxFaults /\ faults' = faults + 1

GraphInit ==
    /\ removed_kwd = "none" /\ graph_copies = NoCopies /\ subgraph_rows = {}
    /\ kept_docs = Docs /\ bound = NoMerge /\ rowless = {}
    /\ at_merge = [m \in Merges |-> "new"] /\ canceled_merges = {}
    /\ built = [m \in Merges |-> {}] /\ todo = [m \in Merges |-> {}]
    /\ mem_graph = [m \in Merges |-> NoCopies]
    /\ faults = 0 /\ torn = FALSE /\ met = FALSE /\ loose = FALSE

\* run_graphrag looks at the dataset's task, if it has a row, and for documents.
AskMerge(m) ==
    /\ bound # NoMerge /\ bound \notin rowless => at_merge[bound] \in {"done", "failed"}
    /\ kept_docs # {} /\ MergeGoes(m, "new", "asked")
    /\ UNCHANGED <<rowsVars, kept_docs, requestVars, canceled_merges, taskVars, faults, historyVars>>

\* queue_raptor_o_graphrag_tasks and graphrag_task_id; an executor takes the task.
StartMerge(m) ==
    /\ MergeGoes(m, "asked", "build") /\ bound' = m
    /\ met' = (met \/ AtWork # {})
    /\ IF AtWork = {} THEN UNCHANGED faults ELSE Fault
    /\ UNCHANGED <<rowsVars, kept_docs, rowless, canceled_merges, taskVars, torn, loose>>

\* The first document is parsed again: queue_tasks deletes all tasks under its id.
DropRow(m) ==
    /\ at_merge[m] \notin {"new", "asked"} /\ m \notin rowless /\ Fault
    /\ rowless' = rowless \cup {m}
    /\ UNCHANGED <<rowsVars, kept_docs, bound, at_merge, canceled_merges, taskVars, historyVars>>

\* The message of an executor that died is delivered again, and skipped if the task
\* was cancelled or has no row.
Redeliver(m) ==
    /\ MergeGoes(m, "dead", IF m \in canceled_merges \cup rowless THEN "failed" ELSE "build")
    /\ UNCHANGED <<rowsVars, kept_docs, requestVars, canceled_merges, taskVars, faults, historyVars>>

\* Mutant: the graph is not asked.
ToBuildAll(m) == kept_docs \ built[m]
ToBuild(m) == kept_docs \ (built[m] \cup Contained)

\* generate_subgraph, ending with the subgraph's row.
BuildSubgraph(m, d) ==
    /\ at_merge[m] = "build" /\ m \notin canceled_merges /\ d \in ToBuild(m)
    /\ subgraph_rows' = subgraph_rows \cup {d} /\ built' = [built EXCEPT ![m] = @ \cup {d}]
    /\ UNCHANGED <<removed_kwd, graph_copies, kept_docs, requestVars, at_merge, canceled_merges, todo,
                   mem_graph, faults, historyVars>>

BuildIsOver(m) == ToBuild(m) = {}
\* All documents are built or contained, or have failed: ok_docs.
AllBuilt(m) ==
    /\ m \notin canceled_merges
    /\ (BuildIsOver(m) /\ UNCHANGED faults) \/ Fault
    /\ MergeGoes(m, "build", IF built[m] = {} THEN "done" ELSE "merge")
    /\ todo' = [todo EXCEPT ![m] = built[m]]
    /\ UNCHANGED <<rowsVars, kept_docs, requestVars, canceled_merges, built, mem_graph, historyVars>>

\* Mutant: what is merged is not added to the graph's source_id.
MergedSilently(f, d) == IF f = NoCopies THEN [f EXCEPT ![d] = 1] ELSE f
Merged(f, d) == [f EXCEPT ![d] = @ + 1]
\* get_graph: the row, or the subgraphs put together without the document's own.
OldGraph(d) == IF removed_kwd = "Y"
                 THEN [e \in Docs |-> IF e \in subgraph_rows \ {d} THEN 1 ELSE 0]
                 ELSE graph_copies

\* merge_subgraph: get_graph and graph_merge.
ReadGraph(m, d) ==
    /\ d \in todo[m] /\ MergeGoes(m, "merge", "delete")
    /\ mem_graph' = [mem_graph EXCEPT ![m] = Merged(OldGraph(d), d)]
    /\ todo' = [todo EXCEPT ![m] = @ \ {d}]
    /\ UNCHANGED <<rowsVars, kept_docs, requestVars, canceled_merges, built, faults, historyVars>>

NoRows == removed_kwd' = "none" /\ graph_copies' = NoCopies /\ subgraph_rows' = {}

\* set_graph: delete, then insert bulk by bulk.
DeleteRows(m) ==
    /\ MergeGoes(m, "delete", "insert") /\ NoRows
    /\ UNCHANGED <<kept_docs, requestVars, canceled_merges, taskVars, faults, historyVars>>

InsertGraph(m) ==
    /\ MergeGoes(m, "insert", "rest")
    /\ removed_kwd' = "N" /\ graph_copies' = mem_graph[m]
    /\ UNCHANGED <<subgraph_rows, kept_docs, requestVars, canceled_merges, taskVars, faults, historyVars>>

\* Mutant: one subgraph is written back, and not one per source.
OneSource(m) == {CHOOSE d \in Sources(mem_graph[m]) : TRUE}
SourcesOf(m) == Sources(mem_graph[m])
InsertRest(m) ==
    /\ MergeGoes(m, "rest", "merge") /\ subgraph_rows' = subgraph_rows \cup SourcesOf(m)
    /\ UNCHANGED <<removed_kwd, graph_copies, kept_docs, requestVars, canceled_merges, taskVars, faults,
                   historyVars>>

FinishMerge(m) ==
    /\ todo[m] = {} /\ MergeGoes(m, "merge", "done") /\ Forgets(m)
    /\ UNCHANGED <<rowsVars, kept_docs, requestVars, canceled_merges, faults, historyVars>>

\* unbind_task: the flag, the rows, the dataset's column.  Nothing waits for the
\* task, which looks for the flag while it builds, and not while it merges.
Unbind ==
    /\ bound # NoMerge /\ canceled_merges' = canceled_merges \cup {bound} /\ bound' = NoMerge
    /\ NoRows /\ Fault
    /\ met' = (met \/ AtWork # {})
    /\ UNCHANGED <<kept_docs, rowless, at_merge, taskVars, torn, loose>>

\* delete_knowledge_graph: the rows alone, whoever is at work.
DeleteGraph ==
    /\ NoRows /\ Fault
    /\ met' = (met \/ AtWork # {})
    /\ UNCHANGED <<kept_docs, requestVars, at_merge, canceled_merges, taskVars, torn, loose>>

SeeCanceled(m) ==
    /\ m \in canceled_merges /\ MergeGoes(m, "build", "failed") /\ Forgets(m)
    /\ UNCHANGED <<rowsVars, kept_docs, requestVars, canceled_merges, faults, historyVars>>

\* Mutant: the row of the document's subgraph stays.
RowsKept(d) == subgraph_rows
RowsWithout(d) == subgraph_rows \ {d}
\* remove_document: source_id loses the document in all rows, the graph is marked,
\* rows without a source go.  A document the graph does not list is skipped.
RemoveDocument(d) ==
    /\ d \in kept_docs /\ kept_docs' = kept_docs \ {d} /\ Fault
    /\ IF graph_copies[d] > 0
         THEN /\ graph_copies' = [graph_copies EXCEPT ![d] = 0]
              /\ removed_kwd' = IF Sources(graph_copies') = {} THEN "none" ELSE "Y"
              /\ subgraph_rows' = RowsWithout(d)
         ELSE UNCHANGED rowsVars
    /\ met' = (met \/ AtWork # {})
    /\ loose' = (loose \/ (graph_copies[d] = 0 /\ d \in subgraph_rows))
    /\ UNCHANGED <<requestVars, at_merge, canceled_merges, taskVars, torn>>

\* The executor dies, or a store or an embedding fails under the task.
InterruptMerge(m) ==
    /\ m \in AtWork /\ Fault /\ Forgets(m)
    /\ at_merge' \in {[at_merge EXCEPT ![m] = s] : s \in {"dead", "failed"}}
    /\ torn' = (torn \/ at_merge[m] = "rest")
    /\ UNCHANGED <<rowsVars, kept_docs, requestVars, canceled_merges, met, loose>>

Progress(m) == \/ \E d \in Docs : BuildSubgraph(m, d) \/ ReadGraph(m, d)
               \/ AllBuilt(m) \/ DeleteRows(m) \/ InsertGraph(m) \/ InsertRest(m)
               \/ FinishMerge(m) \/ SeeCanceled(m) \/ Redeliver(m)
GraphNext == \/ \E m \in Merges : \/ AskMerge(m) \/ StartMerge(m) \/ DropRow(m)
                                 \/ Progress(m) \/ InterruptMerge(m)
             \/ \E d \in Docs : RemoveDocument(d)
             \/ Unbind \/ DeleteGraph

GraphSpec == GraphInit /\ [][GraphNext]_graphVars

----------------------------------------------------------------------------
GraphTypeOK ==
    /\ removed_kwd \in {"N", "Y", "none"} /\ graph_copies \in [Docs -> Nat]
    /\ subgraph_rows \subseteq Docs /\ kept_docs \subseteq Docs
    /\ bound \in Merges \cup {NoMerge} /\ rowless \subseteq Merges
    /\ canceled_merges \subseteq Merges
    /\ at_merge \in [Merges -> {"new", "asked", "build", "merge", "delete", "insert", "rest", "done",
                                "dead", "failed"}]
    /\ built \in [Merges -> SUBSET Docs] /\ todo \in [Merges -> SUBSET Docs]
    /\ mem_graph \in [Merges -> [Docs -> Nat]]

\* set_graph and rebuild_graph: wherever an executor dies, short of the middle of
\* an insert, there is a subgraph to rebuild the graph from for each document in it.
GraphIsRebuildable ==
    (\A m \in Merges : at_merge[m] # "rest") /\ ~met /\ ~torn
        => Sources(graph_copies) \subseteq subgraph_rows

\* does_graph_contains, set_graph: however often a task is run again, a document
\* is merged into the graph once, as long as none is removed.
MergedOnce == kept_docs = Docs /\ ~met => \A d \in Docs : graph_copies[d] <= 1

\* rebuild_graph and remove_document: a document removed while no task was at work
\* does not come back with a later merge.
RemovedStaysOut == ~met /\ ~loose => Sources(graph_copies) \subseteq kept_docs

\* run_graphrag_for_kb: when a task ends as done, all that it built is in the graph.
DoneIsMerged ==
    [][\A m \in Merges : at_merge[m] = "merge" /\ at_merge'[m] = "done" /\ ~met
                         => built[m] \subseteq Contained]_graphVars

=============================================================================
