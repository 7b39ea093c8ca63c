------------------------------ MODULE StoresProofs ------------------------------
(***************************************************************************)
(* Proofs about what is kept in the stores behind the documents: the graph *)
(* of a dataset, the messages of a memory, the documents of a data source. *)
(* They share no state, and each has its own invariant and its own         *)
(* theorems.                                                               *)
(***************************************************************************)
EXTENDS MCStores, LockProofs, TaskSplitProofs

------------------------------------------------------------------------------
(***************************************************************************)
(* GraphMerge for any number of documents, tasks and faults.  As long as   *)
(* nothing met a task at work there is one task, and the rows are told by  *)
(* where it stands: between the two inserts the graph is there and the     *)
(* subgraphs are not.  What it has still to merge is in no graph, which is *)
(* why a task that is run again merges nothing twice.                      *)
(***************************************************************************)

\* Where a task holds the graph that it has merged a document into.
Written == {"delete", "insert", "rest"}

\* As long as nothing met a task at work, there is one.
OneTask == ~met => \A m, n \in AtWork : m = n

\* The row of the graph, and what a task between its two inserts has written.
GraphRow ==
    /\ removed_kwd = "none" => \A d \in Docs : graph_copies[d] = 0
    /\ \A m \in Merges : at_merge[m] \in {"new", "asked", "dead"} => built[m] = {}
    /\ ~met => \A m \in Merges : at_merge[m] = "rest" => removed_kwd = "N" /\ graph_copies = mem_graph[m]

\* A subgraph per source.
Subgraphs ==
    ~met /\ ~torn /\ (\A m \in Merges : at_merge[m] # "rest") => Sources(graph_copies) \subseteq subgraph_rows

\* What is still to be merged is in no graph.
NotYet ==
    kept_docs = Docs /\ ~met =>
        /\ removed_kwd # "Y" /\ \A d \in Docs : graph_copies[d] <= 1
        /\ \A m \in Merges, d \in Docs :
              /\ at_merge[m] = "build" /\ d \in built[m] => graph_copies[d] = 0
              /\ at_merge[m] = "merge" /\ d \in todo[m] => graph_copies[d] = 0
              /\ at_merge[m] \in Written =>
                    mem_graph[m][d] <= 1 /\ (d \in todo[m] => mem_graph[m][d] = 0)

\* Rows, and what tasks work on, are of documents that are there.
OnlyKept ==
    ~met /\ ~loose =>
        /\ subgraph_rows \cup Sources(graph_copies) \subseteq kept_docs
        /\ \A m \in Merges :
              /\ at_merge[m] = "build" => built[m] \subseteq kept_docs
              /\ at_merge[m] \in Written \cup {"merge"} => todo[m] \subseteq kept_docs
              /\ at_merge[m] \in Written => Sources(mem_graph[m]) \subseteq kept_docs

\* What a task has merged is in the graph.
IsMerged ==
    ~met => \A m \in Merges :
        /\ at_merge[m] = "merge" => built[m] \ todo[m] \subseteq Contained
        /\ at_merge[m] \in Written => built[m] \ todo[m] \subseteq Sources(mem_graph[m])

GraphInv == GraphTypeOK /\ OneTask /\ GraphRow /\ Subgraphs /\ NotYet /\ OnlyKept /\ IsMerged

\* One step per action, and under it one per part of the invariant it disturbs.
LEMMA GraphInvariant == GraphSpec => []GraphInv
<1>1. GraphInit => GraphInv
  BY DEF GraphInit, GraphInv, GraphTypeOK, OneTask, GraphRow, Subgraphs, NotYet, OnlyKept, IsMerged,
         AtWork, NoCopies, Sources, Written
<1>2. GraphInv /\ [GraphNext]_graphVars => GraphInv'
  <2> SUFFICES ASSUME GraphInv, [GraphNext]_graphVars PROVE GraphInv'
    OBVIOUS
  <2> USE DEF GraphInv, GraphTypeOK, AtWork, MergeGoes, Written, Sources, requestVars
  <2>1. ASSUME NEW m \in Merges, StartMerge(m) PROVE GraphInv'
    <3> USE DEF StartMerge, rowsVars, taskVars
    <3>1. ~met' => ~met /\ \A n \in Merges : at_merge[n] \in {"new", "asked", "done", "failed"}
      BY <2>1
    <3>2. GraphTypeOK'
      BY <2>1
    <3>3. OneTask' /\ GraphRow'
      BY <2>1, <3>1 DEF GraphRow, OneTask
    <3>4. Subgraphs' /\ NotYet'
      BY <2>1, <3>1 DEF GraphRow, Subgraphs, NotYet
    <3>5. OnlyKept' /\ IsMerged'
      BY <2>1, <3>1 DEF GraphRow, OnlyKept, IsMerged, Contained
    <3> QED
      BY <3>2, <3>3, <3>4, <3>5
  <2>16. ASSUME NEW m \in Merges, AskMerge(m) PROVE GraphInv'
    <3> USE DEF AskMerge, historyVars, rowsVars, taskVars
    <3>1. GraphTypeOK' /\ OneTask' /\ GraphRow'
      BY <2>16 DEF OneTask, GraphRow
    <3>2. Subgraphs' /\ NotYet' /\ OnlyKept' /\ IsMerged'
      BY <2>16 DEF GraphRow, Subgraphs, NotYet, OnlyKept, IsMerged, Contained
    <3> QED
      BY <2>16, <3>1, <3>2
  <2>17. ASSUME NEW m \in Merges, DropRow(m) PROVE GraphInv'
    <3> USE DEF DropRow, historyVars, rowsVars, taskVars
    <3>1. GraphTypeOK' /\ OneTask' /\ GraphRow'
      BY <2>17 DEF OneTask, GraphRow
    <3>2. Subgraphs' /\ NotYet' /\ OnlyKept' /\ IsMerged'
      BY <2>17 DEF Subgraphs, NotYet, OnlyKept, IsMerged, Contained
    <3> QED
      BY <2>17, <3>1, <3>2
  <2>2. ASSUME NEW m \in Merges, Redeliver(m) PROVE GraphInv'
    <3> USE DEF Redeliver, historyVars, rowsVars, taskVars
    <3>1. GraphTypeOK' /\ OneTask' /\ GraphRow'
      BY <2>2 DEF OneTask, GraphRow
    <3>2. Subgraphs' /\ NotYet' /\ OnlyKept' /\ IsMerged'
      BY <2>2 DEF GraphRow, Subgraphs, NotYet, OnlyKept, IsMerged, Contained
    <3> QED
      BY <2>2, <3>1, <3>2
  <2>3. ASSUME NEW m \in Merges, NEW d \in Docs, BuildSubgraph(m, d) PROVE GraphInv'
    <3> USE DEF BuildSubgraph, historyVars
    <3>1. GraphTypeOK' /\ OneTask' /\ GraphRow'
      BY <2>3 DEF OneTask, GraphRow
    <3>2. kept_docs = Docs /\ ~met => graph_copies[d] = 0
      BY <2>3 DEF ToBuild, Contained, NotYet, GraphRow
    <3>3. Subgraphs' /\ NotYet' /\ OnlyKept' /\ IsMerged'
      BY <2>3, <3>2 DEF GraphRow, Subgraphs, NotYet, OnlyKept, IsMerged, Contained, ToBuild
    <3> QED
      BY <2>3, <3>1, <3>3
  <2>4. ASSUME NEW m \in Merges, AllBuilt(m) PROVE GraphInv'
    <3> USE DEF AllBuilt, historyVars, rowsVars
    <3>1. GraphTypeOK' /\ OneTask' /\ GraphRow'
      BY <2>4 DEF OneTask, GraphRow
    <3>2. Subgraphs' /\ NotYet' /\ OnlyKept' /\ IsMerged'
      BY <2>4 DEF GraphRow, Subgraphs, NotYet, OnlyKept, IsMerged, Contained
    <3> QED
      BY <2>4, <3>1, <3>2
  <2>5. ASSUME NEW m \in Merges, NEW d \in Docs, ReadGraph(m, d) PROVE GraphInv'
    <3> USE DEF ReadGraph, historyVars, rowsVars
    <3> DEFINE old == OldGraph(d)
    <3>1. old \in [Docs -> Nat] /\ Merged(old, d) \in [Docs -> Nat]
      BY <2>5 DEF OldGraph, Merged
    <3>2. \A e \in Docs : Merged(old, d)[e] = IF e = d THEN old[e] + 1 ELSE old[e]
      BY <2>5, <3>1 DEF Merged
    <3>3. mem_graph' = [mem_graph EXCEPT ![m] = Merged(old, d)]
      BY <2>5
    <3> HIDE DEF old
    <3>4. GraphTypeOK' /\ OneTask' /\ GraphRow'
      BY <2>5, <3>1, <3>3 DEF OneTask, GraphRow
    <3>5. Subgraphs'
      BY <2>5 DEF Subgraphs
    <3>6. NotYet'
      BY <2>5, <3>1, <3>2, <3>3 DEF NotYet, OldGraph, old
    <3>7. OnlyKept'
      <4>1. ~met /\ ~loose => \A e \in Docs : old[e] > 0 => e \in kept_docs
        BY <2>5 DEF OnlyKept, OldGraph, old
      <4>2. ~met /\ ~loose => \A e \in Docs : Merged(old, d)[e] > 0 => e \in kept_docs
        BY <2>5, <3>1, <3>2, <4>1 DEF OnlyKept
      <4> QED
        BY <2>5, <3>1, <3>3, <4>2 DEF OnlyKept
    <3>8. IsMerged'
      <4> SUFFICES ASSUME ~met
                   PROVE  \A n \in Merges :
                            /\ at_merge'[n] = "merge" => built'[n] \ todo'[n] \subseteq Contained'
                            /\ at_merge'[n] \in Written => built'[n] \ todo'[n] \subseteq Sources(mem_graph'[n])
        BY <2>5 DEF IsMerged
      <4>1. \A n \in Merges \ {m} : at_merge'[n] = at_merge[n] /\ todo'[n] = todo[n] /\ mem_graph'[n] = mem_graph[n]
        BY <2>5, <3>3
      <4>2. UNCHANGED <<built, removed_kwd, graph_copies>>
        BY <2>5
      <4>3. built[m] \ todo[m] \subseteq Sources(old)
        BY <2>5 DEF IsMerged, OldGraph, Contained, old
      <4>4. (built[m] \ todo[m]) \cup {d} \subseteq Sources(Merged(old, d))
        BY <2>5, <3>1, <3>2, <4>3
      <4>5. at_merge'[m] = "delete" /\ todo'[m] = todo[m] \ {d} /\ mem_graph'[m] = Merged(old, d)
        BY <2>5, <3>1, <3>3
      <4>6. built'[m] \ todo'[m] \subseteq Sources(mem_graph'[m])
        BY <4>2, <4>4, <4>5
      <4> QED
        BY <4>1, <4>2, <4>5, <4>6 DEF IsMerged, Contained
    <3> QED
      BY <2>5, <3>4, <3>5, <3>6, <3>7, <3>8
  <2>6. ASSUME NEW m \in Merges, DeleteRows(m) PROVE GraphInv'
    <3> USE DEF DeleteRows, NoRows, historyVars, taskVars, NoCopies
    <3>1. ~met => \A n \in Merges \ {m} : at_merge[n] \in {"new", "asked", "done", "failed"}
      BY <2>6 DEF OneTask
    <3>2. GraphTypeOK'
      BY <2>6
    <3>3. OneTask' /\ GraphRow'
      BY <2>6, <3>1 DEF OneTask, GraphRow
    <3>4. Subgraphs'
      BY <2>6, <3>1 DEF GraphRow, Subgraphs
    <3>5. NotYet'
      BY <2>6, <3>1 DEF NotYet
    <3>6. OnlyKept'
      BY <2>6, <3>1 DEF OnlyKept
    <3>7. IsMerged'
      BY <2>6, <3>1 DEF GraphRow, IsMerged, Contained
    <3> QED
      BY <3>2, <3>3, <3>4, <3>5, <3>6, <3>7
  <2>7. ASSUME NEW m \in Merges, InsertGraph(m) PROVE GraphInv'
    <3> USE DEF InsertGraph, historyVars, taskVars
    <3>1. ~met => \A n \in Merges \ {m} : at_merge[n] \in {"new", "asked", "done", "failed"}
      BY <2>7 DEF OneTask
    <3>2. GraphTypeOK'
      BY <2>7
    <3>3. OneTask' /\ GraphRow'
      BY <2>7, <3>1 DEF OneTask, GraphRow
    <3>4. Subgraphs'
      BY <2>7, <3>1 DEF GraphRow, Subgraphs
    <3>5. NotYet'
      BY <2>7, <3>1 DEF NotYet
    <3>6. OnlyKept'
      BY <2>7, <3>1 DEF OnlyKept
    <3>7. IsMerged'
      BY <2>7, <3>1 DEF GraphRow, IsMerged, Contained
    <3> QED
      BY <3>2, <3>3, <3>4, <3>5, <3>6, <3>7
  <2>8. ASSUME NEW m \in Merges, InsertRest(m) PROVE GraphInv'
    <3> USE DEF InsertRest, historyVars, taskVars, SourcesOf
    <3>1. ~met => \A n \in Merges \ {m} : at_merge[n] \in {"new", "asked", "done", "failed"}
      BY <2>8 DEF OneTask
    <3>2. GraphTypeOK'
      BY <2>8
    <3>3. OneTask' /\ GraphRow'
      BY <2>8, <3>1 DEF OneTask, GraphRow
    <3>4. Subgraphs'
      BY <2>8, <3>1 DEF GraphRow, Subgraphs
    <3>5. NotYet'
      BY <2>8, <3>1 DEF GraphRow, NotYet
    <3>6. OnlyKept'
      BY <2>8, <3>1 DEF OnlyKept
    <3>7. IsMerged'
      BY <2>8, <3>1 DEF GraphRow, IsMerged, Contained
    <3> QED
      BY <3>2, <3>3, <3>4, <3>5, <3>6, <3>7
  <2>9. ASSUME NEW m \in Merges, FinishMerge(m) PROVE GraphInv'
    <3> USE DEF FinishMerge, Forgets, NoCopies, historyVars, rowsVars
    <3>1. GraphTypeOK' /\ OneTask' /\ GraphRow'
      BY <2>9 DEF OneTask, GraphRow
    <3>2. Subgraphs' /\ NotYet'
      BY <2>9 DEF Subgraphs, NotYet
    <3>3. OnlyKept' /\ IsMerged'
      BY <2>9 DEF OnlyKept, IsMerged, Contained
    <3> QED
      BY <3>1, <3>2, <3>3
  <2>14. ASSUME NEW m \in Merges, SeeCanceled(m) PROVE GraphInv'
    <3> USE DEF SeeCanceled, Forgets, NoCopies, historyVars, rowsVars
    <3>1. GraphTypeOK' /\ OneTask' /\ GraphRow'
      BY <2>14 DEF OneTask, GraphRow
    <3>2. Subgraphs' /\ NotYet'
      BY <2>14 DEF Subgraphs, NotYet
    <3>3. OnlyKept' /\ IsMerged'
      BY <2>14 DEF OnlyKept, IsMerged, Contained
    <3> QED
      BY <3>1, <3>2, <3>3
  <2>10. ASSUME NEW m \in Merges, InterruptMerge(m) PROVE GraphInv'
    <3> USE DEF InterruptMerge, Forgets, NoCopies, rowsVars
    <3>0. PICK s \in {"dead", "failed"} : at_merge' = [at_merge EXCEPT ![m] = s]
      BY <2>10
    <3>1. GraphTypeOK' /\ OneTask' /\ GraphRow'
      BY <2>10, <3>0 DEF OneTask, GraphRow
    <3>2. Subgraphs' /\ NotYet'
      BY <2>10, <3>0 DEF OneTask, Subgraphs, NotYet
    <3>3. OnlyKept' /\ IsMerged'
      BY <2>10, <3>0 DEF OnlyKept, IsMerged, Contained
    <3> QED
      BY <3>1, <3>2, <3>3
  <2>11. ASSUME NEW d \in Docs, RemoveDocument(d) PROVE GraphInv'
    <3> USE DEF RemoveDocument, taskVars, rowsVars
    <3>1. kept_docs' # Docs
      BY <2>11
    <3>2. met' = FALSE => ~met /\ \A m \in Merges : at_merge[m] \in {"new", "asked", "done", "failed"}
      BY <2>11
    <3>3. GraphTypeOK'
      BY <2>11 DEF RowsWithout
    <3>8. OneTask'
      BY <2>11, <3>2 DEF OneTask
    <3>4. GraphRow'
      BY <2>11, <3>2 DEF GraphRow
    <3>5. Subgraphs'
      BY <2>11, <3>2 DEF Subgraphs, RowsWithout
    <3>6. NotYet' /\ IsMerged'
      BY <2>11, <3>1, <3>2 DEF NotYet, IsMerged
    <3>7. OnlyKept'
      <4> SUFFICES ASSUME ~met', ~loose' PROVE OnlyKept'
        BY DEF OnlyKept
      <4>1. kept_docs' = kept_docs \ {d} /\ subgraph_rows \cup Sources(graph_copies) \subseteq kept_docs
        BY <2>11, <3>2 DEF OnlyKept
      <4>2. subgraph_rows' \subseteq subgraph_rows \ {d}
        <5>1. graph_copies[d] # 0 \/ d \notin subgraph_rows
          BY <2>11
        <5> QED
          BY <2>11, <5>1 DEF RowsWithout
      <4>3. \A e \in Docs : graph_copies'[e] > 0 => e # d /\ graph_copies[e] > 0
        BY <2>11
      <4>4. subgraph_rows' \cup Sources(graph_copies') \subseteq kept_docs'
        BY <4>1, <4>2, <4>3
      <4> QED
        BY <2>11, <3>2, <4>4 DEF OnlyKept
    <3> QED
      BY <2>11, <3>3, <3>4, <3>5, <3>6, <3>7, <3>8
  <2>12. CASE Unbind
    <3> USE DEF Unbind, taskVars, NoRows, NoCopies
    <3>1. met' = FALSE => ~met /\ \A m \in Merges : at_merge[m] \in {"new", "asked", "done", "failed"}
      BY <2>12
    <3>2. GraphTypeOK' /\ OneTask' /\ GraphRow'
      BY <2>12, <3>1 DEF OneTask, GraphRow
    <3>3. Subgraphs' /\ NotYet' /\ OnlyKept' /\ IsMerged'
      BY <2>12, <3>1 DEF Subgraphs, NotYet, OnlyKept, IsMerged
    <3> QED
      BY <2>12, <3>2, <3>3
  <2>18. CASE DeleteGraph
    <3> USE DEF DeleteGraph, taskVars, NoRows, NoCopies
    <3>1. met' = FALSE => ~met /\ \A m \in Merges : at_merge[m] \in {"new", "asked", "done", "failed"}
      BY <2>18
    <3>2. GraphTypeOK' /\ OneTask' /\ GraphRow'
      BY <2>18, <3>1 DEF OneTask, GraphRow
    <3>3. Subgraphs' /\ NotYet' /\ OnlyKept' /\ IsMerged'
      BY <2>18, <3>1 DEF Subgraphs, NotYet, OnlyKept, IsMerged
    <3> QED
      BY <2>18, <3>2, <3>3
  <2>13. CASE UNCHANGED graphVars
    BY <2>13 DEF graphVars, rowsVars, taskVars, historyVars, OneTask, GraphRow, Subgraphs, NotYet,
                 OnlyKept, IsMerged, Contained
  <2> QED
    BY <2>1, <2>2, <2>3, <2>4, <2>5, <2>6, <2>7, <2>8, <2>9, <2>10, <2>11, <2>12, <2>13, <2>14,
       <2>16, <2>17, <2>18
    DEF GraphNext, Progress
<1> QED
  BY <1>1, <1>2, PTL DEF GraphSpec

\* Types of the rows and of the tasks (set_graph, run_graphrag_for_kb).
THEOREM GraphTypes == GraphSpec => []GraphTypeOK
<1>1. GraphInv => GraphTypeOK
  BY DEF GraphInv
<1> QED
  BY <1>1, GraphInvariant, PTL

\* set_graph: wherever an executor dies, short of the middle of an insert, the
\* graph can be rebuilt from a subgraph per source.
THEOREM Rebuildable == GraphSpec => []GraphIsRebuildable
<1>1. GraphInv => GraphIsRebuildable
  BY DEF GraphInv, GraphIsRebuildable, Subgraphs
<1> QED
  BY <1>1, GraphInvariant, PTL

\* does_graph_contains: however often tasks are run again, a document is merged once.
THEOREM MergesOnce == GraphSpec => []MergedOnce
<1>1. GraphInv => MergedOnce
  BY DEF GraphInv, MergedOnce, NotYet
<1> QED
  BY <1>1, GraphInvariant, PTL

\* remove_document, rebuild_graph: a removed document does not come back.
THEOREM StaysOut == GraphSpec => []RemovedStaysOut
<1>1. GraphInv => RemovedStaysOut
  BY DEF GraphInv, RemovedStaysOut, OnlyKept
<1> QED
  BY <1>1, GraphInvariant, PTL

\* run_graphrag_for_kb: a task that ends as done has merged what it built.
THEOREM AllMerged == GraphSpec => DoneIsMerged
<1>1. GraphInv /\ [GraphNext]_graphVars =>
        [\A m \in Merges : at_merge[m] = "merge" /\ at_merge'[m] = "done" /\ ~met
                             => built[m] \subseteq Contained]_graphVars
  <2> SUFFICES ASSUME GraphInv, GraphNext, NEW m \in Merges,
                      at_merge[m] = "merge", at_merge'[m] = "done", ~met
               PROVE  built[m] \subseteq Contained
    OBVIOUS
  <2>1. todo[m] = {}
    <3> USE DEF MergeGoes, GraphInv, GraphTypeOK
    <3>1. ASSUME NEW n \in Merges, n # m \/ ~FinishMerge(n),
                 AskMerge(n) \/ StartMerge(n) \/ DropRow(n) \/ Progress(n) \/ InterruptMerge(n)
          PROVE  FALSE
      <4>1. at_merge'[n] = at_merge[n] \/ n = m \/ at_merge'[m] = at_merge[m]
        BY <3>1 DEF AskMerge, StartMerge, DropRow, Progress, InterruptMerge, Redeliver, BuildSubgraph, AllBuilt, ReadGraph,
                    DeleteRows, InsertGraph, InsertRest, FinishMerge, SeeCanceled
      <4> QED
        BY <3>1, <4>1 DEF AskMerge, StartMerge, DropRow, Progress, InterruptMerge, Redeliver, BuildSubgraph, AllBuilt,
                    ReadGraph, DeleteRows, InsertGraph, InsertRest, FinishMerge, SeeCanceled
    <3>2. ~Unbind /\ ~DeleteGraph /\ \A d \in Docs : ~RemoveDocument(d)
      BY DEF Unbind, DeleteGraph, RemoveDocument
    <3> QED
      BY <3>1, <3>2 DEF GraphNext, FinishMerge
  <2> QED
    BY <2>1 DEF GraphInv, GraphTypeOK, IsMerged
<1> QED
  BY <1>1, GraphInvariant, PTL DEF GraphSpec, DoneIsMerged

------------------------------------------------------------------------------
(***************************************************************************)
(* MemoryStore for any number of turns, extracts and faults, and any       *)
(* greatest id.  No message is replaced: the ids of a save come from the   *)
(* sequence, and as long as Redis keeps its data no id of the store and    *)
(* none in a save's hand is above it.  A task is done when its messages    *)
(* are stored: its save is over before it says so.                         *)
(***************************************************************************)

\* The greatest id of a set of ids that is not empty (get_max_message_id).
LEMMA MaxOfIsGreatest ==
    ASSUME NEW S, S \subseteq Ids, S # {}
    PROVE  MaxOf(S) \in S /\ \A i \in S : i <= MaxOf(S)
<1> DEFINE Gap(i) == MaxId - i
           Gaps == {n \in Nat : \E i \in S : n = MaxId - i}
<1>1. \A i \in S : i \in Int /\ i <= MaxId
  BY MemoryAssumption DEF Ids
<1>2. Gaps # {}
  <2>1. PICK i \in S : TRUE
    OBVIOUS
  <2>2. MaxId - i \in Gaps
    BY <1>1, MemoryAssumption
  <2> QED
    BY <2>2
<1>3. PICK n \in Gaps : \A m \in Gaps : n <= m
  BY <1>2, LeastNatural
<1>4. PICK x \in S : n = MaxId - x
  BY <1>3
<1>5. \A i \in S : i <= x
  <2> SUFFICES ASSUME NEW i \in S PROVE i <= x
    OBVIOUS
  <2>1. MaxId - i \in Gaps
    BY <1>1, MemoryAssumption
  <2> QED
    BY <1>1, <1>3, <1>4, <2>1, MemoryAssumption
<1> QED
  BY <1>5 DEF MaxOf

\* Sets of ids can be counted.
LEMMA IdsAreFinite == IsFiniteSet(Ids) /\ Ids \subseteq Int
  BY FS_Interval, MemoryAssumption DEF Ids

LEMMA SizesAreIntegers == ASSUME NEW S, S \subseteq Ids PROVE Cardinality(S) \in Nat
  BY IdsAreFinite, FS_Subset, FS_CardinalityType

-----------------------------------------------------------------------------
\* A save is of the raw message or of the facts of one turn.
LEMMA Kinded ==
    /\ \A t \in Turns : Raw(t) \in Savers /\ Facts(t) \in Savers /\ Raw(t) # Facts(t)
    /\ \A s \in Savers : s[1] \in Turns /\ ((s = Raw(s[1]) /\ s[2] = "raw") \/ (s = Facts(s[1]) /\ s[2] # "raw"))
    /\ \A t, u \in Turns : /\ t # u => Raw(t) # Raw(u) /\ Facts(t) # Facts(u)
                           /\ Raw(t) # Facts(u)
<1>1. \A t \in Turns : Raw(t) \in Savers /\ Facts(t) \in Savers /\ Raw(t) # Facts(t)
  BY DEF Savers, Kinds, Raw, Facts
<1>2. \A s \in Savers : s[1] \in Turns /\ ((s = Raw(s[1]) /\ s[2] = "raw") \/ (s = Facts(s[1]) /\ s[2] # "raw"))
  <2> SUFFICES ASSUME NEW s \in Savers
               PROVE  s[1] \in Turns /\ ((s = Raw(s[1]) /\ s[2] = "raw") \/ (s = Facts(s[1]) /\ s[2] # "raw"))
    OBVIOUS
  <2>1. s[1] \in Turns /\ s[2] \in {"raw", "extract"} /\ s = <<s[1], s[2]>>
    BY DEF Savers, Kinds
  <2>2. CASE s[2] = "raw"
    BY <2>1, <2>2 DEF Raw
  <2>3. CASE s[2] = "extract"
    BY <2>1, <2>3 DEF Facts
  <2> QED
    BY <2>1, <2>2, <2>3
<1>3. \A t, u \in Turns : /\ t # u => Raw(t) # Raw(u) /\ Facts(t) # Facts(u)
                          /\ Raw(t) # Facts(u)
  BY DEF Raw, Facts
<1> QED
  BY <1>1, <1>2, <1>3

\* The parts of MemoryTypeOK.
SaversTyped ==
    /\ saver \in [Savers -> [pc : {"idle", "queued", "over"} \cup UnderWay,
                             todo : 0 .. MaxExtracts + 1, batch : SUBSET Ids]]
    /\ \A s \in Savers : saver[s].pc = "first" => saver[s].todo < MaxId
MessagesTyped ==
    /\ Stored \subseteq Ids
    /\ \A i \in Stored : messages[i] \in [source : {0} \cup Turns, forgotten : BOOLEAN]
OthersTyped ==
    /\ server \in {"sequence", "set", "size", "up", "deleting"}
    /\ found \in -1 .. MaxId /\ sequence \in -1 .. MaxId
    /\ size \in Int /\ known \in BOOLEAN /\ overwritten \in BOOLEAN
    /\ progress \in [Turns -> {"none", "begun", "done", "failed"}]
    /\ deaths \in 0 .. MaxMemoryFaults /\ memoryFaults \in 0 .. MaxMemoryFaults

MemoryTypes == SaversTyped /\ MessagesTyped /\ OthersTyped

\* They are the parts of MemoryTypeOK.
LEMMA TypesByPart == MemoryTypes => MemoryTypeOK
  BY DEF MemoryTypeOK, MemoryTypes, SaversTyped, MessagesTyped, OthersTyped, Stored

\* The bounds as assumed.
LEMMA Bounded == MaxExtracts \in Nat /\ MaxMemoryFaults \in Nat /\ MaxId \in Nat \ {0}
  BY MemoryAssumption

\* What a saver may turn into.
LEMMA SaverChanges ==
    ASSUME SaversTyped, NEW s \in Savers, NEW next \in {"idle", "queued", "over"} \cup UnderWay,
           NEW left \in 0 .. MaxExtracts + 1, NEW batch \in SUBSET Ids
    PROVE  /\ SaverGoes(s, next) /\ (next = "first" => saver[s].todo < MaxId) => SaversTyped'
           /\ next # "first" /\ saver' = [saver EXCEPT ![s] = [pc |-> next, todo |-> left, batch |-> batch]] => SaversTyped'
<1>1. saver[s] \in [pc : {"idle", "queued", "over"} \cup UnderWay, todo : 0 .. MaxExtracts + 1,
                    batch : SUBSET Ids]
  BY DEF SaversTyped
<1> QED
  BY <1>1 DEF SaversTyped, SaverGoes

\* The end of a save, which sends the raw message's task on its way.
LEMMA SaveEnds ==
    ASSUME SaversTyped, progress \in [Turns -> {"none", "begun", "done", "failed"}],
           NEW s \in Savers, NEW good \in BOOLEAN, AfterSave(s, good)
    PROVE  SaversTyped' /\ progress' \in [Turns -> {"none", "begun", "done", "failed"}]
<1>1. CASE s[2] = "raw"
  <2>1. saver' = [saver EXCEPT ![s].pc = "over", ![Facts(s[1])].pc = IF good THEN "queued" ELSE @]
        /\ progress' = progress
    BY <1>1 DEF AfterSave
  <2>2. Facts(s[1]) \in Savers
    BY Kinded
  <2> QED
    BY <2>1, <2>2 DEF SaversTyped
<1>2. CASE s[2] # "raw"
  <2>1. SaverGoes(s, "over") /\ progress' = [progress EXCEPT ![s[1]] = IF good THEN "done" ELSE "failed"]
    BY <1>2 DEF AfterSave
  <2>2. SaversTyped'
    BY <2>1 DEF SaversTyped, SaverGoes
  <2> QED
    BY <2>1, <2>2
<1> QED
  BY <1>1, <1>2

\* What insert leaves in the store.
LEMMA PutTyped ==
    ASSUME MessagesTyped, overwritten \in BOOLEAN, NEW s \in Savers, NEW ids \in SUBSET Ids, PutMessages(s, ids)
    PROVE  MessagesTyped' /\ overwritten' \in BOOLEAN
<1>1. Source(s) \in {0} \cup Turns
  BY Kinded DEF Source
<1>2. Stored' = Stored \cup ids
  BY DEF PutMessages, Stored
<1>3. \A i \in Stored' : messages'[i] = IF i \in ids THEN [source |-> Source(s), forgotten |-> FALSE]
                                                     ELSE messages[i]
  BY <1>2 DEF PutMessages
<1> QED
  BY <1>1, <1>2, <1>3 DEF MessagesTyped, PutMessages

\* Every step keeps the types.
LEMMA MemoryTyped == MemorySpec => []MemoryTypes
<1>1. MemoryInit => MemoryTypes
  <2> SUFFICES ASSUME MemoryInit PROVE SaversTyped /\ MessagesTyped /\ OthersTyped
    BY DEF MemoryTypes
  <2>1. SaversTyped
    BY Bounded DEF MemoryInit, SaversTyped
  <2>2. MessagesTyped
    BY MemoryAssumption DEF MemoryInit, MessagesTyped, Stored, Ids
  <2>3. OthersTyped
    <3>1. 0 \in -1 .. MaxId /\ -1 \in Int /\ 0 \in 0 .. MaxMemoryFaults
      BY Bounded
    <3> QED
      BY <3>1 DEF MemoryInit, OthersTyped
  <2> QED
    BY <2>1, <2>2, <2>3
<1>2. MemoryTypes /\ [MemoryNext]_memoryVars => MemoryTypes'
  <2> SUFFICES ASSUME SaversTyped, MessagesTyped, OthersTyped, [MemoryNext]_memoryVars
               PROVE  SaversTyped' /\ MessagesTyped' /\ OthersTyped'
    BY DEF MemoryTypes
  <2>0. Stored \subseteq Ids /\ Greatest \in -1 .. MaxId /\ Counted \in Int
    <3>1. Stored \subseteq Ids
      BY DEF MessagesTyped
    <3>2. Counted \in Int
      BY <3>1, SizesAreIntegers DEF Counted, OthersTyped
    <3>3. Stored # {} => MaxOf(Stored) \in Ids
      BY <3>1, MaxOfIsGreatest
    <3> QED
      BY <3>1, <3>2, <3>3, Bounded DEF Greatest, Ids
  <2>1. CASE MemoryServer
    BY <2>0, <2>1, Bounded DEF MemoryServer, InitSequence, SetSequence, InitSize, DeleteMessages, Stored,
                      SaversTyped, MessagesTyped, OthersTyped
  <2>2. CASE UpdateMemory \/ DeleteMemory
    BY <2>0, <2>2 DEF UpdateMemory, DeleteMemory, Stored, SaversTyped, MessagesTyped, OthersTyped
  <2>3. ASSUME NEW t \in Turns, AddTurn(t) PROVE SaversTyped' /\ MessagesTyped' /\ OthersTyped'
    <3>1. SaversTyped'
      BY <2>3, Kinded, Bounded DEF AddTurn, SaversTyped, UnderWay
    <3> QED
      BY <2>3, <3>1 DEF AddTurn, MessagesTyped, OthersTyped, Stored
  <2>4. ASSUME NEW t \in Turns, Extract(t) PROVE SaversTyped' /\ MessagesTyped' /\ OthersTyped'
    <3>1. SaversTyped'
      <4>1. CASE SaverGoes(Facts(t), "over")
        BY <4>1, Kinded, Bounded, SaverChanges
      <4>2. ASSUME NEW n \in 0 .. MaxExtracts,
                   saver' = [saver EXCEPT ![Facts(t)] =
                      [pc |-> IF n = 0 THEN "over" ELSE "number", todo |-> n, batch |-> {}]]
            PROVE  SaversTyped'
        BY <4>2, Kinded, Bounded DEF SaversTyped, UnderWay
      <4> QED
        BY <2>4, <4>1, <4>2 DEF Extract
    <3>2. MessagesTyped'
      BY <2>4 DEF Extract, MessagesTyped, Stored
    <3>3. OthersTyped'
      BY <2>4, Bounded DEF Extract, OthersTyped
    <3> QED
      BY <3>1, <3>2, <3>3
  <2>5. ASSUME NEW t \in Turns, ExecutorDies(t) PROVE SaversTyped' /\ MessagesTyped' /\ OthersTyped'
    <3>1. SaversTyped'
      BY <2>5, Kinded, Bounded DEF ExecutorDies, SaversTyped
    <3> QED
      BY <2>5, <3>1, Bounded DEF ExecutorDies, MessagesTyped, OthersTyped, Stored
  <2>6. ASSUME NEW s \in Savers, Number(s) PROVE SaversTyped' /\ MessagesTyped' /\ OthersTyped'
    <3>1. saver[s].todo \in 0 .. MaxExtracts + 1
      BY DEF SaversTyped
    <3>2. OthersTyped'
      BY <2>6, <3>1, Bounded DEF Number, OthersTyped
    <3>3. SaversTyped'
      <4>1. CASE SaverGoes(s, "first") /\ sequence = 0 /\ sequence + saver[s].todo < MaxId
        BY <3>1, <4>1, Bounded, SaverChanges DEF UnderWay
      <4>2. CASE Took(s, {-1})
        <5>1. {-1} \in SUBSET Ids
          BY Bounded DEF Ids
        <5> QED
          BY <4>2, <5>1, Bounded DEF UnderWay, Took, SaversTyped
      <4>3. CASE sequence # 0 /\ sequence + saver[s].todo < MaxId /\ Took(s, sequence + 1 .. sequence + saver[s].todo)
        <5>1. (sequence + 1 .. sequence + saver[s].todo) \in SUBSET Ids
          BY <3>1, <4>3, Bounded DEF OthersTyped, Ids
        <5> QED
          BY <4>3, <5>1, Bounded DEF UnderWay, Took, SaversTyped
      <4> QED
        BY <2>6, <4>1, <4>2, <4>3 DEF Number
    <3> QED
      BY <2>6, <3>2, <3>3 DEF Number, MessagesTyped, Stored
  <2>7. ASSUME NEW s \in Savers, NumberFirst(s) PROVE SaversTyped' /\ MessagesTyped' /\ OthersTyped'
    <3>1. saver[s].todo \in 0 .. MaxExtracts + 1 /\ saver[s].todo < MaxId
      BY <2>7 DEF NumberFirst, SaversTyped
    <3>2. OthersTyped'
      <4>1. sequence' \in -1 .. MaxId
        BY <2>7, <3>1, Bounded DEF NumberFirst
      <4> QED
        BY <2>7, <4>1 DEF NumberFirst, OthersTyped
    <3>3. (2 .. 1 + saver[s].todo) \in SUBSET Ids
      BY <3>1, Bounded DEF Ids
    <3>4. SaversTyped'
      BY <2>7, <3>3, Bounded DEF NumberFirst, Took, UnderWay, SaversTyped
    <3> QED
      BY <2>7, <3>2, <3>4 DEF NumberFirst, MessagesTyped, Stored
  <2>8. ASSUME NEW s \in Savers, MakeRoom(s) PROVE SaversTyped' /\ MessagesTyped' /\ OthersTyped'
    <3>1. SaversTyped'
      BY <2>8, Bounded, SaverChanges DEF MakeRoom, UnderWay
    <3>2. PICK D \in SUBSET Stored : messages' = [i \in Stored \ D |-> messages[i]]
                 /\ size' \in {size, (IF size = -1 THEN 0 ELSE size) - Cardinality(D)}
      BY <2>8 DEF MakeRoom, Picks
    <3>3. MessagesTyped'
      BY <3>2 DEF MessagesTyped, Stored
    <3>4. Cardinality(D) \in Int
      BY <2>0, SizesAreIntegers
    <3> QED
      BY <2>8, <3>1, <3>2, <3>3, <3>4 DEF MakeRoom, OthersTyped
  <2>9. ASSUME NEW s \in Savers, Insert(s) PROVE SaversTyped' /\ MessagesTyped' /\ OthersTyped'
    <3>1. PICK ids \in SUBSET saver[s].batch : PutMessages(s, ids)
      BY <2>9 DEF Insert
    <3>2. ids \in SUBSET Ids
      BY DEF SaversTyped
    <3>3. MessagesTyped' /\ overwritten' \in BOOLEAN
      BY <3>1, <3>2, PutTyped DEF OthersTyped
    <3>4. SaversTyped' /\ progress' \in [Turns -> {"none", "begun", "done", "failed"}]
      <4>1. CASE SaverGoes(s, "count") /\ progress' = progress
        BY <4>1, Bounded, SaverChanges DEF OthersTyped, UnderWay
      <4>2. CASE AfterSave(s, FALSE)
        BY <4>2, SaveEnds DEF OthersTyped
      <4> QED
        BY <2>9, <4>1, <4>2 DEF Insert
    <3>5. memoryFaults' \in 0 .. MaxMemoryFaults
      <4>1. memoryFaults' = memoryFaults \/ (deaths + memoryFaults < MaxMemoryFaults /\ memoryFaults' = memoryFaults + 1)
        BY <2>9 DEF Insert
      <4> QED
        BY <4>1, Bounded DEF OthersTyped
    <3> QED
      BY <2>9, <3>3, <3>4, <3>5 DEF Insert, OthersTyped
  <2>10. ASSUME NEW s \in Savers, Count(s) PROVE SaversTyped' /\ MessagesTyped' /\ OthersTyped'
    <3>1. Cardinality(saver[s].batch) \in Int
      BY SizesAreIntegers DEF SaversTyped
    <3>2. SaversTyped' /\ progress' \in [Turns -> {"none", "begun", "done", "failed"}]
      BY <2>10, SaveEnds DEF Count, OthersTyped
    <3> QED
      BY <2>10, <3>1, <3>2 DEF Count, OthersTyped, MessagesTyped, Stored
  <2>11. ASSUME NEW i \in Stored, ForgetMessage(i) PROVE SaversTyped' /\ MessagesTyped' /\ OthersTyped'
    BY <2>11 DEF ForgetMessage, Stored, SaversTyped, MessagesTyped, OthersTyped
  <2>12. CASE ServerDies \/ RedisLoses
    <3>1. SaversTyped'
      BY <2>12 DEF ServerDies, RedisLoses, SaversTyped
    <3> QED
      BY <2>12, <3>1, Bounded DEF ServerDies, RedisLoses, Stored, MessagesTyped, OthersTyped
  <2>13. CASE UNCHANGED memoryVars
    BY <2>13 DEF memoryVars, Stored, SaversTyped, MessagesTyped, OthersTyped
  <2> QED
    BY <2>1, <2>2, <2>3, <2>4, <2>5, <2>6, <2>7, <2>8, <2>9, <2>10, <2>11, <2>12, <2>13
    DEF MemoryNext, Save
<1> QED
  BY <1>1, <1>2, PTL DEF MemorySpec

-----------------------------------------------------------------------------
\* Who holds ids that are not stored yet.
Pending == {s \in Savers : saver[s].pc \in {"check", "insert"}}

\* The server has set the sequence before anything is saved.
SequenceIsSet ==
    /\ server \in {"size", "up", "deleting"} => sequence # 0
    /\ sequence = 0 => known /\ \A s \in Savers : saver[s].pc = "idle"
    /\ server = "set" => sequence = 0 /\ found >= 1 /\ \A i \in Stored : i <= found

\* No id is above the sequence, and none is held twice.
IdsAreNew ==
    /\ Stored \subseteq 2 .. MaxId
    /\ sequence >= 0 /\ (sequence # 0 => \A i \in Stored : i <= sequence)
    /\ \A s \in Pending : /\ \A i \in saver[s].batch : 1 < i /\ i <= sequence /\ i \notin Stored
                          /\ \A u \in Pending \ {s} : saver[s].batch \cap saver[u].batch = {}
    /\ ~overwritten /\ \A s \in Savers : saver[s].pc # "first"

\* A fault is a Redis that has lost its data, or a call of it that fails.
OverwriteInv == memoryFaults = 0 => SequenceIsSet /\ IdsAreNew

\* Every step keeps ids below the sequence, and apart.
LEMMA NewIds == MemorySpec => []OverwriteInv
<1>1. MemoryInit => OverwriteInv
  <2> SUFFICES ASSUME MemoryInit PROVE SequenceIsSet /\ IdsAreNew
    BY DEF OverwriteInv
  <2>1. Stored = Old /\ Pending = {}
    BY DEF MemoryInit, Stored, Pending
  <2> QED
    BY <2>1, MemoryAssumption DEF MemoryInit, SequenceIsSet, IdsAreNew
<1>2. MemoryTypes /\ OverwriteInv /\ [MemoryNext]_memoryVars => OverwriteInv'
  <2> SUFFICES ASSUME SaversTyped, MessagesTyped, OthersTyped, OverwriteInv, [MemoryNext]_memoryVars,
                      memoryFaults' = 0
               PROVE  SequenceIsSet' /\ IdsAreNew'
    BY DEF OverwriteInv, MemoryTypes
  <2>0. memoryFaults = 0 /\ SequenceIsSet /\ IdsAreNew
    <3>1. memoryFaults' = memoryFaults \/ memoryFaults' = memoryFaults + 1
      BY DEF memoryVars, MemoryNext, MemoryServer, InitSequence, SetSequence, InitSize, DeleteMessages,
             UpdateMemory, DeleteMemory, AddTurn, Extract, ExecutorDies, Save, Number, NumberFirst,
             MakeRoom, Insert, Count, ForgetMessage, ServerDies, RedisLoses
    <3> QED
      BY <3>1 DEF OthersTyped, OverwriteInv
  <2>a. Stored \subseteq Ids /\ found \in Int /\ sequence \in Int
    BY DEF MessagesTyped, OthersTyped
  <2>1. CASE MemoryServer
    <3>1. saver' = saver /\ Pending' = Pending
      BY <2>1 DEF MemoryServer, InitSequence, SetSequence, InitSize, DeleteMessages, Pending
    <3>2. ASSUME InitSequence PROVE SequenceIsSet' /\ IdsAreNew'
      <4>1. sequence' = sequence /\ Stored' = Stored /\ UNCHANGED <<saver, known, overwritten>>
        BY <3>2 DEF InitSequence, Stored
      <4>2. sequence = 0 => server' = "set" /\ found' = Greatest
        BY <3>2 DEF InitSequence
      <4>3. sequence # 0 => server' = "size"
        BY <3>2 DEF InitSequence
      <4>4. sequence = 0 => Greatest >= 1 /\ \A i \in Stored : i <= Greatest
        <5>1. CASE Stored = {}
          BY <5>1 DEF Greatest
        <5>2. CASE Stored # {}
          <6>1. sequence = 0 => Greatest = MaxOf(Stored)
            BY <2>0, <5>2 DEF Greatest, SequenceIsSet
          <6>2. MaxOf(Stored) \in Stored /\ \A i \in Stored : i <= MaxOf(Stored)
            BY <2>a, <5>2, MaxOfIsGreatest
          <6>3. MaxOf(Stored) \in 2 .. MaxId
            BY <2>0, <6>2 DEF IdsAreNew
          <6> QED
            BY <6>1, <6>2, <6>3, Bounded
        <5> QED
          BY <5>1, <5>2
      <4>5. SequenceIsSet'
        BY <2>0, <4>1, <4>2, <4>3, <4>4 DEF SequenceIsSet
      <4> QED
        BY <2>0, <3>1, <4>1, <4>5 DEF IdsAreNew
    <3>3. ASSUME SetSequence PROVE SequenceIsSet' /\ IdsAreNew'
      <4>1. server' = "size" /\ sequence' = found /\ Stored' = Stored /\ overwritten' = overwritten
        BY <3>3 DEF SetSequence, Stored
      <4>2. found >= 1 /\ (\A i \in Stored : i <= found) /\ Pending = {}
        BY <2>0, <3>3 DEF SetSequence, SequenceIsSet, Pending
      <4> QED
        BY <2>0, <2>a, <3>1, <4>1, <4>2 DEF SequenceIsSet, IdsAreNew
    <3>4. ASSUME InitSize \/ DeleteMessages PROVE SequenceIsSet' /\ IdsAreNew'
      <4>1. server' = "up" /\ UNCHANGED <<sequence, saver, overwritten, known>> /\ Stored' \subseteq Stored
        BY <3>4 DEF InitSize, DeleteMessages, Stored
      <4>2. sequence # 0
        BY <2>0, <3>4 DEF SequenceIsSet, InitSize, DeleteMessages
      <4> QED
        BY <2>0, <3>1, <4>1, <4>2 DEF SequenceIsSet, IdsAreNew
    <3> QED
      BY <2>1, <3>2, <3>3, <3>4 DEF MemoryServer
  <2>2. CASE UpdateMemory \/ DeleteMemory
    <3>1. server = "up" /\ server' \in {"up", "deleting"}
          /\ UNCHANGED <<sequence, saver, overwritten, messages>>
      BY <2>2 DEF UpdateMemory, DeleteMemory
    <3> QED
      BY <2>0, <3>1 DEF SequenceIsSet, IdsAreNew, Pending, Stored
  <2>3. ASSUME NEW t \in Turns, AddTurn(t) PROVE SequenceIsSet' /\ IdsAreNew'
    <3>1. server = "up" /\ UNCHANGED <<server, found, sequence, messages, overwritten, known>>
      BY <2>3 DEF AddTurn
    <3>2. Pending' = Pending /\ \A s \in Pending : saver'[s] = saver[s]
      BY <2>3, Kinded DEF AddTurn, Pending, SaversTyped
    <3>3. \A u \in Savers : saver'[u].pc # "first"
      BY <2>0, <2>3, Kinded DEF AddTurn, SaversTyped, IdsAreNew
    <3> QED
      BY <2>0, <3>1, <3>2, <3>3 DEF SequenceIsSet, IdsAreNew, Stored
  <2>4. ASSUME NEW t \in Turns, Extract(t) \/ ExecutorDies(t) PROVE SequenceIsSet' /\ IdsAreNew'
    <3>1. saver[Facts(t)].pc # "idle" /\ UNCHANGED <<server, found, sequence, messages, overwritten, known>>
      BY <2>4 DEF Extract, ExecutorDies, UnderWay
    <3>2. Pending' \subseteq Pending /\ \A s \in Pending' : saver'[s] = saver[s]
      BY <2>4, Kinded DEF Extract, ExecutorDies, Pending, SaversTyped, SaverGoes, UnderWay
    <3>3. sequence # 0
      BY <2>0, <3>1, Kinded DEF SequenceIsSet
    <3>4. \A u \in Savers : saver'[u].pc # "first"
      BY <2>0, <2>4, Kinded DEF Extract, ExecutorDies, SaversTyped, SaverGoes, IdsAreNew
    <3> QED
      BY <2>0, <3>1, <3>2, <3>3, <3>4 DEF SequenceIsSet, IdsAreNew, Stored
  <2>5. ASSUME NEW s \in Savers, Number(s) PROVE SequenceIsSet' /\ IdsAreNew'
    <3>1. saver[s].pc = "number" /\ sequence # 0 /\ UNCHANGED <<server, found, messages, overwritten, known>>
      BY <2>0, <2>5 DEF Number, SequenceIsSet
    <3>2. saver[s].todo \in Nat
      BY Bounded DEF SaversTyped
    <3>3. sequence' = sequence + saver[s].todo /\ Took(s, sequence + 1 .. sequence + saver[s].todo)
      BY <2>0, <2>5, <3>1 DEF Number
    <3>4. Pending' = Pending \cup {s} /\ s \notin Pending
      BY <3>1, <3>3 DEF Pending, Took, SaversTyped
    <3>5. \A u \in Pending : saver'[u] = saver[u]
      BY <3>3, <3>4 DEF Pending, Took, SaversTyped
    <3>6. saver'[s].batch = (sequence + 1 .. sequence + saver[s].todo)
      BY <3>3 DEF Took, SaversTyped
    <3>7. sequence' # 0 /\ sequence' >= sequence /\ sequence >= 1
      BY <2>0, <2>a, <3>1, <3>2, <3>3 DEF IdsAreNew
    <3>8. \A i \in saver'[s].batch : i > sequence /\ i <= sequence' /\ i > 1
      BY <2>a, <3>2, <3>3, <3>6, <3>7
    <3>9. \A u \in Pending : \A i \in saver[u].batch : i \in Int /\ i <= sequence
      BY <2>0, <2>a DEF IdsAreNew, Pending, SaversTyped, Ids
    <3>10. SequenceIsSet'
      BY <2>0, <3>1, <3>7 DEF SequenceIsSet
    <3>11. \A u, v \in Pending' : u # v => saver'[u].batch \cap saver'[v].batch = {}
      BY <2>0, <2>a, <3>4, <3>5, <3>8, <3>9 DEF IdsAreNew
    <3>12. \A u \in Pending' : \A i \in saver'[u].batch : 1 < i /\ i <= sequence' /\ i \notin Stored
      <4>1. \A i \in Stored : i \in Int /\ i <= sequence
        BY <2>0, <2>a, <3>1, Bounded DEF IdsAreNew, Ids
      <4>2. \A i \in saver'[s].batch : i \in Int
        BY <2>a, <3>2, <3>6
      <4>3. sequence' \in Int
        BY <2>a, <3>2, <3>3
      <4> QED
        BY <2>0, <2>a, <3>4, <3>5, <3>7, <3>8, <3>9, <4>1, <4>2, <4>3 DEF IdsAreNew
    <3>13. Stored' = Stored /\ \A i \in Stored : i <= sequence'
      BY <2>0, <2>a, <3>1, <3>2, <3>3 DEF IdsAreNew, Stored, Ids
    <3>14. \A u \in Savers : saver'[u].pc # "first"
      BY <2>0, <3>3 DEF Took, SaversTyped, IdsAreNew
    <3>15. ~overwritten' /\ sequence' >= 0 /\ Stored' \subseteq 2 .. MaxId
      BY <2>0, <2>a, <3>1, <3>2, <3>3, <3>13 DEF IdsAreNew
    <3> QED
      BY <3>10, <3>11, <3>12, <3>13, <3>14, <3>15 DEF IdsAreNew
  <2>6. ASSUME NEW s \in Savers, NumberFirst(s) PROVE SequenceIsSet' /\ IdsAreNew'
    <3>1. saver[s].pc = "first"
      BY <2>6 DEF NumberFirst
    <3> QED
      BY <2>0, <3>1 DEF IdsAreNew
  <2>7. ASSUME NEW s \in Savers, MakeRoom(s) PROVE SequenceIsSet' /\ IdsAreNew'
    <3>1. saver[s].pc = "check" /\ SaverGoes(s, "insert")
          /\ UNCHANGED <<server, found, sequence, overwritten, known>> /\ Stored' \subseteq Stored
      BY <2>7 DEF MakeRoom, Stored
    <3>2. Pending' = Pending /\ \A u \in Pending : saver'[u].batch = saver[u].batch
      BY <3>1 DEF Pending, SaverGoes, SaversTyped
    <3>3. sequence # 0
      BY <2>0, <3>1 DEF SequenceIsSet
    <3>4. \A u \in Savers : saver'[u].pc # "first"
      BY <2>0, <3>1 DEF SaverGoes, SaversTyped, IdsAreNew
    <3> QED
      BY <2>0, <3>1, <3>2, <3>3, <3>4 DEF SequenceIsSet, IdsAreNew
  <2>8. ASSUME NEW s \in Savers, Insert(s) PROVE SequenceIsSet' /\ IdsAreNew'
    <3>1. saver[s].pc = "insert" /\ PutMessages(s, saver[s].batch) /\ SaverGoes(s, "count")
          /\ UNCHANGED <<server, found, sequence, known>>
      BY <2>0, <2>8 DEF Insert
    <3>2. Stored' = Stored \cup saver[s].batch
      BY <3>1 DEF PutMessages, Stored
    <3>3. s \in Pending /\ Pending' = Pending \ {s} /\ \A u \in Pending' : saver'[u] = saver[u]
      BY <3>1 DEF Pending, SaverGoes, SaversTyped
    <3>4. sequence # 0 /\ saver[s].batch \subseteq 2 .. MaxId
      BY <2>0, <2>a, <3>1, <3>3 DEF SequenceIsSet, IdsAreNew, SaversTyped, Ids
    <3>5. ~overwritten'
      BY <2>0, <3>1, <3>3 DEF IdsAreNew, PutMessages
    <3>6. SequenceIsSet'
      BY <2>0, <3>1, <3>4 DEF SequenceIsSet
    <3>7. \A u \in Pending' : saver[u].batch \cap saver[s].batch = {}
      BY <2>0, <3>3 DEF IdsAreNew
    <3>8. Stored' \subseteq 2 .. MaxId /\ \A i \in Stored' : i <= sequence
      BY <2>0, <3>2, <3>3, <3>4 DEF IdsAreNew
    <3>9. \A u \in Pending' : \A i \in saver'[u].batch : 1 < i /\ i <= sequence /\ i \notin Stored'
      BY <2>0, <3>2, <3>3, <3>7 DEF IdsAreNew
    <3>10. \A u, v \in Pending' : u # v => saver'[u].batch \cap saver'[v].batch = {}
      BY <2>0, <3>3 DEF IdsAreNew
    <3>11. \A u \in Savers : saver'[u].pc # "first"
      BY <2>0, <3>1 DEF SaverGoes, SaversTyped, IdsAreNew
    <3> QED
      BY <2>0, <3>1, <3>5, <3>6, <3>8, <3>9, <3>10, <3>11 DEF IdsAreNew
  <2>9. ASSUME NEW s \in Savers, Count(s) PROVE SequenceIsSet' /\ IdsAreNew'
    <3>1. saver[s].pc = "count" /\ UNCHANGED <<server, found, sequence, known, messages, overwritten>>
          /\ AfterSave(s, TRUE)
      BY <2>9 DEF Count
    <3>2. Pending' \subseteq Pending /\ \A u \in Pending' : saver'[u] = saver[u]
      <4>1. Facts(s[1]) \in Savers
        BY Kinded
      <4>2. \A u \in Savers : \/ saver'[u] = saver[u]
                            \/ saver'[u].pc \in {"over", "queued"}
        <5>1. CASE s[2] = "raw"
          <6>1. saver' = [saver EXCEPT ![s].pc = "over", ![Facts(s[1])].pc = "queued"]
            BY <3>1, <5>1 DEF AfterSave
          <6> QED
            BY <4>1, <6>1 DEF SaversTyped
        <5>2. CASE s[2] # "raw"
          <6>1. saver' = [saver EXCEPT ![s].pc = "over"]
            BY <3>1, <5>2 DEF AfterSave, SaverGoes
          <6> QED
            BY <6>1 DEF SaversTyped
        <5> QED
          BY <5>1, <5>2
      <4> QED
        BY <4>2 DEF Pending
    <3>3. sequence # 0
      BY <2>0, <3>1 DEF SequenceIsSet
    <3>4. \A u \in Savers : saver'[u].pc # "first"
      <4>1. CASE s[2] = "raw"
        BY <2>0, <3>1, <4>1, Kinded DEF AfterSave, SaversTyped, IdsAreNew
      <4>2. CASE s[2] # "raw"
        BY <2>0, <3>1, <4>2 DEF AfterSave, SaverGoes, SaversTyped, IdsAreNew
      <4> QED
        BY <4>1, <4>2
    <3> QED
      BY <2>0, <3>1, <3>2, <3>3, <3>4 DEF SequenceIsSet, IdsAreNew, Stored
  <2>10. ASSUME NEW i \in Stored, ForgetMessage(i) PROVE SequenceIsSet' /\ IdsAreNew'
    <3>1. Stored' = Stored /\ UNCHANGED <<server, found, sequence, known, saver, overwritten>>
      BY <2>10 DEF ForgetMessage, Stored
    <3> QED
      BY <2>0, <3>1 DEF SequenceIsSet, IdsAreNew, Pending
  <2>11. CASE ServerDies
    <3>1. server' = "sequence" /\ UNCHANGED <<sequence, known, messages, overwritten>>
      BY <2>11 DEF ServerDies
    <3>2. Pending' \subseteq Pending /\ \A u \in Pending' : saver'[u] = saver[u]
      BY <2>11 DEF ServerDies, Pending, SaversTyped, UnderWay
    <3>3. sequence = 0 => \A s \in Savers : saver'[s].pc = "idle"
      BY <2>0, <2>11 DEF ServerDies, SequenceIsSet, UnderWay
    <3>4. \A u \in Savers : saver'[u].pc # "first"
      BY <2>0, <2>11 DEF ServerDies, SaversTyped, IdsAreNew
    <3> QED
      BY <2>0, <3>1, <3>2, <3>3, <3>4 DEF SequenceIsSet, IdsAreNew, Stored
  <2>12. CASE UNCHANGED memoryVars
    BY <2>0, <2>12 DEF memoryVars, SequenceIsSet, IdsAreNew, Stored, Pending
  <2>13. ~RedisLoses
    BY <2>0 DEF RedisLoses
  <2> QED
    BY <2>1, <2>2, <2>3, <2>4, <2>5, <2>6, <2>7, <2>8, <2>9, <2>10, <2>11, <2>12, <2>13
    DEF MemoryNext, Save
<1> QED
  BY <1>1, <1>2, MemoryTyped, PTL DEF MemorySpec

-----------------------------------------------------------------------------
\* A turn's facts are extracted when its raw message is saved, and once; the
\* messages go when the memory's row has gone.
SavesInOrder ==
    /\ server = "deleting" => ~known
    /\ \A t \in Turns : /\ progress[t] = "done" => saver[Facts(t)].pc = "over"
                        /\ saver[Raw(t)].pc # "over" => saver[Facts(t)].pc = "idle"

\* What is in the store before the task says so.
HasSaved(t) == progress[t] = "done" \/ saver[Facts(t)].pc = "count"
FactsAreStored ==
    known /\ ~overwritten =>
        \A t \in Turns : HasSaved(t) =>
          \A i \in saver[Facts(t)].batch \ evicted : i \in Stored /\ messages[i].source = t

StoredInv == SavesInOrder /\ FactsAreStored

\* A step that leaves the messages alone, and starts no save that is said to be over.
LEMMA FactsStay ==
    ASSUME FactsAreStored, known' => known, ~overwritten' => ~overwritten, evicted \subseteq evicted',
           \A i \in Stored \ evicted' : i \in Stored' /\ messages'[i].source = messages[i].source,
           \A t \in Turns : HasSaved(t)' => HasSaved(t) /\ saver'[Facts(t)].batch = saver[Facts(t)].batch
    PROVE  FactsAreStored'
  BY DEF FactsAreStored

\* Every step keeps what a task that is done has saved.
LEMMA FactsInStore == MemorySpec => []StoredInv
<1>1. MemoryInit => StoredInv
  BY Kinded DEF MemoryInit, StoredInv, SavesInOrder, FactsAreStored, HasSaved
<1>2. MemoryTypes /\ StoredInv /\ [MemoryNext]_memoryVars => StoredInv'
  <2> SUFFICES ASSUME SaversTyped, MessagesTyped, OthersTyped, SavesInOrder, FactsAreStored,
                      [MemoryNext]_memoryVars
               PROVE  SavesInOrder' /\ FactsAreStored'
    BY DEF StoredInv, MemoryTypes
  <2>1. CASE MemoryServer \/ UpdateMemory \/ DeleteMemory
    <3>1. UNCHANGED <<saver, progress, overwritten, evicted>> /\ (known' => known)
          /\ (known' => messages' = messages /\ server' # "deleting")
      BY <2>1 DEF MemoryServer, InitSequence, SetSequence, InitSize, DeleteMessages, UpdateMemory,
                  DeleteMemory, SavesInOrder
    <3> QED
      BY <3>1 DEF SavesInOrder, FactsAreStored, HasSaved, Stored
  <2>2. ASSUME NEW t \in Turns, AddTurn(t) PROVE SavesInOrder' /\ FactsAreStored'
    <3>1. UNCHANGED <<server, known, progress, messages, overwritten, evicted>>
          /\ saver[Raw(t)].pc = "idle" /\ saver'[Raw(t)].pc = "number"
          /\ \A s \in Savers \ {Raw(t)} : saver'[s] = saver[s]
      BY <2>2, Kinded DEF AddTurn, SaversTyped
    <3>2. \A u \in Turns : saver'[Facts(u)] = saver[Facts(u)] /\ (u # t => saver'[Raw(u)] = saver[Raw(u)])
      BY <3>1, Kinded
    <3>3. SavesInOrder'
      BY <3>1, <3>2 DEF SavesInOrder
    <3> QED
      BY <3>1, <3>2, <3>3, FactsStay DEF HasSaved, Stored
  <2>3. ASSUME NEW t \in Turns, Extract(t) \/ ExecutorDies(t) PROVE SavesInOrder' /\ FactsAreStored'
    <3>1. UNCHANGED <<server, known, messages, overwritten, evicted>>
          /\ saver[Facts(t)].pc \notin {"idle", "over"} /\ saver'[Facts(t)].pc \notin {"idle", "count"}
          /\ \A s \in Savers \ {Facts(t)} : saver'[s] = saver[s]
      BY <2>3, Kinded DEF Extract, ExecutorDies, SaversTyped, SaverGoes, UnderWay
    <3>2. \A u \in Turns : saver'[Raw(u)] = saver[Raw(u)] /\ (u # t => saver'[Facts(u)] = saver[Facts(u)])
      BY <3>1, Kinded
    <3>3. \A u \in Turns \ {t} : progress'[u] = progress[u]
      BY <2>3 DEF Extract, ExecutorDies, OthersTyped
    <3>4. progress[t] # "done" /\ saver[Raw(t)].pc = "over"
      BY <3>1 DEF SavesInOrder
    <3>5. progress'[t] = "done" => saver'[Facts(t)].pc = "over" /\ saver'[Facts(t)].batch = {}
      BY <2>3, <3>4, Kinded, Bounded DEF Extract, ExecutorDies, OthersTyped, SaversTyped
    <3>6. SavesInOrder'
      BY <3>1, <3>2, <3>3, <3>4, <3>5 DEF SavesInOrder
    <3>7. FactsAreStored'
      BY <3>1, <3>2, <3>3, <3>5 DEF FactsAreStored, HasSaved, Stored
    <3> QED
      BY <3>6, <3>7
  <2>4. ASSUME NEW s \in Savers, Number(s) \/ NumberFirst(s) \/ MakeRoom(s)
        PROVE  SavesInOrder' /\ FactsAreStored'
    <3>1. UNCHANGED <<server, known, progress, overwritten>> /\ evicted \subseteq evicted'
          /\ \A i \in Stored \ evicted' : i \in Stored' /\ messages'[i].source = messages[i].source
      BY <2>4 DEF Number, NumberFirst, MakeRoom, Stored
    <3>2. saver[s].pc \notin {"idle", "over"} /\ saver'[s].pc \notin {"over", "count", "idle"}
          /\ \A u \in Savers \ {s} : saver'[u] = saver[u]
      BY <2>4 DEF Number, NumberFirst, MakeRoom, Took, SaverGoes, SaversTyped
    <3>3. SavesInOrder'
      BY <3>1, <3>2, Kinded DEF SavesInOrder
    <3>4. \A t \in Turns : HasSaved(t)' => HasSaved(t) /\ saver'[Facts(t)].batch = saver[Facts(t)].batch
      BY <3>1, <3>2, Kinded DEF HasSaved, SavesInOrder
    <3> QED
      BY <3>1, <3>3, <3>4, FactsStay
  <2>5. ASSUME NEW s \in Savers, NEW ids \in SUBSET saver[s].batch, PutMessages(s, ids),
               saver[s].pc = "insert", UNCHANGED <<server, known, evicted>>,
               \/ ids = saver[s].batch /\ SaverGoes(s, "count") /\ UNCHANGED progress
               \/ AfterSave(s, FALSE)
        PROVE  SavesInOrder' /\ FactsAreStored'
    <3>1. \A u \in Savers \ {s} : saver'[u] = saver[u]
      BY <2>5, Kinded DEF SaverGoes, AfterSave, SaversTyped
    <3>2. saver'[s].batch = saver[s].batch /\ saver'[s].pc \in {"count", "over"}
      BY <2>5, Kinded DEF SaverGoes, AfterSave, SaversTyped
    <3>3. \A t \in Turns : progress'[t] = "done" => progress[t] = "done"
      BY <2>5, Kinded DEF AfterSave, OthersTyped
    <3>4. SavesInOrder'
      BY <2>5, <3>1, <3>2, <3>3, Kinded DEF SavesInOrder
    <3>5. ~overwritten' => ~overwritten /\ ids \cap Stored = {}
      BY <2>5 DEF PutMessages
    <3>6. Stored' = Stored \cup ids
          /\ \A i \in Stored' : messages'[i] = IF i \in ids THEN [source |-> Source(s), forgotten |-> FALSE]
                                                          ELSE messages[i]
      BY <2>5 DEF PutMessages, Stored
    <3>7. ASSUME known, ~overwritten', NEW t \in Turns, HasSaved(t)', NEW i \in saver'[Facts(t)].batch \ evicted
          PROVE  i \in Stored' /\ messages'[i].source = t
      <4>1. CASE s = Facts(t)
        <5>1. Source(s) = t /\ s[2] # "raw" /\ s[1] = t
          BY <4>1 DEF Source, Facts
        <5>2. progress[t] # "done"
          BY <2>5, <4>1 DEF SavesInOrder
        <5>3. saver'[Facts(t)].pc = "count"
          BY <3>3, <3>7, <5>2 DEF HasSaved
        <5>4. ids = saver[s].batch
          BY <2>5, <4>1, <5>1, <5>3 DEF AfterSave, SaverGoes, SaversTyped
        <5> QED
          BY <3>2, <3>6, <3>7, <4>1, <5>1, <5>4
      <4>2. CASE s # Facts(t)
        <5>1. HasSaved(t) /\ saver'[Facts(t)] = saver[Facts(t)]
          BY <3>1, <3>3, <3>7, <4>2, Kinded DEF HasSaved
        <5>2. i \in Stored /\ messages[i].source = t
          BY <3>5, <3>7, <5>1 DEF FactsAreStored
        <5> QED
          BY <3>5, <3>6, <3>7, <5>2
      <4> QED
        BY <4>1, <4>2
    <3> QED
      BY <2>5, <3>4, <3>7 DEF FactsAreStored
  <2>6. ASSUME NEW s \in Savers, Insert(s) PROVE SavesInOrder' /\ FactsAreStored'
    <3>1. PICK ids \in SUBSET saver[s].batch :
             /\ PutMessages(s, ids)
             /\ \/ ids = saver[s].batch /\ SaverGoes(s, "count") /\ UNCHANGED progress
                \/ AfterSave(s, FALSE)
      BY <2>6 DEF Insert
    <3>2. saver[s].pc = "insert" /\ UNCHANGED <<server, known, evicted>>
      BY <2>6 DEF Insert
    <3> QED
      BY <2>5, <3>1, <3>2
  <2>7. ASSUME NEW s \in Savers, Count(s) PROVE SavesInOrder' /\ FactsAreStored'
    <3>1. saver[s].pc = "count" /\ UNCHANGED <<server, known, messages, overwritten, evicted>>
          /\ AfterSave(s, TRUE)
      BY <2>7 DEF Count
    <3>2. CASE s[2] = "raw"
      <4>1. PICK t \in Turns : s = Raw(t) /\ t = s[1]
        BY <3>2, Kinded
      <4>2. progress' = progress /\ saver'[s].pc = "over" /\ saver'[Facts(t)].pc = "queued"
            /\ \A u \in Savers \ {s, Facts(t)} : saver'[u] = saver[u]
        BY <3>1, <3>2, <4>1, Kinded DEF AfterSave, SaversTyped
      <4>3. progress[t] # "done"
        BY <3>1, <4>1 DEF SavesInOrder
      <4>4. SavesInOrder'
        BY <3>1, <4>1, <4>2, <4>3, Kinded DEF SavesInOrder
      <4>5. \A u \in Turns : HasSaved(u)' => HasSaved(u) /\ saver'[Facts(u)].batch = saver[Facts(u)].batch
        BY <4>1, <4>2, <4>3, Kinded DEF HasSaved
      <4> QED
        BY <3>1, <4>4, <4>5, FactsStay DEF Stored
    <3>3. CASE s[2] # "raw"
      <4>1. PICK t \in Turns : s = Facts(t) /\ t = s[1]
        BY <3>3, Kinded
      <4>2. progress' = [progress EXCEPT ![t] = "done"] /\ SaverGoes(s, "over")
        BY <3>1, <3>3, <4>1 DEF AfterSave
      <4>3. saver'[s].pc = "over" /\ saver'[s].batch = saver[s].batch
            /\ \A u \in Savers \ {s} : saver'[u] = saver[u]
        BY <4>2 DEF SaverGoes, SaversTyped
      <4>4. SavesInOrder'
        BY <3>1, <4>1, <4>2, <4>3, Kinded DEF SavesInOrder, OthersTyped
      <4>5. \A u \in Turns : HasSaved(u)' => HasSaved(u) /\ saver'[Facts(u)].batch = saver[Facts(u)].batch
        BY <3>1, <4>1, <4>2, <4>3, Kinded DEF HasSaved, OthersTyped
      <4> QED
        BY <3>1, <4>4, <4>5, FactsStay DEF Stored
    <3> QED
      BY <3>2, <3>3
  <2>8. ASSUME NEW i \in Stored, ForgetMessage(i) PROVE SavesInOrder' /\ FactsAreStored'
    <3>1. UNCHANGED <<server, known, saver, progress, overwritten, evicted>>
          /\ messages' = [messages EXCEPT ![i].forgotten = TRUE]
      BY <2>8 DEF ForgetMessage
    <3>2. \A j \in Stored : j \in Stored' /\ messages'[j].source = messages[j].source
      BY <3>1 DEF MessagesTyped, Stored
    <3>3. SavesInOrder' /\ \A t \in Turns : HasSaved(t)' => HasSaved(t)
      BY <3>1 DEF SavesInOrder, HasSaved
    <3> QED
      BY <3>1, <3>2, <3>3, FactsStay
  <2>9. CASE ServerDies \/ RedisLoses
    <3>1. UNCHANGED <<known, messages, progress, overwritten, evicted>>
          /\ (server' # "deleting" \/ server' = server)
      BY <2>9 DEF ServerDies, RedisLoses
    <3>2. \A s \in Savers : /\ saver'[s].batch = saver[s].batch
                            /\ saver'[s].pc = saver[s].pc \/ (saver'[s].pc = "over" /\ saver[s].pc # "idle")
      BY <2>9 DEF ServerDies, RedisLoses, SaversTyped, UnderWay
    <3>3. \A s \in Savers : saver[s].pc = "over" => saver'[s].pc = "over"
      BY <3>2
    <3>4. SavesInOrder'
      BY <3>1, <3>2, <3>3, Kinded DEF SavesInOrder
    <3>5. \A t \in Turns : HasSaved(t)' => HasSaved(t) /\ saver'[Facts(t)].batch = saver[Facts(t)].batch
      BY <3>1, <3>2, Kinded DEF HasSaved
    <3> QED
      BY <3>1, <3>4, <3>5, FactsStay DEF Stored
  <2>10. CASE UNCHANGED memoryVars
    BY <2>10 DEF memoryVars, SavesInOrder, FactsAreStored, HasSaved, Stored
  <2> QED
    BY <2>1, <2>2, <2>3, <2>4, <2>6, <2>7, <2>8, <2>9, <2>10 DEF MemoryNext, Save
<1> QED
  BY <1>1, <1>2, MemoryTyped, PTL DEF MemorySpec

-----------------------------------------------------------------------------
\* Types of the sequence, the size in Redis, the messages and the saves
\* (generate_auto_increment_id, embed_and_save).
THEOREM MemoryTypesHold == MemorySpec => []MemoryTypeOK
  BY MemoryTyped, TypesByPart, PTL

\* embed_and_save: however servers start and executors die, no message replaces
\* another as long as Redis keeps its data and no call fails.
THEOREM NoneOverwritten == MemorySpec => []NothingOverwritten
<1>1. OverwriteInv => NothingOverwritten
  BY DEF OverwriteInv, IdsAreNew, NothingOverwritten
<1> QED
  BY <1>1, NewIds, PTL

\* handle_save_to_memory_task: a task whose progress is 1.0 has saved what it extracted.
THEOREM Extracted == MemorySpec => []ExtractedIsStored
<1>1. StoredInv => ExtractedIsStored
  BY DEF StoredInv, FactsAreStored, HasSaved, ExtractedIsStored
<1> QED
  BY <1>1, FactsInStore, PTL

------------------------------------------------------------------------------
(***************************************************************************)
(* ConnectorSync for any number of datasets, objects, changes and          *)
(* requests.  A run without a twin that nobody meddled with owns its row,  *)
(* so whichever ends last leaves the connector scheduled.  What the row or *)
(* a run says has been seen, up to a time, is up to date in the dataset    *)
(* that holds it, or is still to be stored by a run of that dataset; a     *)
(* change at the source has a later time than any of these.                *)
(***************************************************************************)

\* Rows, runs and the rest, each typed by itself.
Statuses == {"none", "SCHEDULE", "RUNNING", "DONE", "FAIL", "CANCEL"}
LogRows == [status : Statuses, start : Nat, end : Nat, full : BOOLEAN]
RunRecords == [at : {"idle", "called", "poll", "done"}, start : Nat, full : BOOLEAN,
         todo : SUBSET (Objects \X Nat), mine : BOOLEAN]
DocTypes ==
    /\ modified \in [Objects -> Nat] /\ now \in Nat
    /\ holder \in [Objects -> Datasets \cup {NoDataset}] /\ version \in [Objects -> Nat]
    /\ linked \subseteq Datasets /\ others \in [Datasets -> SUBSET AutoParse]
    /\ connector_status \in {"SCHEDULE", "RUNNING", "DONE", "CANCEL"}
    /\ commands \in Nat /\ mishaps \in Nat
SyncTypes == log \in [Datasets -> LogRows] /\ sync \in [Runs -> RunRecords] /\ DocTypes

\* They imply SyncTypeOK.
LEMMA TypesOfParts == SyncTypes => SyncTypeOK
  BY DEF SyncTypes, SyncTypeOK, LogRows, RunRecords, DocTypes, Statuses

\* next_update, the greater of two times.
LEMMA MaxIsNat ==
    ASSUME NEW a \in Nat, NEW b \in Nat
    PROVE  Max({a, b}) \in Nat /\ a <= Max({a, b}) /\ b <= Max({a, b}) /\ Max({a, b}) \in {a, b}
<1>1. \E x \in {a, b} : \A y \in {a, b} : x >= y
  OBVIOUS
<1> QED
  BY <1>1 DEF Max

\* Rows and runs as they are made.
LEMMA NewRows ==
    /\ \A s \in Statuses, n \in Nat, b \in BOOLEAN : Row(s, n, b) \in LogRows
    /\ Resting \in RunRecords
  BY DEF LogRows, Row, RunRecords, Resting

\* A row put in for the next run.
LEMMA ScheduleTyped ==
    ASSUME log \in [Datasets -> LogRows], connector_status \in {"SCHEDULE", "RUNNING", "DONE", "CANCEL"},
           NEW k \in Datasets, NEW from \in Nat, NEW full \in BOOLEAN, Schedule(k, from, full)
    PROVE  /\ log' \in [Datasets -> LogRows]
           /\ connector_status' \in {"SCHEDULE", "RUNNING", "DONE", "CANCEL"}
<1>1. Row("SCHEDULE", from, full) \in LogRows
  BY NewRows DEF Statuses
<1>2. \/ log' = log /\ connector_status' = connector_status
      \/ log' = [log EXCEPT ![k] = Row("SCHEDULE", from, full)] /\ connector_status' = "SCHEDULE"
  BY DEF Schedule
<1> QED
  BY <1>1, <1>2

\* A run whose batch is over, stored or not.
LEMMA RunGoesOn ==
    ASSUME sync \in [Runs -> RunRecords], NEW r \in Runs, NEW x, NEW t \in Nat
    PROVE  [sync EXCEPT ![r].todo = @ \ {x}, ![r].start = t] \in [Runs -> RunRecords]
<1> DEFINE after == [sync[r] EXCEPT !.todo = @ \ {x}, !.start = t]
<1> DEFINE left == sync[r].todo \ {x}
<1>1. sync[r] \in RunRecords /\ left \in SUBSET (Objects \X Nat)
  BY DEF RunRecords
<1> HIDE DEF left
<1>2. [sync[r] EXCEPT !.todo = left, !.start = t] \in RunRecords
  BY <1>1 DEF RunRecords
<1>3. after \in RunRecords
  BY <1>2 DEF left
<1>4. [sync EXCEPT ![r].todo = @ \ {x}, ![r].start = t] = [sync EXCEPT ![r] = after]
  OBVIOUS
<1> HIDE DEF after
<1> QED
  BY <1>3, <1>4

\* A run whose row another row has taken the place of.
LEMMA NotMineTyped ==
    ASSUME sync \in [Runs -> RunRecords], NEW k \in Datasets, NotMine(k)
    PROVE  sync' \in [Runs -> RunRecords]
<1>1. \A r \in Runs : [sync[r] EXCEPT !.mine = @ /\ r[1] # k] \in RunRecords
  BY DEF RunRecords
<1> QED
  BY <1>1 DEF NotMine

\* The datasets that resume reaches, and of these the ones whose run has ended.
LEMMA ResumesSome ==
    ASSUME Resume
    PROVE  \E reached \in SUBSET linked, done \in SUBSET linked :
             /\ log' = [k \in Datasets |->
                         IF k \in done THEN Row("SCHEDULE", log[k].end, FALSE)
                         ELSE IF k \in reached THEN [log[k] EXCEPT !.status = "SCHEDULE"] ELSE log[k]]
             /\ sync' = [r \in Runs |-> [sync[r] EXCEPT !.mine = @ /\ r[1] \notin done]]
<1>1. PICK reached \in SUBSET linked :
         LET done == {k \in reached : log[k].status = "DONE"}
         IN  /\ log' = [k \in Datasets |->
                         IF k \in done THEN Row("SCHEDULE", log[k].end, FALSE)
                         ELSE IF k \in reached THEN [log[k] EXCEPT !.status = "SCHEDULE"] ELSE log[k]]
             /\ sync' = [r \in Runs |-> [sync[r] EXCEPT !.mine = @ /\ r[1] \notin done]]
  BY DEF Resume
<1> DEFINE done == {k \in reached : log[k].status = "DONE"}
<1>2. /\ log' = [k \in Datasets |->
                 IF k \in done THEN Row("SCHEDULE", log[k].end, FALSE)
                 ELSE IF k \in reached THEN [log[k] EXCEPT !.status = "SCHEDULE"] ELSE log[k]]
      /\ sync' = [r \in Runs |-> [sync[r] EXCEPT !.mine = @ /\ r[1] \notin done]]
  BY <1>1
<1>3. done \in SUBSET linked
  OBVIOUS
<1> HIDE DEF done
<1> QED
  BY <1>2, <1>3, Zenon

\* Every step keeps the types.
LEMMA SyncTyped == SyncInit /\ [][SyncNext]_syncVars => []SyncTypes
<1>1. SyncInit => SyncTypes
  <2> SUFFICES ASSUME SyncInit
               PROVE  log \in [Datasets -> LogRows] /\ sync \in [Runs -> RunRecords] /\ DocTypes
    BY DEF SyncTypes
  <2>1. log \in [Datasets -> LogRows]
    BY DEF SyncInit, LogRows, Row, Statuses
  <2>2. sync \in [Runs -> RunRecords]
    BY DEF SyncInit, RunRecords, Resting
  <2> QED
    BY <2>1, <2>2 DEF SyncInit, DocTypes
<1>2. SyncTypes /\ [SyncNext]_syncVars => SyncTypes'
  <2> SUFFICES ASSUME log \in [Datasets -> LogRows], sync \in [Runs -> RunRecords], DocTypes,
                      [SyncNext]_syncVars
               PROVE  log' \in [Datasets -> LogRows] /\ sync' \in [Runs -> RunRecords] /\ DocTypes'
    BY DEF SyncTypes
  <2>r. \A r \in Runs : r[1] \in Datasets
    BY DEF Runs
  <2> USE DEF sourceVars, docVars, linkVars, Mishap, Command
  <2>1. CASE DispatchTasks
    <3>1. log' \in [Datasets -> LogRows]
      BY <2>1 DEF DispatchTasks
    <3>2. sync' \in [Runs -> RunRecords]
      <4>1. PICK due \in SUBSET Runs :
               sync' = [r \in Runs |-> IF r \in due
                         THEN [Resting EXCEPT !.at = "called", !.start = log[r[1]].start,
                                              !.full = log[r[1]].full, !.mine = TRUE]
                         ELSE Resting]
        BY <2>1 DEF DispatchTasks, Due
      <4>2. \A r \in Runs : log[r[1]].start \in Nat /\ log[r[1]].full \in BOOLEAN
        BY <2>r DEF LogRows
      <4> QED
        BY <4>1, <4>2 DEF RunRecords, Resting
    <3>3. DocTypes'
      BY <2>1 DEF DispatchTasks, DocTypes
    <3> QED
      BY <3>1, <3>2, <3>3
  <2>12. CASE SyncDies
    <3>1. log' \in [Datasets -> LogRows]
      BY <2>12 DEF SyncDies
    <3>2. sync' \in [Runs -> RunRecords]
      BY <2>12, NewRows DEF SyncDies
    <3>3. DocTypes'
      BY <2>12 DEF SyncDies, DocTypes
    <3> QED
      BY <3>1, <3>2, <3>3
  <2>2. CASE Pause
    <3>1. log' \in [Datasets -> LogRows]
      BY <2>2 DEF Pause, LogRows, Statuses
    <3>2. sync' \in [Runs -> RunRecords]
      BY <2>2 DEF Pause
    <3>3. DocTypes'
      BY <2>2 DEF Pause, DocTypes
    <3> QED
      BY <3>1, <3>2, <3>3
  <2>3. CASE Resume
    <3>a. PICK reached \in SUBSET linked, done \in SUBSET linked :
             /\ log' = [k \in Datasets |->
                         IF k \in done THEN Row("SCHEDULE", log[k].end, FALSE)
                         ELSE IF k \in reached THEN [log[k] EXCEPT !.status = "SCHEDULE"] ELSE log[k]]
             /\ sync' = [r \in Runs |-> [sync[r] EXCEPT !.mine = @ /\ r[1] \notin done]]
      BY <2>3, ResumesSome
    <3>1. log' \in [Datasets -> LogRows]
      <4>1. \A k \in Datasets : /\ Row("SCHEDULE", log[k].end, FALSE) \in LogRows
                               /\ [log[k] EXCEPT !.status = "SCHEDULE"] \in LogRows
        BY DEF LogRows, Row, Statuses
      <4> QED
        BY <3>a, <4>1
    <3>2. sync' \in [Runs -> RunRecords]
      <4>1. \A r \in Runs : [sync[r] EXCEPT !.mine = @ /\ r[1] \notin done] \in RunRecords
        BY DEF RunRecords
      <4> QED
        BY <3>a, <4>1
    <3>3. DocTypes'
      BY <2>3 DEF Resume, DocTypes
    <3> QED
      BY <3>1, <3>2, <3>3
  <2>4. ASSUME NEW i \in Objects, ChangeItem(i)
        PROVE  log' \in [Datasets -> LogRows] /\ sync' \in [Runs -> RunRecords] /\ DocTypes'
    <3>1. log' \in [Datasets -> LogRows]
      BY <2>4 DEF ChangeItem
    <3>2. sync' \in [Runs -> RunRecords]
      BY <2>4 DEF ChangeItem
    <3>3. DocTypes'
      BY <2>4 DEF ChangeItem, DocTypes
    <3> QED
      BY <3>1, <3>2, <3>3
  <2>5. ASSUME NEW r \in Runs, StartSync(r)
        PROVE  log' \in [Datasets -> LogRows] /\ sync' \in [Runs -> RunRecords] /\ DocTypes'
    <3>a. {<<i, modified[i]>> : i \in Polled(r)} \in SUBSET (Objects \X Nat)
      BY DEF Polled, DocTypes
    <3>1. log' \in [Datasets -> LogRows]
      BY <2>5 DEF StartSync, Writes, LogRows, Statuses
    <3>2. sync' \in [Runs -> RunRecords]
      <4> DEFINE polled == {<<i, modified[i]>> : i \in Polled(r)}
      <4>1. sync' = [sync EXCEPT ![r] = [sync[r] EXCEPT !.at = "poll", !.todo = polled]]
        BY <2>5 DEF StartSync
      <4> HIDE DEF polled
      <4>2. sync[r] \in RunRecords /\ polled \in SUBSET (Objects \X Nat)
        BY <3>a DEF polled
      <4>3. [sync[r] EXCEPT !.at = "poll", !.todo = polled] \in RunRecords
        BY <4>2 DEF RunRecords
      <4> QED
        BY <4>1, <4>3
    <3>3. DocTypes'
      BY <2>5 DEF StartSync, DocTypes
    <3> QED
      BY <3>1, <3>2, <3>3
  <2>6. ASSUME NEW r \in Runs, NEW x \in sync[r].todo, StoreBatch(r, x)
        PROVE  log' \in [Datasets -> LogRows] /\ sync' \in [Runs -> RunRecords] /\ DocTypes'
    <3>a. x[1] \in Objects /\ x[2] \in Nat /\ sync[r].start \in Nat /\ log[r[1]].start \in Nat /\ log[r[1]].end \in Nat
      BY <2>r DEF RunRecords, LogRows
    <3>b. Seen(sync[r].start, x[2]) \in Nat /\ Max({log[r[1]].start, x[2]}) \in Nat /\ Max({log[r[1]].end, x[2]}) \in Nat
      BY <3>a, MaxIsNat DEF Seen
    <3>1. log' \in [Datasets -> LogRows]
      <4>1. [log[r[1]] EXCEPT !.start = Max({log[r[1]].start, x[2]}), !.end = Max({log[r[1]].end, x[2]})] \in LogRows
        BY <2>r, <3>b DEF LogRows
      <4>2. log' = [log EXCEPT ![r[1]] = IF sync[r].mine
                THEN [log[r[1]] EXCEPT !.start = Max({log[r[1]].start, x[2]}), !.end = Max({log[r[1]].end, x[2]})]
                ELSE log[r[1]]]
        BY <2>6 DEF StoreBatch
      <4> QED
        BY <4>1, <4>2
    <3>2. sync' \in [Runs -> RunRecords]
      BY <2>6, RunGoesOn, <3>b DEF StoreBatch
    <3>3. DocTypes'
      BY <2>6, <2>r, <3>a DEF StoreBatch, DocTypes
    <3> QED
      BY <3>1, <3>2, <3>3
  <2>13. ASSUME NEW r \in Runs, NEW x \in sync[r].todo, BatchFails(r, x)
        PROVE  log' \in [Datasets -> LogRows] /\ sync' \in [Runs -> RunRecords] /\ DocTypes'
    <3>a. x[2] \in Nat /\ sync[r].start \in Nat
      BY DEF RunRecords
    <3>b. Seen(sync[r].start, x[2]) \in Nat
      BY <3>a, MaxIsNat DEF Seen
    <3>1. log' \in [Datasets -> LogRows]
      BY <2>13 DEF BatchFails
    <3>2. sync' \in [Runs -> RunRecords]
      BY <2>13, RunGoesOn, <3>b DEF BatchFails
    <3>3. DocTypes'
      BY <2>13 DEF BatchFails, DocTypes
    <3> QED
      BY <3>1, <3>2, <3>3
  <2>7. ASSUME NEW r \in Runs, SyncFails(r)
        PROVE  log' \in [Datasets -> LogRows] /\ sync' \in [Runs -> RunRecords] /\ DocTypes'
    <3>1. log' \in [Datasets -> LogRows]
      BY <2>7 DEF SyncFails, Writes, LogRows, Statuses
    <3>2. sync' \in [Runs -> RunRecords]
      BY <2>7, NewRows DEF SyncFails
    <3>3. DocTypes'
      BY <2>7 DEF SyncFails, DocTypes
    <3> QED
      BY <3>1, <3>2, <3>3
  <2>14. ASSUME NEW r \in Runs, SyncDone(r)
        PROVE  log' \in [Datasets -> LogRows] /\ sync' \in [Runs -> RunRecords] /\ DocTypes'
    <3>1. log' \in [Datasets -> LogRows]
      BY <2>14 DEF SyncDone, Writes, LogRows, Statuses
    <3>2. sync' \in [Runs -> RunRecords]
      <4>1. [sync[r] EXCEPT !.at = "done"] \in RunRecords
        BY DEF RunRecords
      <4> QED
        BY <2>14, <4>1 DEF SyncDone
    <3>3. DocTypes'
      BY <2>14 DEF SyncDone, DocTypes
    <3> QED
      BY <3>1, <3>2, <3>3
  <2>8. ASSUME NEW r \in Runs, Reschedule(r)
        PROVE  log' \in [Datasets -> LogRows] /\ sync' \in [Runs -> RunRecords] /\ DocTypes'
    <3>a. log' \in [Datasets -> LogRows] /\ connector_status' \in {"SCHEDULE", "RUNNING", "DONE", "CANCEL"}
      <4>1. sync[r].start \in Nat
        BY DEF RunRecords
      <4> QED
        BY <2>8, <2>r, <4>1, ScheduleTyped DEF Reschedule, DocTypes
    <3>1. log' \in [Datasets -> LogRows]
      BY <3>a
    <3>2. sync' \in [Runs -> RunRecords]
      <4> DEFINE kept(q) == [sync[q] EXCEPT !.mine = @ /\ (q[1] = r[1] => log[r[1]].status = "SCHEDULE")]
      <4>1. \A q \in Runs : kept(q) \in RunRecords
        BY DEF RunRecords
      <4>2. sync' = [q \in Runs |-> IF q = r THEN Resting ELSE kept(q)]
        BY <2>8 DEF Reschedule
      <4> HIDE DEF kept
      <4> QED
        BY <4>1, <4>2, NewRows
    <3>3. DocTypes'
      BY <2>8, <3>a DEF Reschedule, DocTypes
    <3> QED
      BY <3>1, <3>2, <3>3
  <2>9. ASSUME NEW k \in Datasets, LinkDataset(k)
        PROVE  log' \in [Datasets -> LogRows] /\ sync' \in [Runs -> RunRecords] /\ DocTypes'
    <3>a. log' \in [Datasets -> LogRows] /\ connector_status' \in {"SCHEDULE", "RUNNING", "DONE", "CANCEL"}
      BY <2>9, ScheduleTyped DEF LinkDataset, DocTypes
    <3>1. log' \in [Datasets -> LogRows]
      BY <3>a
    <3>2. sync' \in [Runs -> RunRecords]
      BY <2>9, NotMineTyped DEF LinkDataset
    <3>3. DocTypes'
      BY <2>9, <3>a DEF LinkDataset, DocTypes
    <3> QED
      BY <3>1, <3>2, <3>3
  <2>10. ASSUME NEW k \in Datasets, UnlinkDataset(k)
        PROVE  log' \in [Datasets -> LogRows] /\ sync' \in [Runs -> RunRecords] /\ DocTypes'
    <3>1. log' \in [Datasets -> LogRows]
      BY <2>10 DEF UnlinkDataset, LogRows, Statuses
    <3>2. sync' \in [Runs -> RunRecords]
      BY <2>10 DEF UnlinkDataset
    <3>3. DocTypes'
      BY <2>10 DEF UnlinkDataset, DocTypes
    <3> QED
      BY <3>1, <3>2, <3>3
  <2>15. ASSUME NEW k \in Datasets, Rebuild(k)
        PROVE  log' \in [Datasets -> LogRows] /\ sync' \in [Runs -> RunRecords] /\ DocTypes'
    <3>1. log' \in [Datasets -> LogRows]
      BY <2>15, NewRows DEF Rebuild, Statuses
    <3>2. sync' \in [Runs -> RunRecords]
      BY <2>15, NotMineTyped DEF Rebuild
    <3>3. DocTypes'
      BY <2>15 DEF Rebuild, DocTypes
    <3> QED
      BY <3>1, <3>2, <3>3
  <2>16. ASSUME NEW k \in Datasets, NEW settings \in SUBSET AutoParse, LinkOthers(k, settings)
        PROVE  log' \in [Datasets -> LogRows] /\ sync' \in [Runs -> RunRecords] /\ DocTypes'
    BY <2>16 DEF LinkOthers, DocTypes
  <2>11. CASE UNCHANGED syncVars
    BY <2>11 DEF syncVars, DocTypes
  <2> QED
    BY <2>1, <2>2, <2>3, <2>4, <2>5, <2>6, <2>7, <2>8, <2>9, <2>10, <2>11,
       <2>12, <2>13, <2>14, <2>15, <2>16 DEF SyncNext, RunSync
<1> QED
  BY <1>1, <1>2, PTL
-----------------------------------------------------------------------------
\* A run that nobody meddled with, and that has no twin, owns its row, which says
\* what the run does.
Owned ==
    /\ SyncsAtWork = {} => connector_status = "SCHEDULE"
    /\ \A r \in Runs : sync[r].at # "idle" => sync[r].mine
    /\ \A q, r \in Runs : sync[q].at # "idle" /\ sync[r].at # "idle" /\ q[1] = r[1] => q = r
    /\ \A r \in Runs : sync[r].at \in {"poll", "done"} => log[r[1]].status # "SCHEDULE"
RunsOwnRows == mishaps = 0 /\ ~meddled /\ ~doubled => Owned

\* Every step leaves a run its row, but for those that meddle.
LEMMA RowsOwned == SyncInit /\ [][SyncNext]_syncVars => []RunsOwnRows
<1>1. SyncInit => RunsOwnRows
  <2> SUFFICES ASSUME SyncInit PROVE Owned
    BY DEF RunsOwnRows
  <2>1. connector_status = "SCHEDULE" /\ \A r \in Runs : sync[r] = Resting
    BY DEF SyncInit
  <2>2. Resting.at = "idle"
    BY DEF Resting
  <2> QED
    BY <2>1, <2>2 DEF Owned
<1>2. SyncTypes /\ RunsOwnRows /\ [SyncNext]_syncVars => RunsOwnRows'
  <2> SUFFICES ASSUME log \in [Datasets -> LogRows], sync \in [Runs -> RunRecords], mishaps \in Nat,
                      linked \subseteq Datasets, RunsOwnRows,
                      [SyncNext]_syncVars, mishaps' = 0, ~meddled', ~doubled'
               PROVE  Owned'
    BY DEF RunsOwnRows, SyncTypes, DocTypes
  <2>r. \A r \in Runs : r[1] \in Datasets
    BY DEF Runs
  <2>0. Owned
    <3>1. mishaps' = mishaps \/ mishaps' = mishaps + 1
      BY DEF SyncNext, DispatchTasks, SyncDies, Pause, Resume, ChangeItem, RunSync, StartSync, SyncDone,
             Reschedule, StoreBatch, BatchFails, SyncFails, LinkDataset, UnlinkDataset, LinkOthers, Rebuild,
             Mishap, syncVars
    <3>2. meddled => meddled'
      BY DEF SyncNext, DispatchTasks, SyncDies, Pause, Resume, ChangeItem, RunSync, StartSync, SyncDone,
             Reschedule, StoreBatch, BatchFails, SyncFails, LinkDataset, UnlinkDataset, LinkOthers, Rebuild,
             syncVars
    <3>3. doubled => doubled'
      BY DEF SyncNext, DispatchTasks, SyncDies, Pause, Resume, ChangeItem, RunSync, StartSync, SyncDone,
             Reschedule, StoreBatch, BatchFails, SyncFails, LinkDataset, UnlinkDataset, LinkOthers, Rebuild,
             syncVars
    <3> QED
      BY <3>1, <3>2, <3>3 DEF RunsOwnRows
  <2>a. /\ SyncsAtWork = {} => connector_status = "SCHEDULE"
        /\ \A r \in Runs : sync[r].at # "idle" => sync[r].mine
        /\ \A q, r \in Runs : sync[q].at # "idle" /\ sync[r].at # "idle" /\ q[1] = r[1] => q = r
        /\ \A r \in Runs : sync[r].at \in {"poll", "done"} => log[r[1]].status # "SCHEDULE"
    BY <2>0 DEF Owned
  \* A step that starts and ends no run, and puts in no row but where none is at work.
  <2>b. ASSUME \A r \in Runs : sync'[r].at # "idle" <=> sync[r].at # "idle",
               \A r \in Runs : sync'[r].at # "idle" => sync'[r].mine,
               SyncsAtWork = {} => connector_status' = "SCHEDULE",
               \A r \in Runs : sync'[r].at \in {"poll", "done"} => log'[r[1]].status # "SCHEDULE"
        PROVE  Owned'
    <3>1. SyncsAtWork' = {} => SyncsAtWork = {}
      BY <2>b DEF SyncsAtWork
    <3> QED
      BY <2>a, <2>b, <3>1 DEF Owned
  <2> USE DEF Mishap, linkVars
  <2>1. CASE DispatchTasks
    <3>1. PICK ripe \in SUBSET Datasets :
             LET due == {r \in Due : r[1] \in ripe}
             IN  /\ due # {}
                 /\ sync' = [r \in Runs |-> IF r \in due
                              THEN [Resting EXCEPT !.at = "called", !.start = log[r[1]].start,
                                                   !.full = log[r[1]].full, !.mine = TRUE]
                              ELSE Resting]
                 /\ doubled' = (doubled \/ \E q, r \in due : q[1] = r[1] /\ q # r)
      BY <2>1 DEF DispatchTasks
    <3> DEFINE due == {r \in Due : r[1] \in ripe}
    <3>2. /\ due \in SUBSET Runs /\ due # {}
          /\ sync' = [r \in Runs |-> IF r \in due
                       THEN [Resting EXCEPT !.at = "called", !.start = log[r[1]].start,
                                            !.full = log[r[1]].full, !.mine = TRUE]
                       ELSE Resting]
          /\ \A q, r \in due : q[1] = r[1] => q = r
      BY <3>1 DEF Due
    <3> HIDE DEF due
    <3>3. \A r \in Runs : IF r \in due THEN sync'[r].at = "called" /\ sync'[r].mine
                                        ELSE sync'[r].at = "idle"
      BY <3>2 DEF Resting
    <3>4. SyncsAtWork' # {}
      BY <3>2, <3>3 DEF SyncsAtWork
    <3> QED
      BY <3>2, <3>3, <3>4 DEF Owned
  <2>2. CASE Pause \/ SyncDies
    BY <2>2 DEF Pause, SyncDies
  <2>3. CASE Resume
    <3>1. SyncsAtWork = {} /\ connector_status' = "SCHEDULE"
      BY <2>3 DEF Resume
    <3>2. PICK done : sync' = [r \in Runs |-> [sync[r] EXCEPT !.mine = @ /\ r[1] \notin done]]
      BY <2>3, ResumesSome
    <3>3. \A r \in Runs : sync[r].at = "idle" /\ sync'[r].at = sync[r].at
      BY <3>1, <3>2 DEF SyncsAtWork, RunRecords
    <3> QED
      BY <2>b, <3>1, <3>3
  <2>4. ASSUME NEW i \in Objects, ChangeItem(i) PROVE Owned'
    BY <2>a, <2>b, <2>4 DEF ChangeItem
  <2>5. ASSUME NEW r \in Runs, StartSync(r) PROVE Owned'
    <3>1. \A q \in Runs : q # r => sync'[q] = sync[q] /\ (sync[q].at # "idle" => q[1] # r[1])
      BY <2>a, <2>5 DEF StartSync
    <3>2. sync[r].at = "called" /\ sync'[r].at = "poll" /\ sync'[r].mine = sync[r].mine
      BY <2>5 DEF StartSync, RunRecords
    <3>3. sync[r].mine /\ r \in SyncsAtWork
      BY <2>a, <3>2 DEF SyncsAtWork
    <3>4. /\ log'[r[1]].status = "RUNNING"
          /\ \A q \in Runs : q[1] # r[1] => log'[q[1]] = log[q[1]]
      BY <2>5, <2>r, <3>3 DEF StartSync, Writes, LogRows
    <3> QED
      BY <2>a, <2>b, <3>1, <3>2, <3>3, <3>4
  <2>6. ASSUME NEW r \in Runs, NEW x \in sync[r].todo, StoreBatch(r, x) PROVE Owned'
    <3>1. \A q \in Runs : sync'[q].at = sync[q].at /\ sync'[q].mine = sync[q].mine
      BY <2>6 DEF StoreBatch, RunRecords
    <3>2. \A k \in Datasets : log'[k].status = log[k].status
      BY <2>6 DEF StoreBatch, LogRows
    <3>3. connector_status' = connector_status
      BY <2>6 DEF StoreBatch
    <3> QED
      BY <2>a, <2>b, <2>r, <3>1, <3>2, <3>3
  <2>7. ASSUME NEW r \in Runs, NEW x \in sync[r].todo, BatchFails(r, x) PROVE FALSE
    BY <2>7 DEF BatchFails
  <2>14. ASSUME NEW r \in Runs, SyncFails(r) PROVE FALSE
    BY <2>14 DEF SyncFails
  <2>8. ASSUME NEW r \in Runs, SyncDone(r) PROVE Owned'
    <3>1. \A q \in Runs : q # r => sync'[q] = sync[q] /\ (sync[q].at # "idle" => q[1] # r[1])
      BY <2>a, <2>8 DEF SyncDone
    <3>2. sync[r].at = "poll" /\ sync'[r].at = "done" /\ sync'[r].mine = sync[r].mine
      BY <2>8 DEF SyncDone, RunRecords
    <3>3. sync[r].mine /\ r \in SyncsAtWork
      BY <2>a, <3>2 DEF SyncsAtWork
    <3>4. /\ log'[r[1]].status = "DONE"
          /\ \A q \in Runs : q[1] # r[1] => log'[q[1]] = log[q[1]]
      BY <2>8, <2>r, <3>3 DEF SyncDone, Writes, LogRows
    <3> QED
      BY <2>a, <2>b, <3>1, <3>2, <3>3, <3>4
  <2>9. ASSUME NEW r \in Runs, Reschedule(r) PROVE Owned'
    <3>1. sync[r].at = "done" /\ log[r[1]].status # "SCHEDULE"
      BY <2>a, <2>9 DEF Reschedule
    <3>2. connector_status' = "SCHEDULE" /\ \A q \in Runs : q[1] # r[1] => log'[q[1]] = log[q[1]]
      BY <2>9, <2>r, <3>1 DEF Reschedule, Schedule
    <3>3. \A q \in Runs : q # r /\ sync[q].at # "idle" => q[1] # r[1]
      BY <2>a, <3>1
    <3>4. sync'[r].at = "idle"
      BY <2>9 DEF Reschedule, Resting
    <3>5. \A q \in Runs : q # r => /\ sync'[q].at = sync[q].at
                                   /\ q[1] # r[1] => sync'[q].mine = sync[q].mine
      BY <2>9 DEF Reschedule, RunRecords
    <3> QED
      BY <2>a, <3>1, <3>2, <3>3, <3>4, <3>5 DEF Owned
  <2>10. ASSUME NEW k \in Datasets, LinkDataset(k) PROVE Owned'
    <3>1. \A r \in Runs : sync[r].at # "idle" => r[1] # k
      BY <2>10 DEF LinkDataset, Working, SyncsAtWork
    <3>2. \A r \in Runs : sync'[r].at = sync[r].at /\ (r[1] # k => sync'[r].mine = sync[r].mine)
      BY <2>10 DEF LinkDataset, NotMine, RunRecords
    <3>3. \A r \in Runs : r[1] # k => log'[r[1]] = log[r[1]]
      BY <2>10, <2>r DEF LinkDataset, Schedule
    <3>4. connector_status' = connector_status \/ connector_status' = "SCHEDULE"
      BY <2>10 DEF LinkDataset, Schedule
    <3> QED
      BY <2>a, <2>b, <3>1, <3>2, <3>3, <3>4
  <2>11. ASSUME NEW k \in Datasets, UnlinkDataset(k) PROVE Owned'
    <3>1. \A r \in Runs : log'[r[1]].status = "SCHEDULE" => log[r[1]].status = "SCHEDULE"
      BY <2>11, <2>r DEF UnlinkDataset, LogRows
    <3> QED
      BY <2>a, <2>b, <2>11, <3>1 DEF UnlinkDataset
  <2>12. ASSUME NEW k \in Datasets, Rebuild(k) PROVE Owned'
    <3>1. SyncsAtWork = {} /\ connector_status' = "SCHEDULE"
      BY <2>12 DEF Rebuild
    <3>2. \A r \in Runs : sync[r].at = "idle" /\ sync'[r].at = sync[r].at
      BY <3>1, <2>12 DEF SyncsAtWork, Rebuild, NotMine, RunRecords
    <3> QED
      BY <2>b, <3>1, <3>2
  <2>15. ASSUME NEW k \in Datasets, NEW settings \in SUBSET AutoParse, LinkOthers(k, settings) PROVE Owned'
    BY <2>a, <2>b, <2>15 DEF LinkOthers
  <2>13. CASE UNCHANGED syncVars
    BY <2>a, <2>b, <2>13 DEF syncVars
  <2> QED
    BY <2>1, <2>2, <2>3, <2>4, <2>5, <2>6, <2>7, <2>8, <2>9, <2>10, <2>11, <2>12, <2>13, <2>14, <2>15 DEF SyncNext, RunSync
<1> QED
  BY <1>1, <1>2, SyncTyped, PTL
-----------------------------------------------------------------------------
\* What a row or a run says has been seen, up to a time, is in the dataset that
\* holds it, but for what a run of the dataset has still to store.
UpToDate(k, i) == holder[i] = k => version[i] = modified[i]
Waits(k, i) == \E r \in Runs : r[1] = k /\ <<i, modified[i]>> \in sync[r].todo
StoredUpTo(k, t) == \A i \in Objects : modified[i] <= t => UpToDate(k, i) \/ Waits(k, i)

\* The times that rows and runs speak of have come.
TimesCame ==
    /\ \A i \in Objects : 0 < modified[i] /\ modified[i] <= now
    /\ \A k \in Datasets : log[k].start <= now /\ log[k].end <= now
    /\ \A r \in Runs : sync[r].start <= now /\ \A x \in sync[r].todo : x[2] <= now

RowTells(k) == (~log[k].full => StoredUpTo(k, log[k].start)) /\ StoredUpTo(k, log[k].end)
RunTells(r) ==
    /\ sync[r].at \in {"idle", "called", "done"} => sync[r].todo = {}
    /\ sync[r].at \in {"poll", "done"} \/ (sync[r].at = "called" /\ ~sync[r].full)
         => StoredUpTo(r[1], sync[r].start)
    /\ \A x \in sync[r].todo : StoredUpTo(r[1], x[2])
AllTell == (\A k \in Datasets : RowTells(k)) /\ (\A r \in Runs : RunTells(r))

SeenInv == TimesCame /\ (mishaps = 0 => AllTell)

\* Steps after which what was stored is stored.
Stays(k) == \A i \in Objects : UpToDate(k, i) \/ Waits(k, i) => UpToDate(k, i)' \/ Waits(k, i)'
LEMMA StaysStored ==
    ASSUME NEW k \in Datasets, NEW t \in Nat, StoredUpTo(k, t), modified' = modified, Stays(k)
    PROVE  StoredUpTo(k, t)'
  BY DEF StoredUpTo, Stays

\* Steps that store nothing, and after which every run still has to store what it had.
LEMMA StaysSo ==
    ASSUME UNCHANGED <<modified, holder, version>>, \A r \in Runs : sync[r].todo \subseteq sync'[r].todo
    PROVE  \A k \in Datasets : Stays(k)
  BY DEF Stays, UpToDate, Waits

\* An item without a document is in no dataset.
LEMMA NoneHeld == NoDataset \notin Datasets
  BY SyncNames

\* Steps that leave a row's, or a run's, times alone.
LEMMA RowStays ==
    ASSUME NEW k \in Datasets, RowTells(k), log[k].start \in Nat, log[k].end \in Nat,
           UNCHANGED <<modified, log[k].start, log[k].end, log[k].full>>, Stays(k)
    PROVE  RowTells(k)'
  BY StaysStored DEF RowTells

LEMMA RunStays ==
    ASSUME NEW r \in Runs, RunTells(r), sync[r].start \in Nat, \A x \in sync[r].todo : x[2] \in Nat,
           UNCHANGED <<modified, sync[r].start, sync[r].at, sync[r].full, sync[r].todo>>, Stays(r[1])
    PROVE  RunTells(r)'
<1>1. r[1] \in Datasets
  BY DEF Runs
<1>2. \A t \in Nat : StoredUpTo(r[1], t) => StoredUpTo(r[1], t)'
  BY <1>1, StaysStored
<1>3. PICK a \in Nat : a = sync[r].start
  OBVIOUS
<1>4. StoredUpTo(r[1], a) => StoredUpTo(r[1], a)'
  BY <1>2
<1> QED
  BY <1>2, <1>3, <1>4 DEF RunTells

\* Every step keeps what is seen stored, or waiting to be.
LEMMA SeenStored == SyncInit /\ [][SyncNext]_syncVars => []SeenInv
<1>1. SyncInit => SeenInv
  <2> SUFFICES ASSUME SyncInit PROVE SeenInv
    OBVIOUS
  <2>1. /\ \A k \in Datasets : log[k].start = 0 /\ log[k].end = 0
        /\ \A r \in Runs : sync[r].start = 0 /\ sync[r].todo = {} /\ sync[r].at = "idle"
        /\ now = 1 /\ \A i \in Objects : modified[i] = 1
    BY DEF SyncInit, Row, Resting
  <2> QED
    BY <2>1 DEF SeenInv, TimesCame, AllTell, RowTells, RunTells, StoredUpTo
<1>2. SyncTypes /\ SeenInv /\ [SyncNext]_syncVars => SeenInv'
  <2> SUFFICES ASSUME SyncTypes, SeenInv, [SyncNext]_syncVars
               PROVE  TimesCame' /\ (mishaps' = 0 => AllTell')
    BY DEF SeenInv
  <2>t. log \in [Datasets -> LogRows] /\ sync \in [Runs -> RunRecords]
        /\ modified \in [Objects -> Nat] /\ now \in Nat /\ mishaps \in Nat
        /\ version \in [Objects -> Nat] /\ holder \in [Objects -> Datasets \cup {NoDataset}]
    BY DEF SyncTypes, DocTypes
  <2>r. \A r \in Runs : r[1] \in Datasets
    BY DEF Runs
  <2>a. /\ \A k \in Datasets : log[k].start \in Nat /\ log[k].end \in Nat
        /\ \A r \in Runs : sync[r].start \in Nat /\ \A x \in sync[r].todo : x[1] \in Objects /\ x[2] \in Nat
        /\ TimesCame
        /\ mishaps = 0 => (\A k \in Datasets : RowTells(k)) /\ (\A r \in Runs : RunTells(r))
    BY <2>t DEF LogRows, RunRecords, SeenInv, AllTell
  <2> USE DEF sourceVars, docVars, linkVars
  \* Only what rows and runs say besides times changes.
  <2>c. ASSUME UNCHANGED <<modified, now>>, mishaps' = mishaps, \A k \in Datasets : Stays(k),
               \A k \in Datasets : /\ log'[k].start = log[k].start \/ log'[k].start = 0
                                   /\ log'[k].end = log[k].end \/ log'[k].end = 0
                                   /\ log'[k].full \/ (log'[k].full = log[k].full /\ log'[k].start = log[k].start),
               \A r \in Runs : UNCHANGED <<sync[r].start, sync[r].at, sync[r].full, sync[r].todo>>
        PROVE  TimesCame' /\ (mishaps' = 0 => AllTell')
    <3>1. TimesCame'
      BY <2>a, <2>c, <2>t DEF TimesCame
    <3>2. ASSUME NEW k \in Datasets, NEW t \in Nat, StoredUpTo(k, t) PROVE StoredUpTo(k, t)'
      BY <2>c, <3>2, StaysStored
    <3>3. \A k \in Datasets : StoredUpTo(k, 0)
      BY <2>a, <2>t DEF StoredUpTo, TimesCame
    <3>4. ASSUME mishaps' = 0, NEW k \in Datasets PROVE RowTells(k)'
      <4>1. RowTells(k)
        BY <2>a, <2>c, <3>4
      <4>2. PICK a \in Nat, b \in Nat : a = log[k].start /\ b = log[k].end
        BY <2>a
      <4>3. StoredUpTo(k, 0)' /\ StoredUpTo(k, b)' /\ (~log[k].full => StoredUpTo(k, a)')
        BY <3>2, <3>3, <4>1, <4>2 DEF RowTells
      <4> QED
        BY <2>c, <4>2, <4>3 DEF RowTells
    <3>5. ASSUME mishaps' = 0, NEW r \in Runs PROVE RunTells(r)'
      BY <2>a, <2>c, <2>r, <3>5, RunStays
    <3> QED
      BY <3>1, <3>4, <3>5 DEF AllTell
  <2>1. CASE DispatchTasks
    <3>1. PICK due \in SUBSET Runs :
             sync' = [r \in Runs |-> IF r \in due
                       THEN [Resting EXCEPT !.at = "called", !.start = log[r[1]].start,
                                            !.full = log[r[1]].full, !.mine = TRUE]
                       ELSE Resting]
      BY <2>1 DEF DispatchTasks, Due
    <3>2. SyncsAtWork = {} /\ UNCHANGED <<modified, now, holder, version, log, mishaps>>
      BY <2>1 DEF DispatchTasks
    <3>3. \A r \in Runs : /\ sync'[r].todo = {} /\ sync'[r].at \in {"idle", "called"}
                          /\ sync'[r].start = 0 \/ sync'[r].start = log[r[1]].start
                          /\ sync'[r].at = "called" => sync'[r].start = log[r[1]].start /\ sync'[r].full = log[r[1]].full
      BY <3>1 DEF Resting
    <3>4. TimesCame'
      BY <2>a, <2>r, <2>t, <3>2, <3>3 DEF TimesCame
    <3>5. ASSUME mishaps' = 0 PROVE AllTell'
      <4>1. \A r \in Runs : sync[r].todo = {}
        BY <2>a, <3>2, <3>5 DEF SyncsAtWork, RunTells
      <4>2. \A k \in Datasets : Stays(k)
        BY <3>2, <4>1, StaysSo
      <4>3. \A k \in Datasets : RowTells(k)'
        BY <2>a, <3>2, <3>5, <4>2, RowStays
      <4>4. ASSUME NEW r \in Runs PROVE RunTells(r)'
        BY <2>r, <3>2, <3>3, <4>3 DEF RowTells, RunTells
      <4> QED
        BY <4>3, <4>4 DEF AllTell
    <3> QED
      BY <3>4, <3>5
  <2>2. CASE Pause
    <3>1. \A k \in Datasets : UNCHANGED <<log[k].start, log[k].end, log[k].full>>
      BY <2>2, <2>t DEF Pause, LogRows
    <3>2. UNCHANGED <<modified, now, holder, version, sync, mishaps>>
      BY <2>2 DEF Pause
    <3>3. \A k \in Datasets : Stays(k)
      BY <3>2, StaysSo
    <3> QED
      BY <2>c, <3>1, <3>2, <3>3
  <2>3. ASSUME NEW i \in Objects, ChangeItem(i)
        PROVE  TimesCame' /\ (mishaps' = 0 => AllTell')
    <3>1. modified' = [modified EXCEPT ![i] = now + 1] /\ now' = now + 1
          /\ UNCHANGED <<holder, version, log, sync, mishaps>>
      BY <2>3 DEF ChangeItem
    <3>2. TimesCame'
      BY <2>a, <2>t, <3>1 DEF TimesCame
    <3>3. ASSUME NEW k \in Datasets, NEW t \in Nat, t <= now, StoredUpTo(k, t) PROVE StoredUpTo(k, t)'
      <4>1. \A j \in Objects : modified'[j] <= t => j # i /\ modified'[j] = modified[j]
        BY <2>t, <3>1, <3>3
      <4> QED
        BY <3>1, <3>3, <4>1 DEF StoredUpTo, UpToDate, Waits
    <3>4. ASSUME mishaps' = 0 PROVE AllTell'
      BY <2>a, <2>r, <3>1, <3>3, <3>4 DEF AllTell, RowTells, RunTells, TimesCame
    <3> QED
      BY <3>2, <3>4
  <2>4. ASSUME NEW r \in Runs, StartSync(r)
        PROVE  TimesCame' /\ (mishaps' = 0 => AllTell')
    <3> DEFINE T == {<<i, modified[i]>> : i \in Polled(r)}
    <3>1. /\ UNCHANGED <<modified, now, holder, version, mishaps>>
          /\ sync[r].at = "called"
          /\ \A j \in Datasets : UNCHANGED <<log[j].start, log[j].end, log[j].full>>
          /\ \A q \in Runs \ {r} : sync'[q] = sync[q]
          /\ sync'[r].at = "poll" /\ sync'[r].todo = T /\ sync'[r].start = sync[r].start
      BY <2>4, <2>t DEF StartSync, Writes, LogRows, RunRecords
    <3>2. \A x \in T : x[1] \in Polled(r) /\ x[2] = modified[x[1]]
      OBVIOUS
    <3>3. Polled(r) \subseteq Objects /\ \A i \in Polled(r) : <<i, modified[i]>> \in T
      BY DEF Polled
    <3> HIDE DEF T
    <3>4. TimesCame'
      BY <2>a, <2>t, <3>1, <3>2, <3>3 DEF TimesCame
    <3>5. ASSUME mishaps' = 0 PROVE AllTell'
      <4>1. sync[r].todo = {} /\ (~sync[r].full => StoredUpTo(r[1], sync[r].start))
        BY <2>a, <3>1, <3>5 DEF RunTells
      <4>2. \A j \in Datasets : Stays(j)
        BY <3>1, <4>1, StaysSo
      <4>3. \A j \in Datasets : RowTells(j)'
        BY <2>a, <3>1, <3>5, <4>2, RowStays
      <4>4. \A q \in Runs \ {r} : RunTells(q)'
        BY <2>a, <2>r, <3>1, <3>5, <4>2, RunStays
      <4>5. \A i \in Objects : UpToDate(r[1], i)' \/ Waits(r[1], i)'
        <5> SUFFICES ASSUME NEW i \in Objects, ~Waits(r[1], i)' PROVE UpToDate(r[1], i)'
          OBVIOUS
        <5>1. i \notin Polled(r)
          BY <3>1, <3>3 DEF Waits
        <5>2. ~sync[r].full /\ modified[i] <= sync[r].start
          BY <2>a, <2>t, <5>1 DEF Polled
        <5>3. UpToDate(r[1], i) \/ Waits(r[1], i)
          BY <4>1, <5>2 DEF StoredUpTo
        <5> QED
          BY <2>r, <4>2, <5>3 DEF Stays
      <4>6. RunTells(r)'
        BY <3>1, <4>5 DEF RunTells, StoredUpTo
      <4> QED
        BY <4>3, <4>4, <4>6 DEF AllTell
    <3> QED
      BY <3>4, <3>5
  <2>5. ASSUME NEW r \in Runs, NEW x \in sync[r].todo, StoreBatch(r, x)
        PROVE  TimesCame' /\ (mishaps' = 0 => AllTell')
    <3>0. PICK k \in Datasets : k = r[1]
      BY <2>r
    <3>1. /\ UNCHANGED <<modified, now, mishaps>> /\ sync[r].at = "poll"
          /\ \A j \in Datasets \ {k} : log'[j] = log[j]
          /\ \A q \in Runs \ {r} : sync'[q] = sync[q]
          /\ sync'[r].at = "poll" /\ sync'[r].todo = sync[r].todo \ {x} /\ sync'[r].full = sync[r].full
          /\ sync'[r].start = Max({sync[r].start, x[2]})
          /\ log'[k].full = log[k].full
      BY <2>5, <2>t, <3>0 DEF StoreBatch, LogRows, RunRecords, Seen
    <3>2. /\ sync'[r].start \in {sync[r].start, x[2]}
          /\ log'[k].start \in {log[k].start, x[2]} /\ log'[k].end \in {log[k].end, x[2]}
      <4>1. /\ Max({sync[r].start, x[2]}) \in {sync[r].start, x[2]}
            /\ Max({log[k].start, x[2]}) \in {log[k].start, x[2]}
            /\ Max({log[k].end, x[2]}) \in {log[k].end, x[2]}
        BY <2>a, MaxIsNat
      <4>2. log'[k] = IF sync[r].mine
                THEN [log[k] EXCEPT !.start = Max({log[k].start, x[2]}), !.end = Max({log[k].end, x[2]})]
                ELSE log[k]
        BY <2>5, <2>t, <3>0 DEF StoreBatch
      <4> QED
        BY <3>1, <4>1, <4>2, <2>t DEF LogRows
    <3>3. TimesCame'
      BY <2>a, <3>1, <3>2 DEF TimesCame
    <3>4. ASSUME mishaps' = 0 PROVE AllTell'
      <4>1. \A i \in Objects \ {x[1]} : holder'[i] = holder[i] /\ version'[i] = version[i]
        BY <2>5, <2>t DEF StoreBatch
      <4>2. x[1] \in Objects /\ \A j \in Datasets : UpToDate(j, x[1])' \/ (j # k /\ UpToDate(j, x[1])' = UpToDate(j, x[1]))
        <5>1. CASE holder[x[1]] \in {NoDataset, k}
          BY <2>5, <2>a, <2>t, <3>0, <3>1, <5>1 DEF StoreBatch, UpToDate
        <5>2. CASE holder[x[1]] \notin {NoDataset, k}
          BY <2>5, <2>a, <2>t, <3>0, <3>1, <5>2 DEF StoreBatch, UpToDate
        <5> QED
          BY <5>1, <5>2
      <4>3. ASSUME NEW j \in Datasets PROVE Stays(j)
        <5> SUFFICES ASSUME NEW i \in Objects, UpToDate(j, i) \/ Waits(j, i)
                     PROVE  UpToDate(j, i)' \/ Waits(j, i)'
          BY DEF Stays
        <5>1. CASE i = x[1] /\ j = k
          BY <4>2, <5>1
        <5>2. CASE i = x[1] /\ j # k
          <6>1. Waits(j, i) => Waits(j, i)'
            BY <3>0, <3>1, <5>2 DEF Waits
          <6> QED
            BY <4>2, <5>2, <6>1
        <5>3. CASE i # x[1]
          <6>1. UpToDate(j, i)' = UpToDate(j, i)
            BY <3>1, <4>1, <5>3 DEF UpToDate
          <6>2. <<i, modified[i]>> # x
            BY <5>3
          <6>3. Waits(j, i) => Waits(j, i)'
            BY <3>1, <6>2 DEF Waits
          <6> QED
            BY <6>1, <6>3
        <5> QED
          BY <5>1, <5>2, <5>3
      <4>4. \A j \in Datasets \ {k} : RowTells(j)'
        BY <2>a, <3>1, <3>4, <4>3, RowStays
      <4>5. \A q \in Runs \ {r} : RunTells(q)'
        BY <2>a, <2>r, <3>1, <3>4, <4>3, RunStays
      <4>6. \A t \in Nat : StoredUpTo(k, t) => StoredUpTo(k, t)'
        BY <3>1, <4>3, StaysStored
      <4>7. RowTells(k) /\ RunTells(r)
        BY <2>a, <3>1, <3>4
      <4>0. PICK a \in Nat, b \in Nat, c \in Nat : a = sync[r].start /\ b = log[k].start /\ c = log[k].end
        BY <2>a
      <4>8. StoredUpTo(k, x[2])' /\ StoredUpTo(k, a)' /\ StoredUpTo(k, c)'
            /\ (~log[k].full => StoredUpTo(k, b)')
        <5>1. x[2] \in Nat /\ StoredUpTo(k, x[2]) /\ StoredUpTo(k, a) /\ StoredUpTo(k, c)
              /\ (~log[k].full => StoredUpTo(k, b))
          BY <2>a, <3>0, <3>1, <4>0, <4>7 DEF RowTells, RunTells
        <5> QED
          BY <4>0, <4>6, <5>1
      <4>9. RowTells(k)'
        BY <3>1, <3>2, <4>0, <4>8 DEF RowTells
      <4>10. \A y \in sync'[r].todo : StoredUpTo(k, y[2])'
        BY <2>a, <3>0, <3>1, <4>6, <4>7 DEF RunTells
      <4>11. RunTells(r)'
        BY <3>0, <3>1, <3>2, <4>0, <4>8, <4>10 DEF RunTells
      <4> QED
        BY <4>4, <4>5, <4>9, <4>11 DEF AllTell
    <3> QED
      BY <3>3, <3>4
  \* A mishap: only the times matter.
  <2>6. ASSUME NEW r \in Runs, NEW x \in sync[r].todo, BatchFails(r, x)
        PROVE  TimesCame' /\ (mishaps' = 0 => AllTell')
    <3>1. UNCHANGED <<modified, now, log>> /\ mishaps' # 0
      BY <2>6, <2>t DEF BatchFails, Mishap
    <3>2. \A q \in Runs \ {r} : sync'[q] = sync[q]
      BY <2>6, <2>t DEF BatchFails, RunRecords
    <3>3. sync'[r].todo = sync[r].todo \ {x}
      BY <2>6, <2>t DEF BatchFails, RunRecords
    <3>4. sync'[r].start = Max({sync[r].start, x[2]})
      BY <2>6, <2>t DEF BatchFails, RunRecords, Seen
    <3>5. sync'[r].start = sync[r].start \/ sync'[r].start = x[2]
      <4>1. Max({sync[r].start, x[2]}) \in {sync[r].start, x[2]}
        BY <2>a, MaxIsNat
      <4> QED
        BY <3>4, <4>1
    <3>6. sync'[r].start <= now
      BY <2>a, <3>5 DEF TimesCame
    <3> QED
      BY <2>a, <3>1, <3>2, <3>3, <3>6 DEF TimesCame
  <2>7. ASSUME NEW r \in Runs, SyncFails(r)
        PROVE  TimesCame' /\ (mishaps' = 0 => AllTell')
    <3>1. UNCHANGED <<modified, now>> /\ mishaps' # 0
      BY <2>7, <2>t DEF SyncFails, Mishap
    <3>2. \A j \in Datasets : log'[j].start = log[j].start /\ log'[j].end = log[j].end
      BY <2>7, <2>t DEF SyncFails, Writes, LogRows
    <3>3. sync' = [sync EXCEPT ![r] = Resting]
      BY <2>7 DEF SyncFails
    <3>4. Resting.start = 0 /\ Resting.todo = {}
      BY DEF Resting
    <3>5. ASSUME NEW q \in Runs PROVE sync'[q].start <= now /\ \A x \in sync'[q].todo : x[2] <= now
      <4>1. CASE q # r
        <5>1. sync'[q] = sync[q]
          BY <2>t, <3>3, <4>1
        <5> QED
          BY <2>a, <5>1 DEF TimesCame
      <4>2. CASE q = r
        <5>1. sync'[q].start = 0 /\ sync'[q].todo = {}
          BY <2>t, <3>3, <3>4, <4>2
        <5> QED
          BY <2>t, <5>1
      <4> QED
        BY <4>1, <4>2
    <3> QED
      BY <2>a, <3>1, <3>2, <3>5 DEF TimesCame
  <2>8. CASE SyncDies
    <3>1. UNCHANGED <<modified, now, log>> /\ mishaps' # 0 /\ \A r \in Runs : sync'[r] = Resting
      BY <2>8, <2>t DEF SyncDies, Mishap
    <3>2. Resting.start = 0 /\ Resting.todo = {}
      BY DEF Resting
    <3> QED
      BY <2>a, <2>t, <3>1, <3>2 DEF TimesCame
  <2>9. ASSUME NEW r \in Runs, SyncDone(r)
        PROVE  TimesCame' /\ (mishaps' = 0 => AllTell')
    <3>1. /\ UNCHANGED <<modified, now, holder, version, mishaps>>
          /\ sync[r].at = "poll" /\ sync[r].todo = {}
          /\ \A j \in Datasets : UNCHANGED <<log[j].start, log[j].end, log[j].full>>
          /\ \A q \in Runs \ {r} : sync'[q] = sync[q]
          /\ sync'[r].at = "done" /\ sync'[r].todo = {} /\ sync'[r].start = sync[r].start
      BY <2>9, <2>t DEF SyncDone, Writes, LogRows, RunRecords
    <3>2. TimesCame'
      BY <2>a, <3>1 DEF TimesCame
    <3>3. ASSUME mishaps' = 0 PROVE AllTell'
      <4>1. \A j \in Datasets : Stays(j)
        BY <3>1, StaysSo
      <4>2. \A j \in Datasets : RowTells(j)'
        BY <2>a, <3>1, <3>3, <4>1, RowStays
      <4>3. \A q \in Runs \ {r} : RunTells(q)'
        BY <2>a, <2>r, <3>1, <3>3, <4>1, RunStays
      <4>0. PICK a \in Nat : a = sync[r].start
        BY <2>a
      <4>4. StoredUpTo(r[1], a)'
        <5>1. StoredUpTo(r[1], a)
          BY <2>a, <3>1, <3>3, <4>0 DEF RunTells
        <5> QED
          BY <2>r, <3>1, <4>1, <5>1, StaysStored
      <4> QED
        BY <3>1, <4>0, <4>2, <4>3, <4>4 DEF AllTell, RunTells
    <3> QED
      BY <3>2, <3>3
  <2>10. ASSUME NEW r \in Runs, Reschedule(r)
        PROVE  TimesCame' /\ (mishaps' = 0 => AllTell')
    <3>0. PICK k \in Datasets : k = r[1]
      BY <2>r
    <3>1. /\ UNCHANGED <<modified, now, holder, version, mishaps>>
          /\ sync[r].at = "done"
          /\ \A j \in Datasets \ {k} : log'[j] = log[j]
          /\ \A q \in Runs \ {r} : UNCHANGED <<sync[q].start, sync[q].at, sync[q].full, sync[q].todo>>
          /\ sync'[r] = Resting
          /\ log'[k] = log[k] \/ log'[k] = Row("SCHEDULE", sync[r].start, FALSE)
      BY <2>10, <2>t, <3>0 DEF Reschedule, Schedule, RunRecords
    <3>2. Resting.start = 0 /\ Resting.todo = {} /\ Resting.at = "idle"
      BY DEF Resting
    <3>3. log'[k] = log[k] \/ (log'[k].start = sync[r].start /\ log'[k].end = 0)
      BY <3>1 DEF Row
    <3>4. TimesCame'
      BY <2>a, <2>t, <3>1, <3>2, <3>3 DEF TimesCame
    <3>5. ASSUME mishaps' = 0 PROVE AllTell'
      <4>1. sync[r].todo = {} /\ StoredUpTo(k, sync[r].start) /\ RowTells(k)
        BY <2>a, <3>0, <3>1, <3>5 DEF RunTells
      <4>2. \A j \in Datasets : Stays(j)
        BY <3>1, <4>1, StaysSo
      <4>3. \A j \in Datasets \ {k} : RowTells(j)'
        BY <2>a, <3>1, <3>5, <4>2, RowStays
      <4>8. \A q \in Runs \ {r} : RunTells(q)'
        BY <2>a, <2>r, <3>1, <3>5, <4>2, RunStays
      <4>4. StoredUpTo(k, 0)'
        BY <2>a, <2>t, <3>1 DEF StoredUpTo, TimesCame
      <4>0. PICK a \in Nat : a = sync[r].start
        BY <2>a
      <4>5. StoredUpTo(k, a)'
        BY <2>a, <3>1, <4>0, <4>1, <4>2, StaysStored
      <4>6. RowTells(k)'
        <5>1. CASE log'[k] = log[k]
          BY <2>a, <3>1, <4>1, <4>2, <5>1, RowStays
        <5>2. CASE log'[k].start = sync[r].start /\ log'[k].end = 0
          BY <4>0, <4>4, <4>5, <5>2 DEF RowTells
        <5> QED
          BY <3>3, <5>1, <5>2
      <4>7. RunTells(r)'
        BY <3>1, <3>2 DEF RunTells
      <4> QED
        BY <4>3, <4>6, <4>7, <4>8 DEF AllTell
    <3> QED
      BY <3>4, <3>5
  <2>11. ASSUME NEW k \in Datasets, LinkDataset(k)
        PROVE  TimesCame' /\ (mishaps' = 0 => AllTell')
    <3>1. \A r \in Runs : UNCHANGED <<sync[r].start, sync[r].at, sync[r].full, sync[r].todo>>
      BY <2>11, <2>t DEF LinkDataset, NotMine, RunRecords
    <3>2. \A j \in Datasets : log'[j] = log[j] \/ (log'[j].start = 0 /\ log'[j].end = 0 /\ log'[j].full)
      BY <2>11, <2>t DEF LinkDataset, Schedule, Row
    <3>3. UNCHANGED <<modified, now, holder, version, mishaps>>
      BY <2>11 DEF LinkDataset
    <3>4. \A j \in Datasets : Stays(j)
      BY <3>1, <3>3, StaysSo
    <3> QED
      BY <2>c, <3>1, <3>2, <3>3, <3>4
  <2>12. ASSUME NEW k \in Datasets, UnlinkDataset(k)
        PROVE  TimesCame' /\ (mishaps' = 0 => AllTell')
    <3>1. \A j \in Datasets : UNCHANGED <<log[j].start, log[j].end, log[j].full>>
      BY <2>12, <2>t DEF UnlinkDataset, LogRows
    <3>2. UNCHANGED <<modified, now, holder, version, sync, mishaps>>
      BY <2>12 DEF UnlinkDataset
    <3>3. \A j \in Datasets : Stays(j)
      BY <3>2, StaysSo
    <3> QED
      BY <2>c, <3>1, <3>2, <3>3
  <2>13. CASE Resume
    <3>1. PICK reached \in SUBSET linked, done \in SUBSET linked :
             /\ log' = [k \in Datasets |->
                         IF k \in done THEN Row("SCHEDULE", log[k].end, FALSE)
                         ELSE IF k \in reached THEN [log[k] EXCEPT !.status = "SCHEDULE"] ELSE log[k]]
             /\ sync' = [r \in Runs |-> [sync[r] EXCEPT !.mine = @ /\ r[1] \notin done]]
      BY <2>13, ResumesSome
    <3>2. UNCHANGED <<modified, now, holder, version, mishaps>>
      BY <2>13 DEF Resume
    <3>3. \A r \in Runs : UNCHANGED <<sync[r].start, sync[r].at, sync[r].full, sync[r].todo>>
      BY <2>t, <3>1 DEF RunRecords
    <3>4. \A j \in Datasets : \/ UNCHANGED <<log[j].start, log[j].end, log[j].full>>
                              \/ log'[j].start = log[j].end /\ log'[j].end = 0
      BY <2>t, <3>1 DEF LogRows, Row
    <3>5. TimesCame'
      BY <2>a, <2>t, <3>2, <3>3, <3>4 DEF TimesCame
    <3>6. \A j \in Datasets : Stays(j)
      BY <3>2, <3>3, StaysSo
    <3>7. \A j \in Datasets, t \in Nat : StoredUpTo(j, t) => StoredUpTo(j, t)'
      BY <3>2, <3>6, StaysStored
    <3>8. \A j \in Datasets : StoredUpTo(j, 0)
      BY <2>a, <2>t DEF StoredUpTo, TimesCame
    <3>9. ASSUME mishaps' = 0, NEW j \in Datasets PROVE RowTells(j)'
      <4>1. RowTells(j)
        BY <2>a, <3>2, <3>9
      <4>2. PICK a \in Nat, b \in Nat : a = log[j].start /\ b = log[j].end
        BY <2>a
      <4>3. StoredUpTo(j, 0)' /\ StoredUpTo(j, b)' /\ (~log[j].full => StoredUpTo(j, a)')
        BY <3>7, <3>8, <4>1, <4>2 DEF RowTells
      <4> QED
        BY <3>4, <4>2, <4>3 DEF RowTells
    <3>10. ASSUME mishaps' = 0, NEW r \in Runs PROVE RunTells(r)'
      BY <2>a, <2>r, <3>2, <3>3, <3>6, <3>10, RunStays
    <3> QED
      BY <3>5, <3>9, <3>10 DEF AllTell
  <2>14. ASSUME NEW k \in Datasets, Rebuild(k)
        PROVE  TimesCame' /\ (mishaps' = 0 => AllTell')
    <3>1. \A r \in Runs : UNCHANGED <<sync[r].start, sync[r].at, sync[r].full, sync[r].todo>>
      BY <2>14, <2>t DEF Rebuild, NotMine, RunRecords
    <3>2. \A j \in Datasets : log'[j] = log[j] \/ (log'[j].start = 0 /\ log'[j].end = 0 /\ log'[j].full)
      BY <2>14, <2>t DEF Rebuild, Row
    <3>3. UNCHANGED <<modified, now, mishaps>>
      BY <2>14 DEF Rebuild
    <3>4. \A j \in Datasets, i \in Objects : UpToDate(j, i) => UpToDate(j, i)'
      BY <2>14, <2>t, NoneHeld DEF Rebuild, UpToDate
    <3>5. \A j \in Datasets : Stays(j)
      BY <3>1, <3>3, <3>4 DEF Stays, Waits
    <3> QED
      BY <2>c, <3>1, <3>2, <3>3, <3>5
  <2>16. ASSUME NEW k \in Datasets, NEW settings \in SUBSET AutoParse, LinkOthers(k, settings)
        PROVE  TimesCame' /\ (mishaps' = 0 => AllTell')
    <3>1. UNCHANGED <<modified, now, holder, version, log, sync, mishaps>>
      BY <2>16 DEF LinkOthers
    <3>2. \A j \in Datasets : Stays(j)
      BY <3>1, StaysSo
    <3> QED
      BY <2>c, <3>1, <3>2
  <2>15. CASE UNCHANGED syncVars
    <3>1. UNCHANGED <<modified, now, holder, version, log, sync, mishaps>>
      BY <2>15 DEF syncVars
    <3>2. \A j \in Datasets : Stays(j)
      BY <3>1, StaysSo
    <3> QED
      BY <2>c, <3>1, <3>2
  <2> QED
    BY <2>1, <2>2, <2>3, <2>4, <2>5, <2>6, <2>7, <2>8, <2>9, <2>10, <2>11, <2>12, <2>13, <2>14, <2>15, <2>16
    DEF SyncNext, RunSync
<1> QED
  BY <1>1, <1>2, SyncTyped, PTL
-----------------------------------------------------------------------------
\* Types of the connector's rows and of the runs (SyncLogs, _run_task_logic).
THEOREM SyncTypesHold == SyncSpec => []SyncTypeOK
  BY SyncTyped, TypesOfParts, PTL DEF SyncSpec

LEMMA PolledIsUpToDate == SyncInit /\ [][SyncNext]_syncVars => []NothingIsMissed
<1>1. SeenInv => NothingIsMissed
  <2> SUFFICES ASSUME SeenInv, mishaps = 0, NEW k \in Datasets, NEW i \in Objects,
                      ~Working(k), ~log[k].full, holder[i] = k, modified[i] <= log[k].start
               PROVE  version[i] = modified[i]
    BY DEF NothingIsMissed
  <2>1. RowTells(k) /\ \A r \in Runs : RunTells(r)
    BY DEF SeenInv, AllTell
  <2>2. \A r \in Runs : r[1] = k => sync[r].todo = {}
    BY <2>1 DEF RunTells, Working, SyncsAtWork
  <2> QED
    BY <2>1, <2>2 DEF RowTells, StoredUpTo, UpToDate, Waits
<1> QED
  BY <1>1, SeenStored, PTL

\* _run_task_logic: what the next poll will not look at again is up to date, also when
\* the row was run twice at a time.
THEOREM NoneMissed == SyncSpec => []NothingIsMissed
  BY PolledIsUpToDate, PTL DEF SyncSpec

LEMMA AlwaysScheduled == SyncInit /\ [][SyncNext]_syncVars => []NeverStuck
<1>1. RunsOwnRows => NeverStuck
  BY DEF RunsOwnRows, Owned, NeverStuck
<1> QED
  BY <1>1, RowsOwned, PTL

\* SyncLogsService.done, schedule: a connector that nobody meddled with, and none of whose
\* rows was listed twice, is waiting for its next run or at work.
THEOREM NoneStuck == SyncSpec => []NeverStuck
  BY AlwaysScheduled, PTL DEF SyncSpec

------------------------------------------------------------------------------
(***************************************************************************)
(* The parts together, as MCStores runs them.                              *)
(***************************************************************************)

\* One part moves and the others stay: a behaviour of MCStores is one of each part, so that
\* what is proved of a part holds of it there.
THEOREM StoresAreParts ==
    StoresSpec => /\ PoolSpec /\ GraphSpec /\ ReplicaSpec /\ MemorySpec /\ Spec /\ SplitSpec
                  /\ SyncInit /\ [][SyncNext]_syncVars
<1>1. StoresInit => /\ PoolInit /\ GraphInit /\ ReplicaInit /\ MemoryInit /\ Init /\ SplitInit
                    /\ SyncInit
  BY DEF StoresInit
<1> DEFINE Steps == /\ [PoolNext]_poolVars /\ [GraphNext]_graphVars /\ [ReplicaNext]_replicaVars
                    /\ [MemoryNext]_memoryVars /\ [Next]_vars /\ [SplitNext]_splitVars
                    /\ [SyncNext]_syncVars
<1>2. [StoresNext]_storesVars => Steps
  <2>1. CASE UNCHANGED storesVars
    BY <2>1 DEF storesVars
  <2>2. CASE StoresNext
    BY <2>2 DEF StoresNext, InPool, InGraph, InSync, InReplica, InMemory, InLock, InSplit
  <2> QED
    BY <2>1, <2>2
<1> QED
  BY <1>1, <1>2, PTL DEF StoresSpec, PoolSpec, GraphSpec, ReplicaSpec, MemorySpec, Spec, SplitSpec

\* Types of all parts.
THEOREM StoresTypes == StoresSpec => []StoresTypeOK
<1>1. StoresSpec => [](part \in Parts)
  <2>1. StoresInit => part \in Parts
    BY DEF StoresInit
  <2>2. part \in Parts /\ [StoresNext]_storesVars => (part \in Parts)'
    BY DEF StoresNext, InPool, InGraph, InSync, InReplica, InMemory, InLock, InSplit, storesVars, Parts
  <2> QED
    BY <2>1, <2>2, PTL DEF StoresSpec
<1>2. ReplicaSpec => []ReplicaTypeOK
  <2>1. ReplicaInv => ReplicaTypeOK
    BY DEF ReplicaInv
  <2> QED
    BY <2>1, ReplicaInvariant, PTL
<1>3. SyncInit /\ [][SyncNext]_syncVars => []SyncTypeOK
  BY SyncTyped, TypesOfParts, PTL
<1>4. PoolTypeOK /\ GraphTypeOK /\ SyncTypeOK /\ ReplicaTypeOK /\ MemoryTypeOK /\ TypeOK
        /\ SplitTypeOK /\ part \in Parts => StoresTypeOK
  BY DEF StoresTypeOK
<1> QED
  BY <1>1, <1>2, <1>3, <1>4, StoresAreParts, PoolTypes, GraphTypes, MemoryTypesHold, LockTypes,
     SplitTypeCorrect, PTL

\* The safety of all parts in what MCStores runs: containers have one user; the graph can be
\* rebuilt, without doubles and without what was removed; what is not polled again is up to
\* date; a replica is what was saved; messages stay; holders exclude each other; documents
\* are split exactly and stored when done.
THEOREM StoresKeep ==
    StoresSpec => /\ [](OneUserPerContainer /\ BusyMeansLost)
                  /\ [](GraphIsRebuildable /\ MergedOnce /\ RemovedStaysOut) /\ DoneIsMerged
                  /\ [](NothingIsMissed /\ NeverStuck)
                  /\ [](ReplicaHasOwnSave /\ NothingOverwritten /\ ExtractedIsStored)
                  /\ [](MutualExclusion /\ EachUnitOnce /\ DoneIsStored)
<1>1. StoresSpec => [](OneUserPerContainer /\ BusyMeansLost)
  BY StoresAreParts, OneUser, BusyOnlyWhenLost, PTL
<1>2. StoresSpec => [](GraphIsRebuildable /\ MergedOnce /\ RemovedStaysOut) /\ DoneIsMerged
  BY StoresAreParts, Rebuildable, MergesOnce, StaysOut, AllMerged, PTL
<1>3. StoresSpec => [](NothingIsMissed /\ NeverStuck)
  BY StoresAreParts, PolledIsUpToDate, AlwaysScheduled, PTL
<1>4. StoresSpec => [](ReplicaHasOwnSave /\ NothingOverwritten /\ ExtractedIsStored)
  BY StoresAreParts, ReplicaKeepsUp, NoneOverwritten, Extracted, PTL
<1>5. StoresSpec => [](MutualExclusion /\ EachUnitOnce /\ DoneIsStored)
  BY StoresAreParts, Excludes, UnitsAreSplitExactly, DoneMeansStored, PTL
<1> QED
  BY <1>1, <1>2, <1>3, <1>4, <1>5
================================================================================
