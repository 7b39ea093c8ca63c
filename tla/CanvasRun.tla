------------------------------- MODULE CanvasRun -------------------------------
(***************************************************************************)
(* The agent canvas: Canvas.run walks a graph of components.  It keeps the *)
(* path of components it has been through and starts what was appended to  *)
(* it as one batch of concurrent tasks; when all of them have ended, it    *)
(* appends what comes after each.  The path is saved with the session and  *)
(* is there again in the next turn; the components are built anew.         *)
(***************************************************************************)
EXTENDS Integers, SequencesExt

CONSTANTS Graphs,     \* canvases: kind, down, goto, parent, reads and collects per component
          Items,      \* length of the array an iteration goes through
          MaxLoops,   \* maximum_loop_count
          MaxTurns,   \* bound: messages of the user
          MaxErrors,  \* bound: components that raise
          MaxPath     \* bound: length of the path

\* What Graph.load reads from a DSL: "begin" is there; what is inside another component is
\* inside an iteration or a loop, which has an item of its kind; "begin" and "userfillup"
\* are given the user's inputs instead of reading any.
IsCanvas(g) ==
    LET cs == DOMAIN g.kind
    IN  /\ "begin" \in cs /\ g.kind["begin"] = "begin"
        /\ g.down \in [cs -> Seq(cs)] /\ g.goto \in [cs -> Seq(cs)]
        /\ g.parent \in [cs -> cs] /\ g.reads \in [cs -> SUBSET cs]
        /\ \A c \in cs :
             /\ g.kind[c] \in {"begin", "userfillup"} => g.reads[c] = {}
             /\ g.parent[c] # c => g.kind[g.parent[c]] \in {"iteration", "loop"}
             /\ g.kind[c] \in {"iteration", "loop"} =>
                    \E d \in cs : g.parent[d] = c /\ g.kind[d] \in {"iterationitem", "loopitem"}
             /\ g.kind[c] = "iterationitem" => g.kind[g.parent[c]] = "iteration"
             /\ g.kind[c] = "loopitem" => g.kind[g.parent[c]] = "loop"

ASSUME CanvasAssumption == /\ \A g \in Graphs : IsCanvas(g)
                           /\ Items \in Nat \ {0} /\ MaxLoops \in Nat \ {0}
                           /\ MaxTurns \in Nat /\ MaxErrors \in Nat /\ MaxPath \in Nat

VARIABLES graph,   \* the canvas
          path,    \* Canvas.path
          saved,   \* the path in the session's DSL
          idx,     \* where the batch begins in path
          tasks,   \* tasks of the batch that have not ended
          phase,   \* "rest" between turns, "next" between batches, "batch"
          out,     \* per component: its output, 0 for None
          index,   \* per component: _idx of an iteration's or a loop's item
          result,  \* per component: what an iteration has collected
          chosen,  \* per component: _next of a switch
          failed,  \* components whose _ERROR is set
          canceled,\* the flag in Redis
          turn, errors, \* bounds
          handled  \* history: per component: the inputs it was run on in this turn

canvasVars == <<graph, path, saved, idx, tasks, phase, out, index, result, chosen, failed,
                canceled, turn, errors, handled>>

Cpns == DOMAIN graph.kind
Kind(c) == graph.kind[c]
Nothing == 0

\* The sequence op makes of p with the components cs, one after the other.
Walk(op(_, _), p, cs) ==
    LET w[k \in 0 .. Len(cs)] == IF k = 0 THEN p ELSE op(w[k - 1], cs[k]) IN w[Len(cs)]

CanvasStart(g) ==
    /\ graph = g /\ path = <<>> /\ saved = <<>> /\ idx = 0 /\ tasks = {} /\ phase = "rest"
    /\ out = [c \in DOMAIN g.kind |-> Nothing] /\ index = [c \in DOMAIN g.kind |-> 0]
    /\ result = [c \in DOMAIN g.kind |-> <<>>] /\ chosen = [c \in DOMAIN g.kind |-> <<>>]
    /\ failed = {} /\ canceled = FALSE /\ turn = 0 /\ errors = 0
    /\ handled = [c \in DOMAIN g.kind |-> <<>>]
CanvasInit == \E g \in Graphs : CanvasStart(g)

\* __init__ and the start of run: outputs are reset, "begin" is appended unless
\* the path ends where the user was asked.
BeginTurn ==
    /\ phase = "rest" /\ turn < MaxTurns /\ turn' = turn + 1
    /\ LET p == IF saved # <<>> /\ Kind(Last(saved)) = "userfillup"
                  THEN saved ELSE Append(saved, "begin")
       IN  IF canceled THEN phase' = "rest" /\ UNCHANGED <<path, idx>>
                       ELSE phase' = "next" /\ path' = p /\ idx' = Len(p) - 1
    /\ out' = [c \in Cpns |-> Nothing] /\ index' = [c \in Cpns |-> 0]
    /\ result' = [c \in Cpns |-> <<>>] /\ chosen' = [c \in Cpns |-> <<>>]
    /\ handled' = [c \in Cpns |-> <<>>]
    /\ failed' = {}
    /\ UNCHANGED <<graph, saved, tasks, canceled, errors>>

Pending == SubSeq(path, idx + 1, Len(path))
\* Components whose input elements carry a _cpn_id, as they are taken from a text; of the
\* others _run_batch does not know whose results they read.
HeldBack(kind) == kind \in {"message", "agent", "categorize", "stringtransform"}
\* Mutant: the whole path is looked at.
CanStartAnywhere(c, p) == ~HeldBack(Kind(c)) \/ Kind(p[1]) = "userfillup"
                          \/ graph.reads[c] \subseteq ToSet(path)
\* Whether _run_batch starts c behind the path p; if not, it drops c.
CanStart(c, p) == ~HeldBack(Kind(c)) \/ Kind(p[1]) = "userfillup"
                  \/ graph.reads[c] \subseteq ToSet(p)
Admit(p, c) == IF CanStart(c, p) THEN Append(p, c) ELSE p
InputOf(c) == [r \in graph.reads[c] |-> out[r]]

\* _run_batch: all tasks are made, and get_input has read for a tool, before one of them runs.
StartBatch ==
    /\ phase = "next" /\ ~canceled /\ idx < Len(path) /\ Len(path) <= MaxPath
    /\ LET p == Walk(Admit, SubSeq(path, 1, idx), Pending)
       IN  /\ path' = p
           /\ tasks' = {[at |-> i, cpn |-> p[i], input |-> InputOf(p[i])] : i \in idx + 1 .. Len(p)}
    /\ phase' = "batch"
    /\ UNCHANGED <<graph, saved, idx, out, index, result, chosen, failed, canceled, turn,
                   errors, handled>>

\* TaskCanceledException leaves run; the session is not saved.
Raise ==
    /\ phase = "next" /\ canceled /\ idx < Len(path)
    /\ phase' = "rest" /\ path' = saved
    /\ UNCHANGED <<graph, saved, idx, tasks, out, index, result, chosen, failed, canceled,
                   turn, errors, handled>>

\* A component that is not a tool reads while it runs, what its batch-mates have made too.
TaskReads(t, r) ==
    /\ phase = "batch" /\ t \in tasks /\ Kind(t.cpn) # "tool"
    /\ tasks' = (tasks \ {t}) \cup {[t EXCEPT !.input[r] = out[r]]}
    /\ UNCHANGED <<graph, path, saved, idx, phase, out, index, result, chosen, failed, canceled,
                   turn, errors, handled>>

Put(f, c, v) == f' = [f EXCEPT ![c] = v]
EndsTask(t) == phase = "batch" /\ t \in tasks /\ tasks' = tasks \ {t}
               /\ handled' = [handled EXCEPT ![t.cpn] = Append(@, t.input)]

Branches(kind) == kind \in {"switch", "categorize"}
\* Components that set no output when they run.
Silent == {"iteration", "exitloop", "loopitem"}
\* The output of an ordinary component is made from its input, if it has read any.
MadeFrom(input) ==
    LET read == {input[r] : r \in DOMAIN input} \ {Nothing}
    IN  IF read = {} THEN 1 ELSE CHOOSE v \in read : TRUE
ReadsNone(t) == \E r \in DOMAIN t.input : t.input[r] = Nothing
EndPlain(t) ==
    /\ EndsTask(t) /\ ~Branches(Kind(t.cpn)) /\ Kind(t.cpn) \notin {"iterationitem", "loopitem"}
    /\ Kind(t.cpn) = "iteration" => ~ReadsNone(t)
    /\ IF Kind(t.cpn) \in Silent THEN UNCHANGED out ELSE Put(out, t.cpn, MadeFrom(t.input))
    /\ UNCHANGED <<graph, path, saved, idx, phase, index, result, chosen, failed, canceled,
                   turn, errors>>

EndSwitch(t) ==
    /\ EndsTask(t) /\ Branches(Kind(t.cpn))
    /\ \E d \in ToSet(graph.down[t.cpn]) : Put(chosen, t.cpn, <<d>>)
    /\ Put(out, t.cpn, 1)
    /\ UNCHANGED <<graph, path, saved, idx, phase, index, result, failed, canceled, turn, errors>>

\* An iteration's item looks for the array again, of which the iteration has found one.
NoArray(c) == Kind(c) = "iterationitem" /\ \E r \in graph.reads[graph.parent[c]] : out[r] = Nothing
\* invoke keeps the exception, or "Task has been canceled"; the session's next turn resets
\* it, a later round of a loop does not.  A component may raise for what is not there to be
\* read, an iteration and its item do.
TaskRaises(t) ==
    /\ EndsTask(t)
    /\ \/ errors < MaxErrors /\ errors' = errors + 1 /\ UNCHANGED index
       \/ (canceled \/ ReadsNone(t)) /\ UNCHANGED <<errors, index>>
       \/ NoArray(t.cpn) /\ UNCHANGED errors /\ Put(index, t.cpn, -1)
    /\ failed' = failed \cup {t.cpn}
    /\ UNCHANGED <<graph, path, saved, idx, phase, out, result, chosen, canceled, turn>>

\* Mutant: a round too few is collected.
CollectLate(i) == i > 1
Collects(i) == i > 0
ItemsOver(i) == i >= Items
\* IterationItem._invoke: what the round before has made is collected first.
EndItem(t) ==
    LET c == t.cpn
        it == graph.parent[c]
        i == index[c]
        collected == IF Collects(i) THEN [out EXCEPT ![it] = 1] ELSE out
    IN  /\ EndsTask(t) /\ Kind(c) = "iterationitem" /\ ~NoArray(c)
        /\ result' = IF Collects(i)
                       THEN [result EXCEPT ![it] = Append(@, out[graph.collects[it]])] ELSE result
        /\ IF ItemsOver(i)
             THEN Put(index, c, -1) /\ out' = collected
             ELSE Put(index, c, i + 1) /\ out' = [collected EXCEPT ![c] = IF i < 0 THEN Items ELSE i + 1]
        /\ UNCHANGED <<graph, path, saved, idx, phase, chosen, failed, canceled, turn, errors>>

LoopIsOver(i) == i >= MaxLoops

\* LoopItem._invoke; its end() may also find that the condition holds.
EndLoopItem(t) ==
    /\ EndsTask(t) /\ Kind(t.cpn) = "loopitem"
    /\ IF LoopIsOver(index[t.cpn])
         THEN Put(index, t.cpn, -1)
         ELSE \E i \in {index[t.cpn] + 1, -1} : Put(index, t.cpn, i)
    /\ UNCHANGED <<graph, path, saved, idx, phase, out, result, chosen, failed, canceled,
                   turn, errors>>

\* _append_path and _extend_path.
AppendNew(p, c) == IF Last(p) = c THEN p ELSE Append(p, c)
Extend(p, cs) == Walk(AppendNew, p, cs)
ItemOf(c) == CHOOSE d \in Cpns : graph.parent[d] = c /\ Kind(d) \in {"iterationitem", "loopitem"}
Inside(c, kind) == graph.parent[c] # c /\ Kind(graph.parent[c]) = kind
\* Mutant: the name of the iteration's item is misspelt.
LoopIsDone(c) == Kind(c) \in {"interationitem", "loopitem"} /\ index[c] = -1
IsDone(c) == Kind(c) \in {"iterationitem", "loopitem"} /\ index[c] = -1
After(c) ==
    IF IsDone(c) THEN graph.down[graph.parent[c]]
    ELSE IF Branches(Kind(c)) THEN chosen[c]
    ELSE IF Kind(c) \in {"iteration", "loop"} THEN <<ItemOf(c)>>
    ELSE IF Kind(c) = "exitloop" /\ Inside(c, "loop") THEN graph.down[graph.parent[c]]
    ELSE IF graph.down[c] = <<>> /\ graph.parent[c] # c THEN <<ItemOf(graph.parent[c])>>
    ELSE graph.down[c]
\* Post-processing of one component of the batch.
Goes(p, c) == IF c \in failed /\ graph.goto[c] # <<>> THEN p \o graph.goto[c]
              ELSE Extend(p, After(c))
Unhandled(cs) == \E c \in cs : c \in failed /\ graph.goto[c] = <<>>
\* What the user was asked for comes first in the next turn.
Asked(cs) == \E c \in cs : Kind(c) = "userfillup"
AddAsked(p, c) == IF Kind(c) = "userfillup" THEN Append(p, c) ELSE p
AddOther(p, c) == IF Kind(c) = "userfillup" THEN p ELSE Append(p, c)
Resumed(rest) == Walk(AddOther, Walk(AddAsked, <<>>, rest), rest)

EndBatch ==
    LET batch == SubSeq(path, idx + 1, Len(path))
        p == Walk(Goes, path, batch)
        rest == SubSeq(p, Len(path) + 1, Len(p))
    IN  /\ phase = "batch" /\ tasks = {}
        /\ IF Unhandled(ToSet(batch))
             THEN phase' = "rest" /\ path' = SubSeq(path, 1, idx) /\ saved' = path' /\ UNCHANGED idx
           ELSE IF Asked(ToSet(rest))
             THEN phase' = "rest" /\ path' = Resumed(rest) /\ saved' = path' /\ UNCHANGED idx
           ELSE phase' = "next" /\ path' = p /\ idx' = Len(path) /\ UNCHANGED saved
        /\ UNCHANGED <<graph, tasks, out, index, result, chosen, failed, canceled, turn, errors,
                       handled>>

EndTurn ==
    /\ phase = "next" /\ idx = Len(path)
    /\ phase' = "rest" /\ saved' = path
    /\ UNCHANGED <<graph, path, idx, tasks, out, index, result, chosen, failed, canceled, turn,
                   errors, handled>>

Cancel ==
    /\ phase # "rest" /\ ~canceled /\ canceled' = TRUE
    /\ UNCHANGED <<graph, path, saved, idx, tasks, phase, out, index, result, chosen, failed,
                   turn, errors, handled>>

EndTask(t) == EndPlain(t) \/ EndSwitch(t) \/ TaskRaises(t) \/ EndItem(t) \/ EndLoopItem(t)
RunOn == \/ StartBatch \/ Raise \/ EndBatch \/ EndTurn
         \/ \E t \in tasks : EndTask(t) \/ \E r \in graph.reads[t.cpn] : TaskReads(t, r)
CanvasNext == BeginTurn \/ RunOn \/ Cancel

\* The coroutine runs on; a component has a timeout.
CanvasFairness == WF_canvasVars(RunOn)

CanvasSpec == CanvasInit /\ [][CanvasNext]_canvasVars /\ CanvasFairness

----------------------------------------------------------------------------
CanvasTypeOK ==
    /\ graph \in Graphs
    /\ path \in Seq(Cpns) /\ saved \in Seq(Cpns) /\ idx \in Nat
    /\ phase \in {"rest", "next", "batch"} /\ (tasks # {} => phase = "batch")
    /\ \A t \in tasks : t.at \in DOMAIN path /\ path[t.at] = t.cpn
    /\ out \in [Cpns -> Nat] /\ index \in [Cpns -> Int] /\ failed \subseteq Cpns
    /\ canceled \in BOOLEAN

\* _run_batch: in the first turn of a session a component that is held back runs when what
\* it reads has been made, however many ways of different length lead to it.  Only a
\* component that stands behind what it reads in one batch may read None: path[:i]
\* counts its batch-mates as done.
MatesBefore(t) == {path[i] : i \in idx + 1 .. t.at - 1}
ReadsAreReady ==
    \A t \in tasks : turn = 1 /\ HeldBack(Kind(t.cpn)) => \A r \in graph.reads[t.cpn] :
        out[r] # Nothing \/ r \in failed \/ r \in MatesBefore(t)

\* Canvases it is stated for.  An iteration is in the path once it has begun, before its
\* result is there (canvas.py:465); what reads the result has to come after it: the iteration
\* leads to it, nothing else does, and no error goes to it.  Nothing reads from an exit or a
\* loop's item, which make nothing.
ReadsFollow(g) ==
    \A c \in DOMAIN g.kind : \A r \in g.reads[c] : g.kind[r] \in Silent =>
        /\ g.kind[r] = "iteration" /\ g.kind[c] \notin {"iterationitem", "loopitem"}
        /\ \A x \in DOMAIN g.kind : (c \in ToSet(g.down[x]) => x = r) /\ c \notin ToSet(g.goto[x])

ItemsInOrder == [i \in 1 .. Items |-> i]
Undisturbed == failed = {} /\ ~canceled
EndedIterations == {it \in Cpns : Kind(it) = "iteration" /\ index[ItemOf(it)] = -1
                                  /\ Len(handled[it]) = 1}

\* docs/guides/agent/agent_component_reference/iteration.mdx:11: an iteration
\* iterates its workflow for each item.  No component of it skips or repeats one,
\* and it hands on one result per item, in their order (IterationItem).
EachItemOnce ==
    Undisturbed =>
        /\ \A c \in Cpns : Inside(c, "iteration") /\ graph.reads[c] = {ItemOf(graph.parent[c])}
               => IsPrefix([i \in DOMAIN handled[c] |-> handled[c][i][ItemOf(graph.parent[c])]],
                           ItemsInOrder)
        /\ phase = "next" => \A it \in EndedIterations : result[it] = ItemsInOrder

\* Canvases it is stated for.  The inside of an iteration is a chain: an item that reads
\* nothing, then ordinary components, each of which reads what the chain has made before it.
Ordinary(kind) == kind \notin {"begin", "userfillup", "switch", "categorize", "iteration", "iterationitem",
                               "loop", "loopitem", "exitloop"}
IsChain(g, it, w) ==
    /\ IsInjective(w) /\ ToSet(w) = {c \in DOMAIN g.kind : g.parent[c] = it /\ c # it}
    /\ g.kind[w[1]] = "iterationitem" /\ g.reads[w[1]] = {}
    /\ \A k \in DOMAIN w : g.down[w[k]] = IF k = Len(w) THEN <<>> ELSE <<w[k + 1]>>
    /\ \A k \in DOMAIN w \ {1} : /\ Ordinary(g.kind[w[k]]) /\ g.reads[w[k]] # {}
                               /\ g.reads[w[k]] \subseteq {w[j] : j \in 1 .. k - 1}
    /\ g.collects[it] \in {w[k] : k \in DOMAIN w \ {1}}
\* Outside of iterations links lead onwards and only a switch or the like has several, so that one
\* component runs at a time and none twice in a turn.
LeadsOnwards(g, outer, rank) ==
    \A c \in outer : \A d \in ToSet(g.down[c]) : d \in outer /\ rank[c] < rank[d]
GoesOneWay(g) ==
    LET cs == DOMAIN g.kind
        outer == {c \in cs : g.parent[c] = c}
        its == {c \in cs : g.kind[c] = "iteration"}
        n == Cardinality(cs)
    IN  /\ n \in Nat /\ its \subseteq outer /\ \A c \in cs \ outer : g.parent[c] \in its
        /\ \A c \in outer : ~Branches(g.kind[c]) => Len(g.down[c]) <= 1
        /\ \E rank \in [outer -> 1 .. n] : LeadsOnwards(g, outer, rank)
        /\ \A it \in its : \E m \in 2 .. n :
               \E w \in [1 .. m -> {c \in cs : g.parent[c] = it}] : IsChain(g, it, w)
ItemsGoOneWay(g) == (\A c \in DOMAIN g.kind : g.kind[c] # "iteration") \/ GoesOneWay(g)

\* Canvas.run: every turn comes to an end, with an answer, an error, a question
\* to the user or the cancellation.
TurnEnds == phase = "next" ~> phase = "rest"
=============================================================================
