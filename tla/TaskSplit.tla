------------------------------ MODULE TaskSplit ------------------------------
(***************************************************************************)
(* How queue_tasks splits a document into tasks, which chunks of earlier   *)
(* tasks it reuses, and which it deletes.  A PDF is split by page ranges,  *)
(* a workbook of the table method by rows, which rag/app/table.py counts   *)
(* again in every task; anything else is one task.  A task of the last     *)
(* parse lends its chunks to a new one that has its digest; the chunks of  *)
(* the others are deleted, by the ids in Task.chunk_ids.                   *)
(*                                                                         *)
(* A request and a task are one step each here: how their statements       *)
(* interleave is in DocumentParse.  A chunk is a page or row under the     *)
(* configuration and the content it was made from; its id is a hash of     *)
(* document and text.  Progress is scaled to -1, 0, 1 (some), 2 (1.0).     *)
(***************************************************************************)
EXTENDS Integers, Sequences, FiniteSets, SequencesExt

CONSTANTS
    Configs,   \* parser_id and parser_config: method, page ranges, page size, toc_extraction
    Files,     \* contents of the document: [kind, pages, sheets]
    RowStep,   \* rows of a table task: 3000
    MaxDocRequests, MaxBreakOffs    \* bounds: requests, tasks that fail or die

ASSUME SplitAssumption ==
    /\ \A c \in Configs :
         /\ c.step \in Nat \ {0} /\ c.toc \in BOOLEAN
         /\ c.ranges \in Seq(Int \X Int)
    /\ \A f \in Files :
         f.kind \in {"pdf", "book"} /\ f.pages \in Nat /\ f.sheets \in Seq([head : Nat, data : Nat])
    /\ RowStep \in Nat \ {0} /\ MaxDocRequests \in Nat /\ MaxBreakOffs \in Nat

VARIABLES
    config, file,  \* the document's row, its blob
    run,           \* "UNSTART", "RUNNING" (or DONE, FAIL: as the tasks say)
    tasks,         \* the rows of its tasks, in the order of parse_task_array
    store,         \* its chunks in the document store
    counted,       \* Document.token_num > 0
    \* observations
    disturbed,     \* configuration or content changed before the tasks were over
    wiped,         \* chunks were deleted under tasks that still name them
    unnamed,       \* chunks were stored that no task names
    docRequests, breakOffs
splitVars == <<config, file, run, tasks, store, counted, disturbed, wiped, unnamed, docRequests, breakOffs>>

AtMost(a, b)  == IF a <= b THEN a ELSE b
AtLeast(a, b) == IF a <= b THEN b ELSE a

-----------------------------------------------------------------------------
(* The split.                                                               *)

\* for p in range(s, e, n): from p to min(p + n, e).
Pieces(s, e, n) ==
    [i \in 1 .. (IF s < e THEN (e - s + n - 1) \div n ELSE 0) |->
        [from |-> s + (i - 1) * n, to |-> AtMost(s + i * n, e)]]

\* A page range counts from 1 and ends before its second page number.
PagePieces(c, f, r) == Pieces(AtLeast(r[1] - 1, 0), AtMost(r[2] - 1, f.pages), c.step)

\* row_number: the rows of all sheets, headers too.  RowsUpTo(f)[k] is total_rows after
\* sheet k.
RowsUpTo(f) ==
    LET rows[k \in 0 .. Len(f.sheets)] ==
            IF k = 0 THEN 0 ELSE rows[k - 1] + f.sheets[k].head + f.sheets[k].data
    IN  rows
\* Mutant: the rows of the last sheet.
RowsOfLast(f) == RowsUpTo(f)[Len(f.sheets)] - RowsUpTo(f)[AtLeast(Len(f.sheets) - 1, 0)]
RowNumber(f) == RowsUpTo(f)[Len(f.sheets)]

ByRows(c, f) == f.kind = "book" /\ c.method = "table"
Whole == 100000000

ParseTasks(c, f) ==
    CASE f.kind = "pdf" -> FlattenSeq([k \in DOMAIN c.ranges |-> PagePieces(c, f, c.ranges[k])])
      [] ByRows(c, f)   -> Pieces(0, RowNumber(f), RowStep)
      [] OTHER          -> <<[from |-> 0, to |-> Whole]>>

\* xxh64 over get_chunking_config (with content_hash), from_page and to_page.
Digest(c, f, t) == <<c, f, t.from, t.to>>

-----------------------------------------------------------------------------
(* What a task makes of the file.                                           *)

\* Excel.__call__: rn after sheet k; the row that is beyond the task is counted, the rows
\* after it are not.
RowsBefore(f, to) ==
    LET rn[k \in 0 .. Len(f.sheets)] ==
            IF k = 0 THEN 0
            ELSE rn[k - 1] + AtMost(f.sheets[k].data, AtLeast(to - rn[k - 1], 0) + 1)
    IN  rn

RowsOf(f, t) ==
    UNION {{<<k, i>> : i \in {j \in 0 .. f.sheets[k].data - 1 :
                                 LET at == RowsBefore(f, t.to)[k - 1] + j IN t.from <= at /\ at < t.to}}
             : k \in DOMAIN f.sheets}
PagesOf(f, t) == {<<0, p>> : p \in t.from .. AtMost(t.to, f.pages) - 1}
Units(f) == IF f.kind = "pdf" THEN {<<0, p>> : p \in 0 .. f.pages - 1}
            ELSE UNION {{<<k, i>> : i \in 0 .. f.sheets[k].data - 1} : k \in DOMAIN f.sheets}
UnitsOf(c, f, t) == CASE f.kind = "pdf" -> PagesOf(f, t)
                      [] ByRows(c, f)   -> RowsOf(f, t)
                      [] OTHER          -> Units(f)

\* build_chunks, with the configuration and the content of that moment.
Made(t) == {<<config, file, u>> : u \in UnitsOf(config, file, t)}
\* build_TOC: a chunk more, of the general method, or none if the model finds no contents.
Contents(c, f) == <<c, f, <<-1, 0>>>>
Tocs(t) == {{}} \cup IF config.toc /\ config.method = "naive" /\ Made(t) # {} THEN {{Contents(config, file)}} ELSE {}

-----------------------------------------------------------------------------
\* The table method takes workbooks.
Fits(c) == c.method = "table" => file.kind = "book"

SplitStart(c, f) ==
    /\ config = c /\ file = f /\ run = "UNSTART" /\ tasks = <<>> /\ store = {} /\ counted = FALSE
    /\ disturbed = FALSE /\ wiped = FALSE /\ unnamed = FALSE
    /\ docRequests = 0 /\ breakOffs = 0
SplitInit == \E c \in Configs, f \in Files : SplitStart(c, f) /\ Fits(c)

Ask == docRequests < MaxDocRequests /\ docRequests' = docRequests + 1

\* Mutant: the digest is made without content_hash.
LenderOfAnyContent(prev, t) ==
    LET same == {j \in DOMAIN prev : /\ prev[j].digest[1] = config
                                     /\ prev[j].from = t.from /\ prev[j].to = t.to}
    IN  {j \in same : \A k \in same : k <= j}

\* reuse_prev_task_chunks.  Of the tasks with its digest get_tasks lists the one created last
\* first.  Once it has lent its chunks it has none for the next new task with that digest.
Lender(prev, t) ==
    LET same == {j \in DOMAIN prev : prev[j].digest = Digest(config, file, t)}
    IN  {j \in same : \A k \in same : k <= j}
Lenders(prev, new, i) ==
    {j \in Lender(prev, new[i]) : /\ prev[j].progress = 2 /\ prev[j].chunks # {}
                                  /\ \A k \in 1 .. i - 1 : new[k] # new[i]}

\* Mutant: the chunks of tasks that failed stay.
DroppedDone(prev, lent) == UNION {prev[j].chunks : j \in {k \in DOMAIN prev \ lent : prev[k].progress = 2}}

Dropped(prev, lent) == UNION {prev[j].chunks : j \in DOMAIN prev \ lent}

\* queue_tasks, when the rows prev and the chunks left are there.  A document that yields no
\* task has lost its old ones when bulk_insert_into_db raises.
QueueTasks(prev, left) ==
    LET new  == ParseTasks(config, file)
        lent == UNION {Lenders(prev, new, i) : i \in DOMAIN new}
        NewTask(t, lenders) ==
            [from |-> t.from, to |-> t.to, digest |-> Digest(config, file, t),
             progress |-> IF lenders = {} THEN 0 ELSE 2,
             chunks |-> UNION {prev[j].chunks : j \in lenders}]
    IN  /\ tasks' = [i \in DOMAIN new |-> NewTask(new[i], Lenders(prev, new, i))]
        /\ store' = left \ Dropped(prev, lent)
        /\ wiped' = (wiped /\ lent # {})

\* POST /document/run without delete.
Keep ==
    /\ Ask
    /\ run' = "RUNNING" /\ QueueTasks(tasks, store)
    /\ UNCHANGED <<config, file, counted, disturbed, unnamed, breakOffs>>

\* POST /document/run with delete, POST /datasets/<id>/chunks: tasks and chunks go first.
Redo ==
    /\ Ask
    /\ run' = "RUNNING" /\ QueueTasks(<<>>, {})
    /\ counted' = FALSE /\ disturbed' = FALSE /\ unnamed' = FALSE
    /\ UNCHANGED <<config, file, breakOffs>>

Unfinished == \E i \in DOMAIN tasks : tasks[i].progress \in {0, 1}
Changes == disturbed' = (disturbed \/ Unfinished)

\* The chunks of the document are deleted if it has tokens; its tasks stay.
DropChunksIfCounted ==
    /\ store' = IF counted THEN {} ELSE store
    /\ wiped' = (wiped \/ counted)
    /\ counted' = FALSE

\* POST /document/change_parser: reset_doc.
ChangeParser(c) ==
    /\ Ask /\ c # config /\ Fits(c)
    /\ config' = c /\ run' = "UNSTART"
    /\ DropChunksIfCounted /\ Changes
    /\ UNCHANGED <<file, tasks, unnamed, breakOffs>>

\* PUT /datasets/<id>/documents/<id> with a chunk_method, be it the one the document has.
SetChunkMethod(c) ==
    /\ Ask /\ Fits(c)
    /\ config' = c /\ run' = IF c.method # config.method THEN "UNSTART" ELSE run
    /\ DropChunksIfCounted /\ Changes
    /\ UNCHANGED <<file, tasks, unnamed, breakOffs>>

\* The same with a parser_config only.
EditConfig(c) ==
    /\ Ask /\ c # config /\ c.method = config.method
    /\ config' = c /\ Changes
    /\ UNCHANGED <<file, run, tasks, store, counted, wiped, unnamed, breakOffs>>

\* upload_document with a document id that exists.
ReplaceContent(f) ==
    /\ Ask /\ f # file /\ f.kind = file.kind
    /\ file' = f /\ Changes
    /\ UNCHANGED <<config, run, tasks, store, counted, wiped, unnamed, breakOffs>>

-----------------------------------------------------------------------------
(* The executors.                                                           *)

\* insert_chunks ends with the ids of all chunks; called again for the table of contents it
\* ends with that id alone.
Names(t, toc) == CASE Made(t) = {} -> t.chunks [] toc # {} -> toc [] OTHER -> Made(t)

Finish(i) ==
    LET t == tasks[i]
    IN  /\ t.progress \in {0, 1}
        /\ \E toc \in Tocs(t) :
             /\ tasks' = [tasks EXCEPT ![i].progress = 2, ![i].chunks = Names(t, toc)]
             /\ store' = store \cup Made(t) \cup toc
             /\ unnamed' = (unnamed \/ ~ t.chunks \cup Made(t) \subseteq Names(t, toc))
        /\ counted' = (counted \/ Made(t) # {})
        /\ UNCHANGED <<config, file, run, disturbed, wiped, docRequests, breakOffs>>

\* The chunks are stored in their order, a batch at a time.
UpTo(u, v) == u[1] < v[1] \/ (u[1] = v[1] /\ u[2] <= v[2])
Firsts(t) == {{}} \cup {{x \in Made(t) : UpTo(x[3], y[3])} : y \in Made(t)}

\* Halfway through insert_chunks a call of the document store fails (-1), or the executor dies
\* and the task will run again.  What was stored is named once its batch is complete.
BreakOff(i, outcome) ==
    LET t == tasks[i]
    IN  /\ t.progress \in {0, 1} /\ breakOffs < MaxBreakOffs
        /\ \E stored, named \in Firsts(t) :
             /\ named \subseteq stored
             /\ store' = store \cup stored
             /\ tasks' = [tasks EXCEPT ![i].progress = outcome,
                                       ![i].chunks = IF named = {} THEN @ ELSE named]
             /\ unnamed' = (unnamed \/ ~ t.chunks \cup stored \subseteq tasks'[i].chunks)
        /\ breakOffs' = breakOffs + 1
        /\ UNCHANGED <<config, file, run, counted, disturbed, wiped, docRequests>>

SplitNext ==
    \/ Keep \/ Redo
    \/ \E c \in Configs : ChangeParser(c) \/ SetChunkMethod(c) \/ EditConfig(c)
    \/ \E f \in Files : ReplaceContent(f)
    \/ \E i \in DOMAIN tasks : Finish(i) \/ BreakOff(i, -1) \/ BreakOff(i, 1)

SplitSpec == SplitInit /\ [][SplitNext]_splitVars

-----------------------------------------------------------------------------
(* Properties.                                                              *)

ConfigOf(t) == t.digest[1]
FileOf(t) == t.digest[2]
\* The ranges of a configuration that ask for a page; all that is in a workbook is asked for.
Asks(c, f, u) ==
    IF f.kind = "pdf" THEN {k \in DOMAIN c.ranges : c.ranges[k][1] <= u[2] + 1 /\ u[2] + 1 < c.ranges[k][2]}
                      ELSE {1}
Asked(c, f) == {<<c, f, u>> : u \in {v \in Units(f) : Asks(c, f, v) # {}}}

Done == run = "RUNNING" /\ tasks # <<>> /\ \A i \in DOMAIN tasks : tasks[i].progress = 2

(* Types; no task is empty or larger than a piece (queue_tasks).            *)
SplitTypeOK ==
    /\ config \in Configs /\ file \in Files /\ run \in {"UNSTART", "RUNNING"}
    /\ \A i \in DOMAIN tasks :
         LET t == tasks[i]
         IN  /\ 0 <= t.from /\ t.from < t.to
             /\ t.to - t.from <= CASE FileOf(t).kind = "pdf" -> ConfigOf(t).step
                                   [] ByRows(ConfigOf(t), FileOf(t)) -> RowStep
                                   [] OTHER -> Whole
             /\ t.progress \in -1 .. 2
    /\ {counted, disturbed, wiped, unnamed} \subseteq BOOLEAN
    /\ docRequests \in 0 .. MaxDocRequests /\ breakOffs \in 0 .. MaxBreakOffs

(* Server and executor count alike: whatever the page ranges and page sizes *)
(* and however the rows lie in the sheets, a page is in as many tasks as    *)
(* ranges ask for it, and a row of data in exactly one, although the server *)
(* counts headers and each executor counts on its own (queue_tasks,         *)
(* Excel.__call__).                                                         *)
EachUnitOnce ==
    tasks # <<>> =>
        LET c == ConfigOf(tasks[1])  f == FileOf(tasks[1])
        IN  \A u \in Units(f) :
              Cardinality({i \in DOMAIN tasks : u \in UnitsOf(c, f, tasks[i])}) = Cardinality(Asks(c, f, u))

(* When all tasks are done, reused or not, everything the parse was asked   *)
(* for is in the document store, and nothing else is.  A deletion by chunk  *)
(* ids took nothing that another task relies on, overlapping ranges         *)
(* included; nothing was reused that other content or another configuration *)
(* made (if no change deleted chunks that tasks still name).  No chunk of   *)
(* an earlier configuration or content, or of a failed or repeated task, is *)
(* left (if each stored chunk was named).                                   *)
DoneIsStored ==
    Done /\ ~disturbed =>
        LET c == ConfigOf(tasks[1])  f == FileOf(tasks[1])
        IN  /\ ~wiped => Asked(c, f) \subseteq store
            /\ ~unnamed => store \subseteq Asked(c, f) \cup {Contents(c, f)}
=============================================================================
