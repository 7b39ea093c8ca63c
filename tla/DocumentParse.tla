----------------------------- MODULE DocumentParse -----------------------------
(***************************************************************************)
(* The life of one document of RAGFlow while it is parsed, parsed again,   *)
(* cancelled and removed: the requests of the two HTTP APIs, the task      *)
(* executors inside do_handle_task, and the threads that copy the progress *)
(* of the tasks into the document.  They share five stores without a       *)
(* transaction across them: the document row with its knowledge base       *)
(* counter, the task rows, the cancel flags and the queue in Redis, and    *)
(* the chunks in the document store.                                       *)
(*                                                                         *)
(* One document: no statement of this code touches the rows, flags or      *)
(* chunks of two.  A task is a page range and the request that queued it;  *)
(* its chunks are one chunk, whose id is a hash of document and content,   *)
(* so that the chunks of a page range are the same whoever makes them.     *)
(* The queue between server and executors is TaskLifecycle, which          *)
(* TaskQueue implements.  Progress is scaled to -1, 0, 1 (some), 2 (1.0).  *)
(***************************************************************************)
EXTENDS Integers, Sequences, FiniteSets

CONSTANTS Pages,        \* page ranges queue_tasks splits the document into
          Clients,      \* threads of the API servers that hold a request
          Watchers,     \* update_progress threads that hold their lock
          Kinds,        \* the requests they make
          Outcomes,     \* how chunking and storing may end
          MaxAttempts,  \* retry_count at which get_task gives up: 3
          MaxRuns,      \* bound: times the document is queued
          MaxRequests,  \* bound: requests
          MaxAborts,    \* bound: requests that die halfway
          MaxCrashes,   \* bound: executor deaths
          KeysExpire    \* whether a cancel flag may reach its hour

Runs  == 1 .. MaxRuns
Tasks == Runs \X Pages
PageOf(t) == t[2]
Syncers == Tasks \cup Watchers      \* who runs _sync_progress

ASSUME ParseAssumption ==
    /\ Pages # {} /\ IsFiniteSet(Pages)
    /\ Watchers \cap Tasks = {}
    /\ Kinds \subseteq {"run", "keep", "redo", "cancel", "parse", "stop", "remove", "rm"}
    /\ Outcomes \subseteq {"chunks", "none", "error"}
    /\ MaxAttempts \in Nat /\ MaxRuns \in Nat /\ MaxRequests \in Nat
    /\ MaxAborts \in Nat /\ MaxCrashes \in Nat
    /\ KeysExpire \in BOOLEAN

VARIABLES
    \* database
    there,      \* the document row exists
    run,        \* Document.run
    progress,   \* Document.progress
    chunkNum,   \* Document.chunk_num
    kbChunkNum, \* the document's part of Knowledgebase.chunk_num
    rows,       \* task rows
    taskProgress, \* Task.progress
    chunkIds,   \* tasks whose Task.chunk_ids is set
    \* Redis
    cancelKey,  \* tasks whose "<id>-cancel" key exists
    status, attempts, \* the queue, see TaskLifecycle
    \* document store
    store,      \* the page ranges whose chunks are in it
    \* API servers
    req,        \* per client: its request, the statements it has still to
                \* make, and what it has read
    runs,       \* how often InsertTasks happened
    \* executors and progress threads
    pc,         \* per task: where do_handle_task stands
    sync,       \* per syncer: where _sync_progress stands, with what verdict
    \* bounds
    requests, starts, aborts, crashes,
    orphaned    \* history: the row of a task that may still store chunks was
                \* deleted, and no flag tells the task

docVars    == <<there, run, progress, chunkNum, kbChunkNum>>
taskVars   == <<rows, taskProgress, chunkIds>>
queueVars  == <<status, attempts>>
clientVars == <<req, runs>>
boundVars  == <<requests, starts, aborts, crashes, orphaned>>
vars == <<docVars, taskVars, cancelKey, queueVars, store, clientVars, pc, sync, boundVars>>

\* The tasks of a document are all fetched through get_task.
Queue == INSTANCE TaskLifecycle WITH Uncounted <- {}

----------------------------------------------------------------------------
(* The requests, statement by statement *)

QueueTasks == <<"ReadTasks", "DropTasks", "DropOldChunks", "SetChunkNum",
                "InsertTasks", "BeginParse", "Publish">>

\* POST /document/run with run=1: delete absent, false or true; with run=2.
RunSteps    == <<"ReadDoc", "ClearKb", "Mark">> \o QueueTasks
KeepSteps   == <<"ReadDoc", "Mark">> \o QueueTasks
RedoSteps   == <<"ReadDoc", "ClearKb", "Mark", "DropTasks", "DropChunks">> \o QueueTasks
CancelSteps == <<"ReadDoc", "CheckTasks", "FindTasks", "FlagTasks", "Mark">>

\* POST and DELETE /datasets/<id>/chunks of the SDK's API.
ParseSteps  == <<"ReadDoc", "Mark", "DropChunks", "DropTasks">> \o QueueTasks
StopSteps   == <<"ReadDoc", "FindTasks", "FlagTasks", "Mark", "DropChunks">>

\* remove_document, and FileService.delete_docs around it.
RemoveSteps == <<"DeleteDoc", "FindTasks", "FlagTasks", "DropTasks", "DropChunks">>
DeleteDocsSteps == <<"ReadDoc", "DropTasks">> \o RemoveSteps

Script == [run |-> RunSteps, keep |-> KeepSteps, redo |-> RedoSteps, cancel |-> CancelSteps,
           parse |-> ParseSteps, stop |-> StopSteps, remove |-> RemoveSteps, rm |-> DeleteDocsSteps]

Starts == {"run", "keep", "redo", "parse"}
Resets == {"redo", "parse", "stop"}       \* those that write chunk_num 0

NoRequest == [kind |-> "none", rest |-> <<>>, saw |-> "none", reuse |-> {}, drop |-> {}, todo |-> {}]
NoSync == [at |-> "idle", run |-> "none", progress |-> 0]

Init ==
    /\ there = TRUE /\ run = "UNSTART" /\ progress = 0 /\ chunkNum = 0 /\ kbChunkNum = 0
    /\ rows = {} /\ chunkIds = {} /\ taskProgress = [t \in Tasks |-> 0]
    /\ cancelKey = {} /\ store = {}
    /\ Queue!Init
    /\ req = [c \in Clients |-> NoRequest]
    /\ runs = 0
    /\ pc = [t \in Tasks |-> "none"]
    /\ sync = [s \in Syncers |-> NoSync]
    /\ requests = 0 /\ starts = 0 /\ aborts = 0 /\ crashes = 0 /\ orphaned = FALSE

Busy(c) == req[c].rest # <<>>
At(c, step) == Busy(c) /\ Head(req[c].rest) = step
Kind(c) == req[c].kind

\* The next statement of the request, knowing r; after the last it is answered.
GoWith(c, r) == req' = [req EXCEPT ![c] =
                   IF Len(r.rest) = 1 THEN NoRequest ELSE [r EXCEPT !.rest = Tail(@)]]
Go(c) == GoWith(c, req[c])
Refuse(c) == req' = [req EXCEPT ![c] = NoRequest]

Request(c, k) ==
    /\ ~Busy(c) /\ requests < MaxRequests
    /\ starts' = starts + (IF k \in Starts THEN 1 ELSE 0)
    /\ starts' <= MaxRuns
    /\ req' = [req EXCEPT ![c] = [NoRequest EXCEPT !.kind = k, !.rest = Script[k]]]
    /\ requests' = requests + 1
    /\ UNCHANGED <<docVars, taskVars, cancelKey, queueVars, store, runs, pc, sync, aborts, crashes,
                   orphaned>>

\* get_by_id, and what the handler refuses on the strength of it.
ReadDoc(c) ==
    /\ At(c, "ReadDoc")
    /\ LET refused == \/ ~there
                      \/ Kind(c) = "parse" /\ run = "RUNNING"
                      \/ Kind(c) = "stop" /\ run # "RUNNING"
       IN IF refused THEN Refuse(c) ELSE GoWith(c, [req[c] EXCEPT !.saw = run])
    /\ UNCHANGED <<docVars, taskVars, cancelKey, queueVars, store, runs, pc, sync, boundVars>>

\* clear_chunk_num_when_rerun, if the document read was DONE.
ClearKb(c) ==
    /\ At(c, "ClearKb")
    /\ \/ /\ req[c].saw # "DONE"
          /\ Go(c) /\ UNCHANGED kbChunkNum
       \/ /\ req[c].saw = "DONE" /\ there
          /\ kbChunkNum' = kbChunkNum - chunkNum /\ Go(c)
       \/ /\ req[c].saw = "DONE" /\ ~there
          /\ Refuse(c) /\ UNCHANGED kbChunkNum
    /\ UNCHANGED <<there, run, progress, chunkNum, taskVars, cancelKey, queueVars, store, runs,
                   pc, sync, boundVars>>

\* update_by_id(id, info): no effect when the row is gone.
Mark(c) ==
    /\ At(c, "Mark")
    /\ IF there THEN /\ run' = IF Kind(c) \in Starts THEN "RUNNING" ELSE "CANCEL"
                     /\ progress' = 0
                     /\ chunkNum' = IF Kind(c) \in Resets THEN 0 ELSE chunkNum
                ELSE UNCHANGED <<run, progress, chunkNum>>
    /\ Go(c)
    /\ UNCHANGED <<there, kbChunkNum, taskVars, cancelKey, queueVars, store, runs,
                   pc, sync, boundVars>>

\* TaskService.query of a cancel request: it is refused unless the document is
\* RUNNING or CANCEL or has an unfinished (or failed) task.
CheckTasks(c) ==
    /\ At(c, "CheckTasks")
    /\ IF req[c].saw \in {"RUNNING", "CANCEL"} \/ \E t \in rows : taskProgress[t] < 2
       THEN Go(c) ELSE Refuse(c)
    /\ UNCHANGED <<docVars, taskVars, cancelKey, queueVars, store, runs, pc, sync, boundVars>>

\* cancel_all_task_of: the query, then one SET for each row it returned.
FindTasks(c) ==
    /\ At(c, "FindTasks")
    /\ GoWith(c, [req[c] EXCEPT !.todo = rows])
    /\ UNCHANGED <<docVars, taskVars, cancelKey, queueVars, store, runs, pc, sync, boundVars>>

FlagTasks(c) ==
    /\ At(c, "FlagTasks")
    /\ \/ /\ req[c].todo = {} /\ Go(c)
          /\ UNCHANGED cancelKey
       \/ \E t \in req[c].todo :
             /\ cancelKey' = cancelKey \cup {t}
             /\ req' = [req EXCEPT ![c].todo = @ \ {t}]
    /\ UNCHANGED <<docVars, taskVars, queueVars, store, runs, pc, sync, boundVars>>

\* What a task that an executor has, or will have, may still store.
MayStore(t) == status[t] = "pending" \/ pc[t] \in {"build", "check", "insert"}

\* TaskService.filter_delete([Task.doc_id == id]).
DropTasks(c) ==
    /\ At(c, "DropTasks")
    /\ rows' = {} /\ chunkIds' = {} /\ taskProgress' = [t \in Tasks |-> 0]
    /\ orphaned' = (orphaned \/ \E t \in rows \ cancelKey : MayStore(t))
    /\ Go(c)
    /\ UNCHANGED <<docVars, cancelKey, queueVars, store, runs, pc, sync,
                   requests, starts, aborts, crashes>>

\* docStoreConn.delete({"doc_id": id}).
DropChunks(c) ==
    /\ At(c, "DropChunks")
    /\ store' = {} /\ Go(c)
    /\ UNCHANGED <<docVars, taskVars, cancelKey, queueVars, runs, pc, sync, boundVars>>

\* delete_document_and_update_kb_counts: one transaction under a row lock;
\* whoever finds the row gone stops there.
DeleteDoc(c) ==
    /\ At(c, "DeleteDoc")
    /\ \/ /\ there /\ there' = FALSE
          /\ kbChunkNum' = kbChunkNum - chunkNum
          /\ run' = "UNSTART" /\ progress' = 0 /\ chunkNum' = 0  \* no row, no values
          /\ Go(c)
       \/ /\ ~there /\ Refuse(c)
          /\ UNCHANGED docVars
    /\ UNCHANGED <<taskVars, cancelKey, queueVars, store, runs,
                   pc, sync, boundVars>>

----------------------------------------------------------------------------
(* queue_tasks *)

\* The latest task of a page range, which get_tasks lists first.
Latest(p) == {t \in rows : PageOf(t) = p /\ \A u \in rows : PageOf(u) = p => u[1] <= t[1]}

\* reuse_prev_task_chunks: a finished task with chunks lends them to its page.
Reusable(p) == \E t \in Latest(p) : taskProgress[t] = 2 /\ t \in chunkIds

\* get_chunking_config (None when the document is gone: the request raises) and
\* get_tasks.  The chunks of old tasks that are not reused will be deleted.
ReadTasks(c) ==
    /\ At(c, "ReadTasks")
    /\ \/ /\ ~there
          /\ Refuse(c)
       \/ /\ there /\ rows = {}
          /\ req' = [req EXCEPT ![c].rest = SubSeq(@, 4, Len(@))]
       \/ /\ there /\ rows # {}
          /\ LET reuse == {p \in Pages : Reusable(p)}
                 old   == {t \in chunkIds : ~(PageOf(t) \in reuse /\ t \in Latest(PageOf(t)))}
             IN GoWith(c, [req[c] EXCEPT !.reuse = reuse, !.drop = {PageOf(t) : t \in old}])
    /\ UNCHANGED <<docVars, taskVars, cancelKey, queueVars, store, runs, pc, sync, boundVars>>

\* Mutant: the deletion goes by document instead of by chunk ids.
DropAllOldChunks(c) ==
    /\ At(c, "DropOldChunks")
    /\ store' = {} /\ Go(c)
    /\ UNCHANGED <<docVars, taskVars, cancelKey, queueVars, runs, pc, sync, boundVars>>

DropOldChunks(c) ==
    /\ At(c, "DropOldChunks")
    /\ store' = store \ req[c].drop
    /\ Go(c)
    /\ UNCHANGED <<docVars, taskVars, cancelKey, queueVars, runs, pc, sync, boundVars>>

SetChunkNum(c) ==
    /\ At(c, "SetChunkNum")
    /\ chunkNum' = IF there THEN Cardinality(req[c].reuse) ELSE chunkNum
    /\ Go(c)
    /\ UNCHANGED <<there, run, progress, kbChunkNum, taskVars, cancelKey, queueVars, store, runs,
                   pc, sync, boundVars>>

\* bulk_insert_into_db(Task, parse_task_array): a reused task is born finished.
InsertTasks(c) ==
    /\ At(c, "InsertTasks")
    /\ runs < MaxRuns
    /\ runs' = runs + 1
    /\ LET new    == {runs'} \X Pages
           reused == {runs'} \X req[c].reuse
       IN /\ rows' = rows \cup new
          /\ chunkIds' = chunkIds \cup reused
          /\ taskProgress' = [t \in Tasks |-> IF t \in reused THEN 2 ELSE taskProgress[t]]
          /\ GoWith(c, [req[c] EXCEPT !.todo = new \ reused])
    /\ UNCHANGED <<docVars, cancelKey, queueVars, store, pc, sync, boundVars>>

\* begin2parse: RUNNING and a small progress, whatever the row says.
BeginParse(c) ==
    /\ At(c, "BeginParse")
    /\ IF there THEN run' = "RUNNING" /\ progress' = 1 ELSE UNCHANGED <<run, progress>>
    /\ Go(c)
    /\ UNCHANGED <<there, chunkNum, kbChunkNum, taskVars, cancelKey, queueVars, store, runs,
                   pc, sync, boundVars>>

\* queue_product for each task that was not reused.
Publish(c) ==
    /\ At(c, "Publish")
    /\ \/ /\ req[c].todo = {} /\ Go(c)
          /\ UNCHANGED queueVars
       \/ \E t \in req[c].todo :
             /\ Queue!Publish(t)
             /\ req' = [req EXCEPT ![c].todo = @ \ {t}]
    /\ UNCHANGED <<docVars, taskVars, cancelKey, store, runs, pc, sync, boundVars>>

\* A statement of the request raises, the assertion on queue_product fails, or
\* the server stops: what was done stays done.
Abort(c) ==
    /\ Busy(c) /\ aborts < MaxAborts
    /\ aborts' = aborts + 1
    /\ Refuse(c)
    /\ UNCHANGED <<docVars, taskVars, cancelKey, queueVars, store, runs, pc, sync,
                   requests, starts, crashes, orphaned>>

----------------------------------------------------------------------------
(* The executors: collect, then do_handle_task, one program counter per task *)

Canceled(t) == t \in cancelKey
Move(t, label) == pc' = [pc EXCEPT ![t] = label]

\* TaskService.update_progress: a finished task may recover from -1, nothing
\* else raises it and progress never falls; no row, no effect.
Progress(t, p) ==
    taskProgress' = IF t \in rows /\ (p = 2 \/ (taskProgress[t] # -1 /\ (p = -1 \/ p > taskProgress[t])))
                    THEN [taskProgress EXCEPT ![t] = p] ELSE taskProgress

\* get_task writes without that rule.
Overwrite(t, p) == taskProgress' = [taskProgress EXCEPT ![t] = p]

\* collect: get_task joins the task with its document.  No answer: acknowledged.
Found(t) == t \in rows /\ there
DropUnknown(t) == ~Found(t) /\ Queue!Drop(t) /\ UNCHANGED <<taskProgress, pc>>

\* get_task: abandoned after MaxAttempts starts.
Abandon(t) == /\ Found(t) /\ attempts[t] >= MaxAttempts
              /\ Overwrite(t, -1) /\ Queue!Drop(t) /\ UNCHANGED pc

\* collect: has_canceled, after get_task wrote its progress.
DropCancelled(t) == /\ Found(t) /\ attempts[t] < MaxAttempts /\ Canceled(t)
                    /\ Overwrite(t, 1) /\ Queue!Drop(t) /\ UNCHANGED pc

StartTask(t) == /\ Found(t) /\ attempts[t] < MaxAttempts /\ ~Canceled(t)
                /\ Overwrite(t, 1) /\ Queue!Start(t) /\ Move(t, "build")

Collect(t) ==
    /\ status[t] = "pending"
    /\ DropUnknown(t) \/ Abandon(t) \/ DropCancelled(t) \/ StartTask(t)
    /\ UNCHANGED <<docVars, rows, chunkIds, cancelKey, store, clientVars, sync, boundVars>>

\* Before the try block a flag, seen by has_canceled or by the progress callback,
\* or an error ends the task without a clean-up.
BuildCancelled(t) == Canceled(t) /\ Progress(t, -1) /\ Move(t, "record")
BuildFails(t) == "error" \in Outcomes /\ Progress(t, -1) /\ Move(t, "record")

\* build_chunks answers with no chunks: the task is done.
NoChunks(t) == ~Canceled(t) /\ "none" \in Outcomes /\ Progress(t, 2) /\ Move(t, "record")

\* embedding gives the chunks their vectors.
Embed(t) == ~Canceled(t) /\ "chunks" \in Outcomes /\ Progress(t, 1) /\ Move(t, "check")

\* build_chunks and embedding.
Build(t) ==
    /\ pc[t] = "build"
    /\ BuildCancelled(t) \/ BuildFails(t) \/ NoChunks(t) \/ Embed(t)
    /\ UNCHANGED <<docVars, rows, chunkIds, cancelKey, queueVars, store, clientVars, sync, boundVars>>

\* _maybe_insert_chunks: has_canceled before the insertion.
CheckBeforeInsert(t) ==
    /\ pc[t] = "check"
    /\ \/ Canceled(t) /\ Progress(t, -1) /\ Move(t, "finally")
       \/ ~Canceled(t) /\ UNCHANGED taskProgress /\ Move(t, "insert")
    /\ UNCHANGED <<docVars, rows, chunkIds, cancelKey, queueVars, store, clientVars, sync, boundVars>>

\* insert_chunks: docStoreConn.insert in a thread.
InsertChunks(t) ==
    /\ pc[t] = "insert"
    /\ \/ store' = store \cup {PageOf(t)} /\ Move(t, "inserted")
       \/ "error" \in Outcomes /\ store' \in {store, store \cup {PageOf(t)}} /\ Move(t, "broken")
    /\ UNCHANGED <<docVars, taskVars, cancelKey, queueVars, clientVars, sync, boundVars>>

\* insert_chunks after the insertion: has_canceled, then the document store's
\* error, then update_chunk_ids (no row: no effect, and nothing is raised).
CheckAfterInsert(t) ==
    /\ pc[t] \in {"inserted", "broken"}
    /\ \/ /\ Canceled(t) \/ pc[t] = "broken"
          /\ Progress(t, -1) /\ UNCHANGED chunkIds /\ Move(t, "finally")
       \/ /\ ~Canceled(t) /\ pc[t] = "inserted"
          /\ chunkIds' = IF t \in rows THEN chunkIds \cup {t} ELSE chunkIds
          /\ UNCHANGED taskProgress /\ Move(t, "indexed")
    /\ UNCHANGED <<docVars, rows, cancelKey, queueVars, store, clientVars, sync, boundVars>>

\* has_canceled before the counters.
CheckBeforeCount(t) ==
    /\ pc[t] = "indexed"
    /\ \/ Canceled(t) /\ Progress(t, -1) /\ Move(t, "finally")
       \/ ~Canceled(t) /\ UNCHANGED taskProgress /\ Move(t, "count")
    /\ UNCHANGED <<docVars, rows, chunkIds, cancelKey, queueVars, store, clientVars, sync, boundVars>>

\* increment_chunk_num: two UPDATEs; the first finds no row of a removed document
\* and the second is made all the same.
CountDoc(t) ==
    /\ pc[t] = "count"
    /\ chunkNum' = IF there THEN chunkNum + 1 ELSE chunkNum
    /\ Move(t, "countKb")
    /\ UNCHANGED <<there, run, progress, kbChunkNum, taskVars, cancelKey, queueVars, store, clientVars,
                   sync, boundVars>>

CountKb(t) ==
    /\ pc[t] = "countKb"
    /\ kbChunkNum' = kbChunkNum + 1
    /\ Move(t, "finish")
    /\ UNCHANGED <<there, run, progress, chunkNum, taskVars, cancelKey, queueVars, store, clientVars,
                   sync, boundVars>>

\* The last has_canceled, then set_progress(1.0), which looks once more itself.
CheckBeforeDone(t) ==
    /\ pc[t] = "finish"
    /\ \/ Canceled(t) /\ Progress(t, -1) /\ Move(t, "finally")
       \/ ~Canceled(t) /\ UNCHANGED taskProgress /\ Move(t, "done")
    /\ UNCHANGED <<docVars, rows, chunkIds, cancelKey, queueVars, store, clientVars, sync, boundVars>>

TaskDone(t) ==
    /\ pc[t] = "done"
    /\ Progress(t, 2) /\ Move(t, "finally")
    /\ UNCHANGED <<docVars, rows, chunkIds, cancelKey, queueVars, store, clientVars, sync, boundVars>>

\* Mutant: no finally block.
NoFinally(t) ==
    /\ pc[t] = "finally" /\ Move(t, "record")
    /\ UNCHANGED <<docVars, taskVars, cancelKey, queueVars, store, clientVars, sync, boundVars>>

\* finally: a cancelled task deletes all chunks of its document.
Finally(t) ==
    /\ pc[t] = "finally"
    /\ Move(t, IF Canceled(t) THEN "wipe" ELSE "record")
    /\ UNCHANGED <<docVars, taskVars, cancelKey, queueVars, store, clientVars, sync, boundVars>>

Wipe(t) ==
    /\ pc[t] = "wipe"
    /\ store' = {} /\ Move(t, "record")
    /\ UNCHANGED <<docVars, taskVars, cancelKey, queueVars, clientVars, sync, boundVars>>

Ack(t) ==
    /\ pc[t] = "ack"
    /\ Queue!Settle(t) /\ Move(t, "none")
    /\ UNCHANGED <<docVars, taskVars, cancelKey, store, clientVars, sync, boundVars>>

\* An executor dies with the tasks it was running; they will be delivered again.
Crash(S) ==
    /\ crashes < MaxCrashes
    /\ crashes' = crashes + 1
    /\ Queue!Requeue(S)
    /\ pc' = [t \in Tasks |-> IF t \in S THEN "none" ELSE pc[t]]
    /\ sync' = [s \in Syncers |-> IF s \in S THEN NoSync ELSE sync[s]]
    /\ UNCHANGED <<docVars, taskVars, cancelKey, store, clientVars, requests, starts, aborts,
                   orphaned>>

\* RedisDB.set gives a cancel flag an hour.
ExpireKey(t) ==
    /\ KeysExpire /\ t \in cancelKey
    /\ cancelKey' = cancelKey \ {t}
    /\ UNCHANGED <<docVars, taskVars, queueVars, store, clientVars, pc, sync, boundVars>>

----------------------------------------------------------------------------
(* _sync_progress, run by the server's thread on the documents that             *)
(* get_unfinished_docs selects, and by an executor after each task              *)
(* (record_pipeline_operation, update_progress_immediately)                     *)

\* Mutant: a failed task counts as unfinished.
UnfinishedOrFailed(t) == taskProgress[t] < 2
Unfinished(t) == taskProgress[t] \in {0, 1}
Selected == /\ there /\ run # "CANCEL"
            /\ \/ progress = 1
               \/ \E t \in rows : Unfinished(t)
               \/ progress = -1 /\ run = "FAIL" /\ \E t \in rows : taskProgress[t] >= 0

\* What the tasks say of the document.  A progress of 0 is not written.
Says(r, p) == [at |-> "doc", run |-> r, progress |-> p]
Verdict ==
    IF \E t \in rows : Unfinished(t)
    THEN Says("RUNNING", IF \E t \in rows : taskProgress[t] > 0 THEN 1 ELSE 0)
    ELSE IF \E t \in rows : taskProgress[t] = -1 THEN Says("FAIL", -1)
    ELSE Says("DONE", 2)

\* Mutant: handle_task ends without redis_msg.ack().
LeaveUnacked(s) == /\ sync' = [sync EXCEPT ![s] = NoSync]
                   /\ pc' = IF s \in Watchers THEN pc ELSE [pc EXCEPT ![s] = "none"]

Leave(s) == /\ sync' = [sync EXCEPT ![s] = NoSync]
            /\ pc' = IF s \in Watchers THEN pc ELSE [pc EXCEPT ![s] = "ack"]

\* The query of the tasks; a document without tasks is passed over.
SyncTasks(s) ==
    /\ sync[s].at = "idle"
    /\ IF s \in Watchers THEN Selected ELSE pc[s] = "record"
    /\ IF there /\ rows # {}
       THEN sync' = [sync EXCEPT ![s] = Verdict] /\ UNCHANGED pc
       ELSE Leave(s)
    /\ UNCHANGED <<docVars, taskVars, cancelKey, queueVars, store, clientVars, boundVars>>

\* The query of the document: a cancelled one is left alone, a removed one makes
\* the loop log an exception.
SyncDoc(s) ==
    /\ sync[s].at = "doc"
    /\ IF there /\ run # "CANCEL"
       THEN sync' = [sync EXCEPT ![s].at = "write"] /\ UNCHANGED pc
       ELSE Leave(s)
    /\ UNCHANGED <<docVars, taskVars, cancelKey, queueVars, store, clientVars, boundVars>>

\* Mutant: UPDATE ... WHERE id = ...
SyncOverwrite(s) ==
    /\ sync[s].at = "write"
    /\ IF there
       THEN /\ run' = sync[s].run
            /\ progress' = IF sync[s].progress # 0 THEN sync[s].progress ELSE progress
       ELSE UNCHANGED <<run, progress>>
    /\ Leave(s)
    /\ UNCHANGED <<there, chunkNum, kbChunkNum, taskVars, cancelKey, queueVars, store, clientVars, boundVars>>

\* UPDATE ... WHERE id = ... AND run != CANCEL.
SyncWrite(s) ==
    /\ sync[s].at = "write"
    /\ IF there /\ run # "CANCEL"
       THEN /\ run' = sync[s].run
            /\ progress' = IF sync[s].progress # 0 THEN sync[s].progress ELSE progress
       ELSE UNCHANGED <<run, progress>>
    /\ Leave(s)
    /\ UNCHANGED <<there, chunkNum, kbChunkNum, taskVars, cancelKey, queueVars, store, clientVars, boundVars>>

----------------------------------------------------------------------------
Client(c) == \/ ReadDoc(c) \/ ClearKb(c) \/ Mark(c) \/ CheckTasks(c)
             \/ FindTasks(c) \/ FlagTasks(c) \/ DropTasks(c) \/ DropChunks(c)
             \/ DeleteDoc(c) \/ ReadTasks(c) \/ DropOldChunks(c) \/ SetChunkNum(c)
             \/ InsertTasks(c) \/ BeginParse(c) \/ Publish(c)

Work(t) == \/ Collect(t) \/ Build(t) \/ CheckBeforeInsert(t) \/ InsertChunks(t)
           \/ CheckAfterInsert(t) \/ CheckBeforeCount(t) \/ CountDoc(t) \/ CountKb(t)
           \/ CheckBeforeDone(t) \/ TaskDone(t) \/ Finally(t) \/ Wipe(t) \/ Ack(t)

Sync(s) == SyncTasks(s) \/ SyncDoc(s) \/ SyncWrite(s)

Next == \/ \E c \in Clients : Client(c) \/ Abort(c) \/ \E k \in Kinds : Request(c, k)
        \/ \E t \in Tasks : Work(t) \/ ExpireKey(t)
        \/ \E S \in SUBSET Tasks : Crash(S)
        \/ \E s \in Syncers : Sync(s)

Spec == Init /\ [][Next]_vars

\* Threads and coroutines run on, the queue delivers what it holds (EverySettles of
\* TaskQueue), the update_progress thread wakes every six seconds.  No client has
\* to make a request.
Fairness == /\ \A c \in Clients : WF_vars(Client(c))
            /\ \A t \in Tasks : WF_vars(Work(t))
            /\ \A s \in Syncers : WF_vars(Sync(s))

FairSpec == Spec /\ Fairness

----------------------------------------------------------------------------
(* Properties *)

PC == {"none", "build", "check", "insert", "inserted", "broken", "indexed", "count", "countKb",
       "finish", "done", "finally", "wipe", "record", "ack"}

\* Types; and a task is in an executor exactly while the queue calls it running.
TypeOK ==
    /\ there \in BOOLEAN
    /\ run \in {"UNSTART", "RUNNING", "CANCEL", "DONE", "FAIL"}
    /\ progress \in -1 .. 2
    /\ chunkNum \in Nat /\ kbChunkNum \in Int
    /\ rows \subseteq Tasks /\ chunkIds \subseteq rows
    /\ taskProgress \in [Tasks -> -1 .. 2]
    /\ cancelKey \subseteq Tasks /\ store \subseteq Pages
    /\ Queue!LifecycleTypeOK
    /\ pc \in [Tasks -> PC]
    /\ \A t \in Tasks : pc[t] # "none" <=> status[t] = "running"
    /\ \A s \in Syncers : sync[s].at \in {"idle", "doc", "write"}

Calm == (\A c \in Clients : ~Busy(c)) /\ (\A t \in Tasks : pc[t] = "none")

\* Who removed or stopped a document finds nothing of it in the document store
\* once the executors that were at it are done, wherever they were, unless an
\* earlier request has hidden one of them by deleting its row.
NoLeftovers == Calm /\ (~there \/ run = "CANCEL") /\ ~orphaned => store = {}

\* "CANCEL" is the user's: no thread or executor takes it back, only a request.
CancelHolds == [][run = "CANCEL" /\ run' # "CANCEL" => req' # req]_vars

\* Task.chunk_ids of a finished task name chunks that are in the store: a later
\* request may reuse them.
FinishedIsStored == there => \A t \in chunkIds : taskProgress[t] = 2 => PageOf(t) \in store

\* A document says RUNNING only while somebody works on it or will look at it
\* again: a request, an executor, a message in the queue, the progress thread.
Forgotten == /\ there /\ run = "RUNNING" /\ Calm /\ ~Selected
             /\ \A s \in Syncers : sync[s] = NoSync
             /\ \A t \in Tasks : status[t] # "pending"
RunningIsWatched == ~Forgotten

\* A document does not stay RUNNING: whatever the order of requests, tasks and
\* late progress writes, the progress thread settles it, or it is Forgotten.
RunningEnds == (there /\ run = "RUNNING") ~> (~there \/ run # "RUNNING" \/ Forgotten)

\* remove_document: "Cancel all running tasks first": when the removal is over,
\* what executors still run of the document is flagged.
RemovalCancels ==
    ~there /\ (\A c \in Clients : ~Busy(c)) => \A t \in Tasks : pc[t] # "none" => Canceled(t)

\* reuse_prev_task_chunks: only "valid chunk IDs" are reused: a task that is born
\* with chunks finds them in the store.
ReuseIsValid == [][\A t \in chunkIds' : t \notin rows => PageOf(t) \in store]_vars
=============================================================================
