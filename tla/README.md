# RAGFlow and MinerU Tianshu: a TLA+ development

This directory specifies, model-checks and partly proves the parts of this
repository in which several processes, threads or coroutines share state: how a
document becomes tasks, how tasks travel through Redis to the executors, how they
are run, retried, cancelled and acknowledged; the stores that tasks and requests
write together (chunks, the knowledge graph of a dataset, an agent's memory, the
replica of a canvas, the log of a data source, the containers of the sandbox);
the locks among them; and the calls that must come to an end with one right answer
(a canvas in execution, a chat model with tools, an MCP session, the MinerU task
service).

Paths without a prefix are relative to `src/ragflow/`.

## 1. Inventory

### Components

| component | state it keeps | operations | talks to |
|---|---|---|---|
| API servers (`api/apps/document_app.py`, `api/apps/sdk/doc.py`, `FileService.delete_docs`) | none; a request holds what it has read | run, cancel, SDK parse / stop / delete, rm | MySQL, Redis, document store, one statement at a time |
| Document rows (`DocumentService`) | `run`, `progress`, `chunk_num` | `begin2parse`, `update_by_id`, `increment_chunk_num`, `delete_document_and_update_kb_counts` | `Knowledgebase.chunk_num` in a second statement |
| Task rows (`TaskService`) | `progress`, `retry_count`, `chunk_ids` | `get_task`, `update_progress`, `update_chunk_ids`, `filter_delete`, `queue_tasks` with reuse of earlier chunks | |
| Split and reuse (`queue_tasks`, `reuse_prev_task_chunks`, `change_parser`, `update_doc`, `rag/app/table.py`) | configuration and content of a document, `digest` and `chunk_ids` of its tasks | split by pages or rows, reuse by digest, deletion of old chunks by ids | task rows, document store |
| Queue (`rag/utils/redis_conn.py`) | a stream per priority, one consumer group, a pending entries list per consumer | `queue_product`, `queue_consumer`, `get_unacked_iterator`, `RedisMsg.ack` | |
| Cancel flags (`cancel_all_task_of`, `has_canceled`) | key `<task id>-cancel`, one hour | set, read | set by requests, read by executors |
| Executors (`rag/svr/task_executor.py`) | `UNACKED_ITERATOR`, coroutines, `CURRENT_TASKS` | `collect`, `do_handle_task`, `handle_task`, `report_status` | everything above; restarted by `docker/entrypoint.sh` |
| Progress threads (`api/ragflow_server.py`) | a lock value | `update_progress` every six seconds, one server at a time | `_sync_progress`, which executors also call after each task |
| Lock (`RedisDistributedLock`) | a key with a time to live | `acquire`, `spin_acquire`, `release` | progress threads, heartbeat, GraphRAG, canvas replicas, OceanBase DDL |
| Document store (Elasticsearch, Infinity, OceanBase) | chunks | insert by batch, delete by document or by chunk ids | external; modelled from how it is used |
| Dataset graph (`rag/graphrag/general/index.py`, `rag/graphrag/utils.py`, `api/apps/services/dataset_api_service.py`) | rows `graph` and `subgraph`, `graphrag_task_id` of the dataset | `run_graphrag`, `delete_knowledge_graph`, `run_graphrag_for_kb`, `merge_subgraph`, `set_graph`, `rebuild_graph`, `unbind_task`, removal of a document | executors, requests, document store |
| Data sources (`rag/svr/sync_data_source.py`, `connector_service.py`) | connectors, their links, `SyncLogs` | `dispatch_tasks`, a run per dataset, link, unlink, pause, resume, rebuild | one process of its own, requests, the source |
| Canvas replica (`canvas_replica_service.py`) | per user, an agent's DSL in Redis beside the row | `bootstrap`, `replace_for_set`, `load_for_run`, `commit_after_run` | requests, runs |
| Agent canvas (`agent/canvas.py`, `agent/component/*`) | `path`, the outputs of the components | `run`, `_run_batch`, iterations, loops, error branches | sessions, cancel flags |
| Memory (`memory_message_service.py`) | messages, a sequence and a cached size in Redis | save a raw message, extract, evict, forget, delete | requests, executors, a starting server |
| Chat models (`rag/llm/chat_model.py`) | the history of a call | `async_chat`, streams, rounds of tools, retries | model endpoints |
| MCP sessions (`common/mcp_tool_call_conn.py`) | a loop on its own thread, a request queue | `tool_call`, `get_tools`, `close` | MCP servers |
| Sandbox (`agent/sandbox/executor_manager`) | a queue of containers and a semaphore per language, one lock | allocate, run, release, recreate | docker |
| MinerU task service (`src/MinerU/projects/mineru_tianshu`) | rows of an SQLite table, files | submit, claim, parse, complete, fail, reset as stale, cancel, clean up | workers, a scheduler, the API |
| Others, not modelled | | heartbeat registry, secret key, token bucket, file manager, uploads and the flowchart companion, dataflow, connection pool, parsers, retrieval, UI, SDK, admin, Go server, MCP server | see section 7 |

### What is hard in it

* **No transaction spans the stores.** A request is a sequence of statements
  against MySQL, Redis and the document store; other requests, executors and
  progress threads run between any two of them, and a request may die there.
* **At-least-once delivery.** Messages stay in the consumer's pending list until
  they are acknowledged; a process that comes back reads its list again, once per
  life. A lost answer of `XADD`, `XREADGROUP` or `XACK` each does something else.
  Every kind of task, also the memory's and the dataset graph's, may be run twice.
* **Cancellation is a flag that is polled.** A task looks at it at fixed points;
  what it has stored between two looks is undone by a `finally` block that asks
  the flag once more. The flag expires.
* **Progress is copied.** `_sync_progress` reads tasks, reads the document, and
  writes a verdict that may be old by then.
* **Rows are reused.** A re-run takes the chunks of finished tasks over, by what
  the rows say of the document store.
* **Locks with a time to live**, released twice by their main user; a lock whose
  value is the same for everybody; a store that one writer locks and another does
  not.
* **Delete, then insert.** `set_graph` removes the graph and all its subgraphs
  before it writes them anew, in bulks, and may die in between.
* **Polling by time.** A data source changes while it is read, and the next poll
  begins where this one says it has been.
* **Loops over appended work.** A canvas ends a turn when nothing is appended to
  its path any more: iterations, loops, error branches and questions all append.
* **Answers that come late.** A thread gives up waiting and its call goes on; a
  worker is declared stale and answers all the same.

`PROJECT.json` lists the hazards one by one, at their lines, with the properties
that watch them.

### What makes each part correct

* queue: a message is in one hand at a time; nothing delivered is forgotten by the
  process that holds it; a task that `get_task` fetches is started at most
  `MaxAttempts` times; every queued task is settled.
* document: nothing of a removed or stopped document stays in the store; a
  cancellation is not taken back by a late write; rows that say "finished, with
  chunks" tell the truth; a document does not stay RUNNING.
* split and reuse: every page and row is in the tasks that should have it, and no
  other; when all tasks are done the store has what was asked for, and nothing of
  an earlier configuration, content or failed try.
* lock: a holder within its time owns the key; holders exclude each other.
* dataset graph: it can be rebuilt wherever a task dies; a document is merged
  once; a removed one does not come back; a task that is done has merged what it
  built.
* data source: what will not be polled again is up to date; a connector nobody
  meddled with is scheduled or at work; changes arrive.
* replica: a user's next run uses nothing older than what that user saved last, edits
  during its own runs apart.
* canvas: a component that is held back runs when what it reads has been made; an iteration hands on
  one result per item, in order; a turn ends.
* memory: no message replaces another; a task that says it is done has stored what
  it extracted.
* chat: every tool call is followed by its result; a stream closes once, and says
  at most one error.
* MCP session: a caller gets its own answer or none; everyone returns; after
  `close` nothing starts.
* sandbox: a container has one user; "busy" is answered only when containers are
  lost.
* MinerU tasks: one worker at a task, except after it was declared stale; only its
  owner decides it; nothing but a cancellation replaces an end; every task ends.

## 2. Modules

| module | what it is | runs |
|---|---|---|
| `TaskLifecycle` | abstract: what the queue promises about a task (absent, pending, running, settled; bounded starts) | as `KeepsLifecycle` |
| `TaskQueue` | Redis streams, consumer group, `get_task`, `collect`, `handle_task`, deaths and failed calls | `queue`, `queue_duplicate` |
| `DocumentParse` | one document under requests, executors and progress threads; the queue in it is `TaskLifecycle` | `doc_*` |
| `TaskSplit` | page and row split, digests, reuse and deletion of chunks, changes of configuration and content between parses | `stores` |
| `RedisLock` | `RedisDistributedLock` and its users | `stores` |
| `SandboxPool` | containers, queues, semaphores and the lock of `executor_manager` | `stores` |
| `GraphMerge` | the knowledge graph of a dataset, the requests for it and the tasks that merge into it | `stores` |
| `ConnectorSync` | a connector, its datasets, the other connectors linked to them, its log rows and their runs | `stores` |
| `CanvasReplica` | an agent's DSL in the database and, per user, in Redis | `stores` |
| `MemoryStore` | an agent's memory: raw messages, extracts, ids, size | `stores`, `memory_limit` |
| `CanvasRun` | `Canvas.run` on a graph of components | `calls` |
| `LLMChat` | one call of a chat model, with retries, tools and streams | `calls` |
| `McpSession` | callers, their coroutines, the server task and `close` | `calls` |
| `Tianshu` | the MinerU task table, its workers, scheduler and API | `calls`, `tianshu_cancel` |
| `MCTaskQueue`, `MCDocumentParse`, `MCTianshu` | symmetry sets and constants for TLC | |
| `MCStores` | `RedisLock`, `SandboxPool`, `GraphMerge`, `ConnectorSync`, `CanvasReplica`, `MemoryStore`, `TaskSplit`, side by side | `stores` |
| `MCCalls` | `CanvasRun`, `LLMChat`, `McpSession`, `Tianshu`, side by side | `calls` |
| `TaskQueueProofs`, `DocumentParseProofs`, `LockProofs` (lock, replica and sandbox), `TaskSplitProofs`, `CanvasProofs`, `StoresProofs` (graph, memory, data sources, and `MCStores` as a whole), `CallsProofs` (chat, MCP, Tianshu, and `MCCalls` as a whole) | theorems | |
| `Recursion` | lemmas on induction and recursion over natural numbers | |

`TaskLifecycle` joins the two big modules: `TaskQueue` is shown, by TLC and by
proof, to implement it (`KeepsLifecycle`, with `statusOf` as the refinement
mapping), and `DocumentParse` uses its actions instead of streams and pending
lists.

The parts in `MCStores` and in `MCCalls` share no state with each other in the
code. A variable `part`, chosen in the initial state, says which of them moves;
the others stay in one initial state. A run of a composite is therefore the union
of the runs of its parts, under one configuration; it shows no interaction
between them, and none is claimed. That every behaviour of a composite is one of each
part is proved (`StoresAreParts`, `CallsAreParts`). Where parts do interact (queue and document)
the models are joined by refinement.

Definitions called "Mutant: ..." in comments are what a plausible bug would make of
the definition that follows them. No specification uses them; a run with one in
place of the original fails, which shows that the run's property depends on that
piece of code.

Variables called "history" are read by no guard of the code. They name situations
the code does not protect against (`met`, `torn`, `meddled`, `doubled`, `overlap`, ...), so
that a property can say exactly outside of which it holds.

### TaskQueue and the code

`log`, `delivered`, `pel` are Redis' own state: entries, `last-delivered-id` and
pending lists. A message is its stream and position. `row` and `retryCount` are
the task table. `pub` and `sends` follow the three tries of `queue_product`. An
executor is `up`, has a `backlog` (the generator `UNACKED_ITERATOR`, as its queue
and `current_min`), a position `polled` in the loop over the queues, and per
coroutine `pc`, `msg`, `seen`.

| code | actions |
|---|---|
| `queue_tasks`, `queue_product` | `InsertRow`, `Publish`, `PublishFault` |
| `filter_delete`, `cancel_all_task_of`, expiry | `DeleteRow`, `SetCancel`, `ExpireCancel` |
| `next(UNACKED_ITERATOR)` | `RecoverMessage`, `RecoverNextQueue`, `RecoverFault` |
| `queue_consumer` of new messages | `PollMessage`, `PollMiss`, `PollFault` |
| `get_task` (SELECT, then UPDATE) | `SelectTask`, `CountAttempt`, `GetTaskFault` |
| `collect`, tasks that are not asked of `get_task` | `FetchUncounted` |
| `has_canceled`, end of `collect` | `StartRun`, `SkipCancelled` |
| `do_handle_task` as a whole | `FinishRun` |
| `RedisMsg.ack` | `Ack`, `AckFault` |
| death, `task_exe` loop | `Crash`, `Restart` |

`collect` contains no `await`. A coroutine inside it holds the event loop of its
process, which the guard `HasLoop` says; between its Redis commands and SQL
statements other processes move freely, which is why it is not one action.
`attempts` is a history variable; `faults` and `crashes` count against `MaxMishaps`. A call of
`XADD` may fail in two ways, without effect ("xadd") or with its reply lost ("reply").

`Memories` are tasks of a memory, which `collect` fetches with `get_by_id`, `Debugs`
pipelines that are tried out, whose message is the task (`task_executor.py`, lines 206 to
217). Neither is counted, given up, or found by the requests that delete a document's
rows. A memory's task is never flagged either: the flag is set for the tasks of a document,
and by id for those of a dataset and of a pipeline. In the runs there is a memory's task and
no pipeline.

### DocumentParse and the code

A request is a *script*: the sequence of statements its handler makes, in order
(`RunSteps`, `CancelSteps`, `ParseSteps`, ...). The head of `req[c].rest` is the
statement that comes next, and there is one action per statement, with the
handler's early returns as `Refuse`. What a request has read (`saw`, `reuse`,
`drop`, `todo`) is kept with it, so that it can be stale. `Abort` ends a request
anywhere.

An executor's task is a program counter through `do_handle_task`: `Collect`,
`Build` (chunking and embedding, outside of the `try`), `CheckBeforeInsert`,
`InsertChunks`, `CheckAfterInsert`, `CheckBeforeCount`, `CountDoc`, `CountKb`,
`CheckBeforeDone`, `TaskDone`, `Finally`, `Wipe`, then `_sync_progress` as the
end of `record_pipeline_operation`, then `Ack`. Each check reads the cancel flag
where the code does.

`_sync_progress` is three steps, `SyncTasks`, `SyncDoc`, `SyncWrite`, for the
progress thread (on what `Selected`, that is `get_unfinished_docs`, selects) and
for executors alike.

Abstractions: one document; a page range stands for its tasks' chunks, which are
one chunk, counted as 1 (chunk ids are hashes of content, so two tasks of the same
range produce the same ids); progress is -1, 0, 1 (between) or 2 (1.0);
configuration does not change between runs, so digests agree; batches of an
insertion are one. A cancel check followed by a progress write is one action: the
flag is only set and expired by others, who do not look at progress.

### TaskSplit and the code

The module begins where `DocumentParse` takes its page ranges as given. A file has
pages, or sheets with header and data rows; a configuration has a method, page
ranges, a page size and `toc_extraction`. `ParseTasks` is what `queue_tasks` splits a
document into, `RowsBefore` the counter `rn` with which `rag/app/table.py` finds its
rows, which is not how the server has counted them. A digest is the tuple that is
hashed. A chunk is a page or row with the configuration and the content it was
made from.

| code | actions |
|---|---|
| `run` without and with delete, SDK parse | `Keep`, `Redo` |
| `change_parser` | `ChangeParser` |
| `update_doc` with a `chunk_method`, with a `parser_config` | `SetChunkMethod`, `EditConfig` |
| `upload_document` under an id that exists | `Replace` |
| `do_handle_task` to its end | `Finish` |
| the same, broken off in `insert_chunks` | `BreakOff` |

A request and a task are one step each: their statements interleave in
`DocumentParse`, and what is of interest here is a sequence of several parses with
changes between them. Three history variables name what the properties leave out:
`disturbed` (the configuration or content changed while tasks were at work), `wiped`
(a change deleted the chunks under tasks that still name them) and `unnamed` (a
chunk was stored that no task names). `Fits` gives the table method to workbooks only,
as its chunker raises on a PDF.

### RedisLock and the code

`acquire` and `spin_acquire` are `Clear` (compare and delete of an own old key)
followed by `Acquire` (`SET NX PX`) or `GiveUp`; `release` is the Lua script.
`Clear` is also allowed to a holder, as `run_graphrag` acquires once more in each
phase, and `Release` to one who has nothing, as `update_progress` does. `late` are
the holders whose key has expired, an observation.

### SandboxPool and the code

`queue` is `_CONTAINER_QUEUES`, `lockedBy` the one `_CONTAINER_LOCK`, and
`Admitted` counts who is inside `_CONTAINER_EXECUTION_SEMAPHORES`. A coroutine is
at `allocate` and `again` (the two looks at the queue), `check` (waiting for the
lock with a container), `inspect` and `recreate` (under the lock), `run`, `release`,
`inspectBack`, `recreateBack` (when a container is given back). At `run` it may fail
before its `try`, and then keeps the container from the pool (`LeaveWithIt`). Each await, that is each docker command, is a
place where others run. What the code in the container does is one step.

### GraphMerge and the code

The rows of the graph are `removed_kwd` and `graph_copies` (how often `source_id`
lists a document), those of the subgraphs `subgraph_rows`. A task is at `build`
(`generate_subgraph` per document that `does_graph_contains` does not find),
`merge` (`get_graph` or `rebuild_graph`, `graph_merge`), `delete`, `insert`,
`rest` (the statements of `set_graph`: the first bulk carries the graph), `done`,
`failed` or `dead`; `Redeliver` is the queue. `RemoveDocument`, `Unbind`
(`delete_kb_task`) and `DeleteGraph` (`delete_knowledge_graph`) are requests. The merge's
lock has the constant value `batch_merge`: its acquire deletes whoever holds it, so it
keeps nobody out and is left out. What keeps tasks apart is `run_graphrag`
(`dataset_api_service.py`; the handler of the same name in `kb_app.py` is a string that
is not executed): it looks at the dataset's task (`AskMerge`), and queues and binds a new
one by later statements (`StartMerge`), so two requests may both pass. It also passes when
that task has no row: the row has the id of the dataset's first document, so a re-parse of
that document deletes it (`DropRow`). A task that starts while another works is one of the
bounded `faults`. Entities, relations, resolution and communities are data
along the same steps.

### ConnectorSync and the code

`log[k]` is the newest row of `SyncLogs` for dataset `k`. `list_sync_tasks` joins
`Connector2Kb` by dataset alone and selects distinct rows with `auto_parse`, so it names a
row once for each setting that any connector of the dataset has (`Listings`; `others` are
the settings of the other connectors, `LinkOthers` changes them). A run in `sync` is a
row with the setting it was listed under (`Runs`), with its copy of the row (`mine`: the
row is still the newest), `modified` the source,
`holder` and `version` the documents made from it. `DispatchTasks` lists due rows,
`StartSync` polls, `StoreBatch` stores, `SyncDone` and `Reschedule` close the row
and put in the next one. Batches hold one object; times at the source differ (with
equal times the poll's `start < modified` would lose one); older rows are left
out. `mishaps` counts failed batches, failed runs and deaths, after which the code
promises nothing: a failed batch is skipped for good. `doubled` says that a row was run
twice at a time. Of the other connectors nothing else is modelled: they have rows of their
own.

### CanvasReplica and the code

A DSL is the version of the graph that was saved last into it. Key and lock of a
replica name the user, so there is one of each per user, and a request works on that of
its own (`UserOf`). `/set` is `SaveRow` and `replace_for_set` under the lock, `/get` is
`ReadRow`, `Look`, `Create`, `/completion` is `Load`, the run, `Commit`; the SDK's
`update_agent` is `UpdateRow`, which writes the row and no replica. `commit_after_run`
takes no lock: `overlap` records that a request that carries a DSL met a `/set` of the
same user, which is when an edit can be lost. `mine` is what a user saved last. The key
also holds a tenant, which is the user; a completion for another `user_id` finds no
replica, and is refused.

### MemoryStore and the code

A save is `Number` (the ids, `generate_auto_increment_id`, with its first use as
`NumberFirst`), `MakeRoom` (eviction), `Insert`, `Count` (the cached size). Raw
messages are saved by the request (`AddTurn`), extracts by an executor (`Extract`),
which dies and runs again. A server that starts does `InitSequence`, `SetSequence`,
`InitSize`. A message has size 1. `RedisLoses` empties Redis.

### CanvasRun and the code

A canvas is a record of functions over its components: `kind`, `down`, `parent`,
`goto` (the exception branch), `reads` (whose outputs its inputs come from),
`collects` (what an iteration takes its result from). `_run_batch` holds back what has input
elements with a `_cpn_id`, that is components that take references out of a text:
messages, agents, categorizers and string transformers (`HeldBack`). Switches, iterations,
loops, list and data operations and variables are started at once. Inputs are read when
the batch is made (`get_input`), and again while a component runs (`TaskReads`), but a
tool has them from the first reading only. What finds no value may raise (`TaskRaises`), and
an iteration without an array does (`NoArray`). `StartBatch` is `_run_batch`
over what was appended to `path`, `EndTask` the end of one component, `EndBatch` the
appending of what comes next, `EndTurn` the end of `run`. A component's output is
one of the values it has read, or 1 if it has read none, so that what was read is
visible in it. An iteration, a loop's item and an exit from a loop make no output of
their own (`Silent`); an iteration's comes with the first result that its item collects.
An iteration has at least one item: over an empty array it would hand on nothing.
The path of a batch, and what comes after it, are made by going through the batch
(`Walk`) as the code's loops do. Default
values of an exception and the streams of a message are not in the model. `IsCanvas` is
what `Graph.load` reads. The seven canvases of the run are in `MCCalls`.

### LLMChat and the code

`call` chooses among the eight ways in: `Base` or `LiteLLMBase`, streamed or not,
with tools or not. `history` is `hist`, `answer` what was yielded or collected,
`attempt`, `round` and `inner` the loops. The endpoint answers with text, tools or
nothing, and fails at any point of a response, with an error that is retried or
one that is not. A retry starts from a copy of the history, and keeps what was
yielded.

### McpSession and the code

A call is a thread (`caller`), a coroutine on the session's loop (`routine`) and a
queue for its result (`results`). `serverTask` is `_mcp_server_loop`: it takes one
request at a time (`atWork`) and waits for the server, which may never answer.
`Close` looks at `_close` from another thread, `SetClose` sets it, so that two closers
may both go on, `Drain` answers what is left
in the queue with a CancelledError and then tells the loop to stop, `Join` waits for
the loop's thread. `wrong` is an answer that belongs to another call; no state has it.

### Tianshu and the code

`status`, `worker_id`, `retry_count`, `stale` (the age of `started_at`) and
`result_path` are columns; `input` and `output` files. A worker is at `parse`,
`complete`, `unlink` or `unlinkFail` (its `finally`), `fail`. `Claim` is the
transaction of `get_next_task`, `Owns` the WHERE clause of `update_task_status`.
`CancelReads`, `CancelWrites`, `CancelUnlinks` are the statements of `cancel_task`; the
second has no condition on what the first has read.
Workers run their own loop; the mode in which the scheduler calls `predict` is not
modelled.

## 3. Runs

| run | expects | properties | instance | distinct states |
|---|---|---|---|---|
| `queue` | pass | `TypeOK`, `NoStranding`, `AttemptsBounded`, `ExclusiveDelivery`, `KeepsLifecycle`, `EverySettles` | a document's task and a memory's, 1 executor with 2 coroutines, 2 queues, 2 attempts, 2 mishaps (deaths or failed calls of any kind but a lost reply of `XADD`), fair | 270 thousand |
| `queue_duplicate` | violation | `AttemptsBounded` | 3 attempts as in the code, one lost answer of `XADD` | |
| `doc_leftovers` | pass | `TypeOK`, `NoLeftovers`, `RunningEnds` | any 3 of run, SDK parse, stop, remove; tasks that store or raise; fair | 642 thousand |
| `doc_cancel` | pass | `CancelHolds` | 2 clients, any 2 of 8 requests, 1 dying request, 1 death, expiring flags | 265 thousand |
| `doc_reuse` | pass | `FinishedIsStored` | 2 page ranges, 2 runs, 1 dying request | 3 million |
| `doc_removed` | violation | `RemovalCancels` | run, then rm | |
| `doc_reused` | violation | `ReuseIsValid` | 2 page ranges, run, cancel, run | |
| `doc_forgotten` | violation | `RunningIsWatched` | 1 run, 1 page range, 1 progress thread | |
| `stores` | pass | pool: `OneUserPerContainer`, `BusyMeansLost`; graph: `GraphIsRebuildable`, `MergedOnce`, `RemovedStaysOut`, `DoneIsMerged`; sources: `NothingIsMissed`, `NeverStuck`, `ChangesArrive`; replica: `ReplicaHasOwnSave`; memory: `NothingOverwritten`, `ExtractedIsStored`; lock: `MutualExclusion`; split: `EachUnitOnce`, `DoneIsStored`; `StoresTypeOK` | see below, fair | 591 thousand |
| `calls` | pass | canvas: `ReadsAreReady`, `EachItemOnce`, `TurnEnds`; chat: `HistoryIsPaired`, `StreamIsClosed`; MCP: `OwnAnswer`, `ClosedIsQuiet`, `AllReturn`; MinerU: `OneAttemptAtATime`, `OnlyTheOwnerDecides`, `OnlyCancelReplacesEnd`, `EveryJobEnds`; `CallsTypeOK` | see below, fair | 357 thousand |
| `tianshu_cancel` | violation | `OnlyPendingIsCancelled` | 2 jobs, 2 workers | |
| `memory_limit` | violation | `MemoryWithinLimit` | 1 turn, its raw message and its extract, a limit of 1 | |

### Why the bounds are enough

* **Two coroutines.** Everything in `TaskQueue` is between two hands, and the
  proofs have no such bound. Two queues are what `get_svr_queue_names` returns.
  The runs have one executor; that several exclude each other is proved.
* **Deaths and failed calls.** Two deaths against two attempts make three deliveries of one
  message: the last is refused. The third life of a process also meets messages
  of two earlier ones. Two failed calls hit the same message twice (for instance a lost
  `XREADGROUP` answer and then a lost `XACK`), and a failure and a death meet in either
  order. `queue_duplicate` needs one lost reply and two deaths.
* **Requests.** Two concurrent requests in `doc_cancel`, three in sequence in
  `doc_leftovers`. `MaxRuns` bounds how often a document is queued; `Request`
  refuses a start beyond it, so that a request in progress is never stuck.
* **One page range** is enough where ranges do not interact; `doc_reuse` and
  `doc_reused`, where a cancelled task and a finished one meet, have two.
* **Split**: PDFs of no and of three pages under ranges that overlap, are given twice,
  start before the first page or end after the last; page sizes below and
  above the number of pages; sheets without data and sheets with more rows than a task
  takes (three, for 3000), so that the counter goes on over a sheet after its task is
  full. Three requests are a parse, a change and another parse; a task that breaks off
  leaves any first part of its chunks, and names any first part of those.
* **Sandbox**: two containers of one language and one of another under three
  coroutines: the lock is contended across languages, a queue can run empty, and
  two failures lose every container of a language.
* **Graph**: two documents, so that a merge has something to keep, two tasks, so
  that one is run after another (or beside it, which is a fault), and two faults: a
  death and a failure of the task that is run again, or a death and a removal.
* **Sources**: two datasets of one connector, so that one ends last; two objects, a
  change during the poll, two requests, one mishap. Two requests link the connector and
  another one to a dataset, which doubles its row.
* **Replica**: three requests at a time of two users, two saves, one expiry.
* **Memory**: two turns and a limit of one message, so that every save evicts; one
  extract per turn; one death, restart or loss.
* **Lock**: four users with values of their own.
* **Canvases**: each has what makes one of the rules interesting (a join of two
  ways of different length, entered in either order, an iteration of two items over a chain, a loop left by
  its count, its condition or an exit, an error branch that asks the user, components that are
  not held back before what they read, an iteration whose array a switch has passed over), two
  turns, and an error in any component. `MaxPath` is past what any of them reaches,
  so it cuts nothing off.
* **Chat**: one retry, one round, up to two tool calls per response: a batch with an
  order, and a retry in each place.
* **MCP**: two callers, two closers, one broken connection.
* **MinerU tasks**: two jobs of different priority, two workers, one trouble.

The document runs, `stores` and `calls` switch deadlock checking off: when the
bounded requests are used up and everything has ended there is nothing to do, as
in the program. The queue runs for ever and is checked for deadlock.

### What the violations say

* `queue_duplicate`: `queue_product` repeats an `XADD` whose answer was lost. With
  two copies of a task in the streams two coroutines run it, and `get_task`, which
  reads `retry_count` and writes the value it read plus one, loses counts. "Task is
  abandoned after 3 times attempts." does not hold.
* `doc_removed`: `FileService.delete_docs` deletes the task rows before
  `remove_document`, which then finds no task to cancel. The executor works to
  the end on a document that is gone and stores its chunks.
* `doc_reused`: the clean-up of a cancelled task deletes all chunks of the
  document, also those of ranges already finished; their rows keep `chunk_ids`,
  and the next run without delete reuses chunks that are gone.
* `doc_forgotten`: a progress write computed when the tasks had no progress and
  made after they finished sets `run` to RUNNING while `progress` stays 1;
  `get_unfinished_docs` does not select such a document again.
* `tianshu_cancel`: `cancel_task` is for pending jobs only (`api_server.py`, line 611, and
  line 356 of the service's README), looks at the status and then writes without looking:
  a job that is being processed, or is completed, becomes cancelled.
* `memory_limit`: `embed_and_save` (`memory_message_service.py`, line 198) asks for
  the cached size with its two arguments swapped against the definition (line 282),
  so it reads a key nobody writes and compares 0 with the limit. One turn, saved
  raw and then as its extract, is past a limit of one message.

`NoLeftovers` is checked for the SDK's stop and remove, which set flags before they
delete chunks. It leaves out what `orphaned` names: a request that deleted the row of
a task that may still store chunks, without a flag for it. `rm` does so
(`doc_removed`), and so may a sequence of SDK requests: parse; a late DONE verdict
of the run before lets a second parse through while the task works, and
that parse deletes the task's row without a flag; a stop then finds only the new
row to flag, deletes the chunks, and the first task stores its own after that.
`RunningEnds` excludes exactly the state `doc_forgotten` reaches, and nothing else.

### Two more disagreements of TaskSplit

`DoneIsStored` is violated when its conditions `~wiped` and `~unnamed` are taken away
(by `update_doc` within the three requests of the run, by `change_parser` with
`MaxDocRequests = 4`); the code then does what its comments deny.

* `change_parser` deletes the chunks of a document (`document_app.py`, line 791) and
  keeps its task rows. After a change and a change back the digests agree, and the
  next run without delete, which is what the dialog offers when `chunk_num` is 0,
  reuses all tasks: the document is done with no chunk in the store. "The previous
  task has valid chunk IDs" (`task_service.py`, line 481) does not hold. An
  `update_doc` with the `chunk_method` the document already has does the same, and
  leaves the document as done (`api/apps/sdk/doc.py`, line 322).
* The table of contents is stored by a second call of `insert_chunks`
  (`task_executor.py`, line 1212), which writes its one id over the `chunk_ids` of
  the task, "the IDs of processed document chunks" (`task_service.py`, line 214).
  The next parse deletes, or reuses, the table alone.

### Three more, of the composed parts

As in TaskSplit, each is what a condition of a checked property keeps out; with the
condition taken away, the run finds it.

* `NeverStuck` and `ChangesArrive` without `doubled`. With a second connector on the
  dataset whose `auto_parse` differs, the join of `list_sync_tasks`
  (`connector_service.py`, lines 113 to 116) lists a row twice and `dispatch_tasks` runs
  it twice. The twin that ends first puts in the row for the next run; the other sets the
  connector to DONE (line 148), and `schedule` finds that row, says "has already had a scheduling
  sync task which is abnormal" (line 163) and returns before it sets SCHEDULE. The connector is
  not polled any more, though nobody touched it and nothing failed.
* `ReplicaHasOwnSave` with `dsl`, the row, in place of `mine[u]`. `bootstrap`,
  "initialize/refresh replica from DB DSL" (`canvas_replica_service.py`, line 31; line 149
  says otherwise), initializes only. After the SDK, or another user, has saved the row, a
  user's `/get` shows the new DSL and that user's next run takes the old one.
* `OneAttemptAtATime` without its exception. Several workers at one job "should not happen" (lines
  469 to 473 of the service's README), but a job that takes longer than the timeout is put
  back (`task_db.py`, line 400) and handed to a second worker beside the first. The property
  says that a reset is the only way there.

### What the code does not promise

These behaviours came up while modelling. No text of the repository says
otherwise, so they are history variables and conditions of the properties, not
findings.

* A change of method or configuration while tasks are at work (`disturbed`): their
  chunks are made under a configuration that is not the one in their digest.
* A batch that was stored and not yet named when its task breaks off is found by no
  later deletion by ids (`unnamed`).
* A second task may merge into a dataset's graph beside a first one (`met`): after
  `unbind_task`, when two requests look at the dataset's task before either binds a new one,
  or when a re-parse has deleted the task's row. The merge lock does not keep it out.
  `delete_knowledge_graph` deletes rows under a merge.
* An executor that dies between the two inserts of `set_graph` leaves a graph whose
  subgraphs are gone (`torn`).
* A document of which only the subgraph was written keeps it when it is removed, and
  a later rebuild brings it back (`loose`).
* Pause, resume, rebuild or a new link during a run may leave a connector as DONE
  with nothing scheduled (`meddled`).
* An edit saved while a run of the same user is under way is overwritten in the replica by
  the run's commit (`overlap`).
* A `/set` refreshes the replica of the user who saves, and the SDK's save none: the
  others' replicas stay as they are until they expire. `ReplicaHasOwnSave` is about a user's
  own saves.
* Memory tasks and pipelines that are tried out are started as often as they are
  delivered: one that kills its executor is started in every life of it.
* A request that deletes the row of a task that is still at work hides it from the
  requests after it (`orphaned`).
* What is not held back (`HeldBack`) may run before what it reads has been made
  (`MCEarly`). `ReadsAreReady` is about the others, beside which these run.
* `_run_batch` looks for what a component reads in `path[:i]`, which holds the
  batch-mates before it, and reads all inputs before any of them runs. A component
  that stands behind what it reads in one batch (`MCMates`, the order of two
  downstream links) starts and reads None; in the other order it is dropped and
  comes again when its input is made (`MCJoin`). `ReadsAreReady` says that this is
  the only way to read None, with the exception that follows.
* An iteration is in `path` once it has begun, and its result is there only after its
  rounds. A component on a branch beside the iteration that reads its result finds the
  iteration in `path[:i]` (`canvas.py:465`), starts, and reads None. On the canvas
  with links from begin to the iteration and to `x`, and from `x` to a component that reads both,
  `ReadsAreReady` is violated. `ReadsFollow` names the canvases on which what reads the
  result comes after the iteration; the checked ones are such (`CanvasesFollow`, an
  assumption of `MCCalls` that TLC evaluates).
* In the second turn of a session `path` already holds every component, so a
  component may start before what it reads from has run in this turn.
* Two branches of different length inside an iteration each append the iteration's
  item, and a round is run twice (`canvas.py:603`). A question to the user inside an iteration ends the turn; the
  next one resets the item's index and the results collected so far and goes on inside the
  iteration, whose first items are then gone through again. `ItemsGoOneWay` names the canvases
  on which `EachItemOnce` is checked and proved: the inside of an iteration is a chain of
  ordinary components, outside of it links lead onwards. `CanvasesFollow` holds them to it.
* When Redis loses its data the sequence of message ids starts again from the greatest
  stored id, while ids above it may be in an executor's hands.

## 4. Fairness

`TaskQueue`: strong fairness of every coroutine's step, weak fairness of
`Restart`. The event loop of asyncio runs its ready queue first in, first out, and
a coroutine inside `collect` disables the others only for as long as it takes;
strong fairness is what "every coroutine gets its turn" means when others disable
it now and then. `Restart` is the endless loop of `task_exe`. `Publish`, faults
and deaths are not fair: nobody has to ask for anything, nothing has to fail.
`FinishRun` is part of the step: `do_handle_task` runs under `@timeout`.

`DocumentParse`: weak fairness of each request's next statement, of each task's
step and of each progress thread. A pending task is eventually collected, which
is what `EverySettles` of `TaskQueue` establishes when no call strands a message.

`ConnectorSync`: weak fairness of the steps of the runs, of which the event loop always takes
some, and strong fairness of a dispatch that takes a given dataset: the process lists due rows again and again, waits for
all it started, and a row that stays due is taken some time. The source and the
requests are not fair.

`CanvasRun`: weak fairness of the coroutine (`RunOn`), as components have
timeouts. The user is not fair.

`McpSession`: weak fairness of what the session's own threads do next (`LoopStops`,
`Submit`, `TimesOut`, `Drain`, `Join`). Nothing is assumed of the MCP server, which
may never answer, nor of the coroutines on a loop that was stopped.

`Tianshu`: weak fairness of every worker's loop and of the scheduler's
`reset_stale_tasks`, and that time passes (`BecomesStale`). Deaths are not fair.

`TaskSplit`, `LLMChat`, `SandboxPool`, `GraphMerge`, `MemoryStore`, `CanvasReplica` and
`RedisLock` are checked for safety only.

## 5. Proofs

Every theorem is for all values of the constants, under the named assumptions on
them in the modules that declare them. The structure is the same throughout: a
type invariant, a strengthening that is inductive, one lemma per action or group of
actions, and a last step that combines them.

### The queue (`TaskQueueProofs`)

* `TypeCorrect`, `Exclusive`, `NothingStranded`: `[]TypeOK`, `[]ExclusiveDelivery`,
  `[]NoStranding`, from `QueueAssumption` alone.
* `Attempts`: `[]AttemptsBounded`, and `Implements`: `Spec => KeepsLifecycle`, that is
  the queue refines `TaskLifecycle`, both if `"reply" \notin FaultKinds`, without
  which the first is false (`queue_duplicate`). Both bound the starts of what `get_task`
  fetches (`Tasks \ Uncounted`); that one coroutine at a time runs a task and that nothing
  follows a settlement holds of every task.

Exclusive delivery alone is not inductive: it says nothing about where a message
can still come from. The strengthening relates the three places a message can be:
entries past `delivered` are in no pending list; a pending list holds only
delivered entries and no entry is in two of them; a message in a coroutine's hand
is in the pending list of its process and has been passed by its backlog iterator.
Then what the iterator yields next, or what `XREADGROUP >` delivers next, cannot be
in any hand. `NoStranding` adds that, while nothing failed, whatever the iterator
has passed and the pending list still holds is in a hand.

`Attempts` counts: as long as each task has at most one entry, at most one
coroutine is between the SELECT and the run of it, and the number of starts is
bounded by `retryCount`, by `seen` of that coroutine before the UPDATE, and by
`MaxAttempts`.

`Implements` reads a task's status off its messages, the pending lists and the
coroutines. Under the two invariants a task has one message and one holder, so a
coroutine that holds it and does not run it makes it pending, one that runs it
makes it running, and an acknowledgement settles it. Each action then moves one
task along `TaskLifecycle`, or, when a process dies, those it ran; the rest are
stutters. That a start is below the bound is the part of the invariant about
`fetched`.

### The document (`DocumentParseProofs`)

* `ParseTypes`: `[]TypeOK`, which includes that a task has a program counter in an
  executor exactly while the queue calls it running.
* `CancelStays`: `Spec => CancelHolds`.

These two are from `ParseAssumption`, for any number of pages, clients, progress threads,
requests, aborts and executor deaths. The invariant adds to `TypeOK` what clients
and syncers hold between two statements: the request with the statements still to
make, the verdict of `_sync_progress`, and that a task holds a verdict only when it
has ended (`pc[t] = "record"`). Without the last part an executor that leaves
`_sync_progress` could move a task that the queue has already given to another.
A step is held against the stores it writes, and `Frame` covers the others. That
a request that writes `run` also changes its own state needs the sequence fact
that the rest of a script is not the script.

* `FinishedStays`: `[]FinishedIsStored` for one client (`OneClient`) whose requests are
  `run`, `keep`, `redo`, `remove` and `rm` (`ParsesOnly`); requests and executors may die,
  flags expire, progress threads write.
* `NothingLeft`: `[]NoLeftovers` for one client, any requests but `cancel`
  (`NeverCancels`), without deaths of requests or executors and without expiring flags
  (`NoFaults`).

TLC finds each of the two false when one of its hypotheses is dropped, on an instance with
two or three requests. `doc_reused` shows the case behind `ParsesOnly`: a clean-up deletes what
others have stored; with a second client or `stop` it is the same clean-up, or two
deletions that interleave. `cancel` deletes no chunks; a request that dies
between its flags and its deletion, an executor that dies before its `finally`
and a flag that expires under a task each leave chunks.

Both rest on `RInv`: what is left of a request is a suffix of its script
(`OnScript`, from the sequence facts `Left`, `Advance`, `ScriptLengths`), so that the
number of statements left says which comes next (`AtStart`, `AtStop`,
`AtRemoval`, `AtCancel`), and whatever is in the task table, in the queue or in a
request's hand is a task of a run that was counted (`Numbered`), so that new tasks
are new.

* For `FinishedStays` each number has a plan (`PlanAt`): there are no rows from their
  deletion to their insertion, so that nothing is named when chunks are deleted; what
  the request will reuse is in the store, and apart from what it is about to drop.
  `Recorded` says of the executors' side that what rows name, and what a task has
  inserted and is about to name, is stored; no task has a flag, so no clean-up deletes
  anything. After a removal (`Removing`) the property says nothing any more.
* For `NothingLeft`, a task that may still store has its row or a flag (`InSight`), unless
  it was orphaned. `InCharge` says from which statement on a request has taken the
  document over, and `StageAt` what it has done by then: a stop or a removal has found
  every row, then flagged it. Whenever nobody is in charge of a document that is
  gone or stopped (`Abandoned`) it is `Cleared`: only flagged tasks may still store, and
  the store is empty or a flagged task is still ahead of its `finally`, which deletes
  the document's chunks. Every step of an executor keeps that, and when all of them
  are done the store is empty.

### Lock, replica and containers (`LockProofs`)

* `LockTypes`, `HoldersOwn`, `Excludes`: for any number of users with values of
  their own (`LockAssumption`). `HolderOwnsKey` with the types is inductive; mutual
  exclusion follows from it, as the key holds one value.
* `ReplicaKeepsUp`: `[]ReplicaHasOwnSave`, for any users, with any requests of each.
  Inductive with it: who is in a lock is at `replace` or `unlock` and a request of that
  user; what a user has saved is not newer than the row (`Saved`); and of a user none of
  whose requests met a `/set` of its own (`Undisturbed`): whatever a request carries is not
  older than what the user saved last, nothing else of the user is at work during a save, and
  outside of a save's lock and replacement the replica is absent or not older. A request
  disturbs its own user only, so the saves of others, and the SDK's, keep it.

* `OneUser`: `[]OneUserPerContainer`. `HandsOK` says that a coroutine has a container
  exactly between the allocation and the end of the release, of the language it
  wants, and no two the same; `QueuesOK` that a queue lists names of its language,
  each once and none that is in a hand.
* `PoolTypes`: `[]PoolTypeOK`, which says of the semaphore that whoever waits, works or
  holds the lock was admitted.
* `BusyOnlyWhenLost`: `[]BusyMeansLost`. The semaphore admits at most as many as the
  language has containers (`SemaphoreCounts`). Who finds the queue empty twice is one of
  them and has no container; the others have at most one each; so, by counting,
  some container is neither in a hand nor in the queue, that is, it is lost.

### The split (`TaskSplitProofs`)

* `SplitTypeCorrect`: `[]SplitTypeOK`, `UnitsAreSplitExactly`: `[]EachUnitOnce`,
  `DoneMeansStored`: `[]DoneIsStored`, from `SplitAssumption` alone: any configurations,
  page ranges (also empty, reversed or overlapping ones), page sizes, sheets and row
  counts, and any sequence of requests, changes and tasks that break off.

`ParseTasks`, `RowsUpTo` and `RowsBefore` go through ranges and sheets one by one, so what
they compute is proved by induction (module `Recursion`). `Induction` states it for a set:
one that holds 0 and with each number the next holds all of them (`LeastNatural`, from
well-foundedness of `<`). A lemma names the set of the arguments it holds for.
`Recursive` says that a function on `0 .. n` whose step is given as a function exists and
unfolds, `Counter` that it does when it counts.

The argument: pieces of a range follow each other (`PieceBounds`), so every number of
the range is in exactly one (`PieceOf`). When the ranges of a PDF are put together the
pieces that hold a page add up (`FlattenHits`), one per range that asks for it. In a
workbook the server counts headers and data (`RowsUpTo`), an executor data only, and
stops counting where its task ends (`RowsBefore`). Up to the task's end the executor's
count is the number of data rows (`CountedAlike`), and data rows are no more than
rows (`DataWithinRows`): each data row has one number, below the server's count, and so
one task (`SplitIsExact`).

`DoneMeansStored` rests on `SplitInv`. Its parts, besides the types: the tasks are the
split of one configuration and content (`Planned`), the present one unless
`disturbed` (`Current`); a task names chunks of its own range or its table of contents
(`OwnChunks`); the range of a task that is done is stored, or a task that is not done
will store it, unless `wiped` (`Backed`); what is stored is named, unless `unnamed`
(`Named`). The hard step is `Keep`, which lends some chunks and deletes the others: with
overlapping ranges one chunk has several tasks that name it, and the deletion of one
task's chunks takes what another has lent. `WillBeMadeAgain` shows that a task which
lends to no new one leaves a new task with its range that is not done: if an equal one
lends in its place, it lends to the first of the two equal new tasks only
(`FirstBorrows`). That is the second alternative of `Backed`, without which it is not
inductive.

### The dataset graph (`StoresProofs`)

* `GraphTypes`, `Rebuildable`, `MergesOnce`, `StaysOut`, `AllMerged`: the types and the four
  properties. The invariant says, as long as nothing met a task at work: there is
  one task (`OneTask`); between the two inserts the graph's row is what the task
  has in memory (`GraphRow`); outside of them every source has a subgraph
  (`Subgraphs`); what is still to be merged is in no graph (`NotYet`), which is why
  a task that is run again merges nothing twice; no source of the row or of a
  graph in memory is removed (`OnlyKept`); what was built and is not still to be
  merged is in the row (`IsMerged`).

### Memory (`StoresProofs`)

* `MemoryTypesHold`, `NoneOverwritten`, `Extracted`. While Redis keeps its data no id
  in the store or in a save's hand is above the sequence (`SequenceIsSet`,
  `IdsAreNew`), so an id that is taken is new. A save that is over has stored what
  it had in hand, and a task is done only when its save is over (`SavesInOrder`,
  `FactsAreStored`). That a set of ids has a greatest one is proved from
  well-foundedness.

### Data sources (`StoresProofs`)

* `SyncTypesHold`, `NeverStuck` as `NoneStuck`: a run that nobody meddled with, and that is
  its row's only one, owns the row (`RunsOwnRows`), so whichever ends last writes SCHEDULE. That
  it is the only one, `~doubled` says (section 3 tells what happens otherwise).
* `NoneMissed`: `[]NothingIsMissed`. Every time a row or a run tells has come
  (`TimesCame`); what a row, or a run at work, says has been seen is up to date in
  the dataset that holds it, or still in the run's hands (`RowTells`, `RunTells`);
  a change has a later time than any of these.

### The canvas (`CanvasProofs`)

* `CanvasTypesHold`: `[]CanvasTypeOK`, from `CanvasAssumption` alone: any canvases, items,
  turns, errors and cancellations.
* `ReadyToRead`: `[]ReadsAreReady`, when all canvases satisfy `ReadsFollow`. The hypothesis
  is needed (section 3). Components that are not held back may be anywhere on the canvas.
* `ItemsInTurn`: `[]EachItemOnce`, when all canvases satisfy `ItemsGoOneWay`, which is needed
  too (section 3).

The path is the value of a recursive function over a batch. `Walk` takes the step as a
parameter, and the provers cannot instantiate a theorem with one, so there is one lemma
per step (`WalkAdmit`, `WalkGoes`, ...): what no step leaves, the walk does not leave. The
lemmas are then used with sets of sequences: those that extend the path walked from, those
of components that may follow, those in which every component stands behind what it
reads (`StartedBehindReads`).

`CanvasInv` adds to the types where the first turn stands (`FirstTurn`): the path begins
with `begin`, so that `CanStart` looks at what a component reads; all before the batch has
run (`HasRun`: it has an output, has failed or makes none); what of the batch has not run
has a task. Since `CanStart` looks at `path[:i]`, what a task reads has then run, or
stands before it in its batch. That is `ReadsAreReady` but for
what makes no output, and the second layer, `FollowInv`, is about that: an iteration whose item is at
its end has its result (`ResultOut`), a switch chooses among what is below it
(`ChosenBelow`), so what is appended to the path after an iteration is appended when the result is
there, and the path consists of components whose silent inputs are made (`MayFollow`).

`EachItemOnce` needs the place of control. On a canvas that goes one way a batch holds one
component, `At`, the end of the path (`OneAtATime`), and it is about to run or has run
(`Due`, `Done`). Every iteration is in one of three states (`Steady`): `Fresh`, `RoundsOver`, or in
round `n` with the first `k` places of its chain behind it (`RoundAt`), and then the item's index
and the outputs of those places are `n`, the history of each place is one input per
round, and `n - 1` results are collected. A task moves the iteration it is in to its next place
(`PlaceRuns`) or its next round (`ItemRuns`), and leaves the others alone
(`Elsewhere`); what follows a component that is done is due (`NextDue`). Iterations further on, by the rank
that the links increase, are still fresh (`Ahead`), so none is entered twice. A failure or a
cancellation ends what the property speaks of (`Undisturbed`), and a new turn starts with all
iterations fresh (`NothingYet`).

### Calls (`CallsProofs`)

* MinerU: `TianshuTypes`, `OneAttempt`, `OwnerDecides`, `Final`. A job in two
  workers' hands was put back once, and one that is pending again while a worker
  has it was put back too (`PutBackIfPending`). `Final` is `OnlyCancelReplacesEnd`: an answer is
  written to the row of the worker's own job in processing only, so of the steps that write a
  status a cancellation alone can meet a job that has ended.
* MCP: `OwnResult` and `Quiet`. A result queue holds its own call's result or none,
  and a caller that was told a result had its tool run (`Answers`); a closer that
  is done means a loop that has stopped (`Closing`).
* Chat: `Pairs` and `StreamsClose`. The history is a sequence of messages in which a
  batch is appended whole (`HistoryOK`); a stream that has not ended holds no error
  and no count (`StreamOK`).
* `ChatTypes`, `SessionTypes`: the counters of retries, rounds and tool results, and the
  length of the history, which follows the rounds (`HistoryGrows`: every round adds its
  calls and the message that brings them); a request in the queue of a session is there
  once, and its coroutine waits for it or has given up (`Queued`).

### The composites (`StoresProofs`, `CallsProofs`)

* `StoresAreParts`, `CallsAreParts`: a behaviour of `MCStores` or `MCCalls` is one of each
  of its parts (for the parts with fairness, of their initial state and steps). One part
  moves, the others stutter.
* `StoresTypes`, `CallsTypes`: `[]StoresTypeOK` and `[]CallsTypeOK`, so that of the two
  runs too the types are proved for all values of the constants.
* `StoresKeep`, `CallsKeep`: the safety properties of the two runs, of the specifications
  that TLC runs. `CallsKeep` takes `ReadsAreReady` and `EachItemOnce` from
  `CanvasesFollow`.

### What is only model-checked

Liveness under fairness (`EverySettles`, `RunningEnds`, `ChangesArrive`, `TurnEnds`,
`AllReturn`, `EveryJobEnds`) and `ENABLED` are out of reach of the provers. The library's
induction theorems are too, as they take an operator as a parameter; induction over a
set, as in `Recursion`, is not.

All invariants of the passing runs are proved. Where a theorem has a hypothesis about the
canvases (`ReadsFollow`, `ItemsGoOneWay`) or the faults (`Attempts`, `Implements`), the runs
satisfy it and section 3 says what happens without it.

## 6. Plan

Done: the queue with its abstract specification and the proof that it implements
it; the document; the lock; the split of a document and the reuse of its chunks; and
the nine parts around them. All are checked, and all invariants are proved. What is
left, in this order:

1. Counters: an accounting of `Document.chunk_num` against
   `Knowledgebase.chunk_num` on top of `DocumentParse` (which paths keep them
   equal).
2. `CanvasRun` with inner branches of an iteration, default values of exceptions and
   streams of a message; a bound on the rounds of a loop.
3. RAPTOR, and the resolution and community phases of `GraphMerge`.
4. `Tianshu` with the scheduler's `predict`.
5. A second dataset task type on `DocumentParse`: dataflow, with its own log.
6. `FinishedIsStored` for `stop` and the SDK's parse, under a condition that names
   the clean-up that took the chunks, as `orphaned` does for `NoLeftovers`.

## 7. Not modelled, and why

The repository's source is mostly parsers, model code, connectors' protocols,
prompts and clients: functions on data, without shared state, whose correctness is
a matter of numbers, layouts and texts. The modules cover the part that has
state and concurrency; a large share of the lines is outside of it and will stay
there.

* Executor heartbeats (`report_status`): the registry they keep is read by the
  administration page; its lock is `RedisLock`.
* The secret key: one `SET NX`. The token bucket of webhooks: one Lua script, on
  real numbers.
* Mother chunks, images, thumbnails and metadata of a
  document: more data along the same steps.
* Dataflow tasks: they use the same queue and the same progress rules; their
  component graph has no shared state.
* File manager, uploads, the flowchart companion of an upload, `ragflow_ingest.py`:
  sequential requests and a script run by hand.
* A consumer whose name changes between two starts (a new container host id):
  its old pending list would be read by nobody. `TaskQueue` keeps names, as
  `task_exe` does within the life of a container.
* `requeue_msg`, `close_sync`: not called anywhere.
* Connection pool, retries below a statement, MinIO: below this level.
* Parsers (deepdoc, MinerU), models, prompts, retrieval, the flowchart
  extraction: functions on data without state of their own.
* The other providers' chat classes: their own clients around the same loops, or
  none.
* Web UI, SDK clients, the admin tool, the MCP server and the Go rewrite.
