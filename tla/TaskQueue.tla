------------------------------ MODULE TaskQueue ------------------------------
(***************************************************************************)
(* The task queue of RAGFlow: the Redis streams the API server writes to   *)
(* (RedisDB.queue_product), the consumer group the task executors read     *)
(* from (RedisDB.queue_consumer, get_unacked_iterator), the task rows with *)
(* their retry counter (TaskService.get_task), and the executor processes  *)
(* (collect, handle_task, task_manager of task_executor.py).               *)
(*                                                                         *)
(* Each executor is one asyncio process with Slots coroutines.  collect    *)
(* has no await: a coroutine that is inside it holds the event loop, so no *)
(* other coroutine of that process moves; other processes do, between any  *)
(* two of its Redis commands or SQL statements.  A process that dies is    *)
(* started again under its consumer name by the loop of entrypoint.sh.     *)
(***************************************************************************)
EXTENDS Naturals, Sequences, FiniteSets

CONSTANTS Tasks,         \* task rows; ids are fresh uuids, published once
          Memories,      \* those of a memory (queue_save_to_memory_task)
          Debugs,        \* those of a pipeline tried out (CANVAS_DEBUG_DOC_ID)
          Workers,       \* executor processes = consumer names
          Slots,         \* coroutines of a process (MAX_CONCURRENT_TASKS)
          NQueues,       \* streams, in the order of get_svr_queue_names()
          MaxAttempts,   \* retry_count at which get_task gives up: 3
          MaxSends,      \* tries of queue_product: 3
          FaultKinds,    \* which of Faults may happen
          MaxMishaps     \* bound: faults and executor deaths in a behaviour

Faults == {"xadd",    \* XADD does not reach Redis and raises
           "reply",   \* XADD appends and its reply is lost
           "xread",   \* XREADGROUP > delivers and its reply is lost
           "pel",     \* XREADGROUP of the backlog fails three times
           "db",      \* an SQL statement of get_task raises
           "ack"}     \* XACK raises

ASSUME QueueAssumption ==
    /\ Memories \subseteq Tasks
    /\ Debugs \subseteq Tasks \ Memories
    /\ NQueues \in Nat \ {0}
    /\ MaxAttempts \in Nat
    /\ MaxSends \in Nat \ {0}
    /\ FaultKinds \subseteq Faults
    /\ MaxMishaps \in Nat

Queues == 1 .. NQueues

\* collect fetches these without get_task: no retry_count is read or written.
Uncounted == Memories \cup Debugs

\* A message is its stream and its position there (the Redis stream id).
Messages == Queues \X (Nat \ {0})
NoMsg == <<0, 0>>

VARIABLES
    \* Redis
    log,        \* per queue: the stream, one entry per XADD
    delivered,  \* per queue: last-delivered-id of the consumer group
    pel,        \* per worker: its pending entries list
    cancelKey,  \* tasks whose "<id>-cancel" key exists
    \* the task table
    row,        \* per task: "none", "present" or "deleted"
    retryCount, \* per task: Task.retry_count
    \* the API server
    pub,        \* per task: where queue_product stands
    sends,      \* per task: tries of queue_product so far
    \* the executors
    up,         \* per worker: the process runs
    backlog,    \* per worker: UNACKED_ITERATOR, [q, min]; q > NQueues: exhausted
    polled,     \* per worker: the queue the collect in progress reads next
    pc,         \* per worker and slot
    msg,        \* per worker and slot: the message in hand
    seen,       \* per worker and slot: retry_count as get_task selected it
    \* observation and bounds, read by no guard of the code
    attempts,   \* per task: how often a coroutine was given it to run
    faults, crashes

redisVars == <<log, delivered, pel, cancelKey>>
rowVars   == <<row, retryCount>>
pubVars   == <<pub, sends>>
slotVars  == <<pc, msg, seen>>
execVars  == <<up, backlog, polled, slotVars>>
boundVars == <<faults, crashes>>
vars == <<redisVars, rowVars, pubVars, execVars, attempts, boundVars>>

CollectPC == {"poll", "got", "selected", "fetched", "drop"}
PC == {"idle", "running", "ended"} \cup CollectPC

----------------------------------------------------------------------------
TaskOf(m) == log[m[1]][m[2]]
Appended == UNION {{q} \X (1 .. Len(log[q])) : q \in Queues}
Undelivered(q) == delivered[q] < Len(log[q])
MessagesOf(t) == {m \in Appended : TaskOf(m) = t}
Acked(m) == /\ m \in Appended
            /\ m[2] <= delivered[m[1]]
            /\ \A w \in Workers : m \notin pel[w]

\* Mutant: the iterator stops before its last queue.
ExhaustedEarly(w) == backlog[w].q >= NQueues
Exhausted(w) == backlog[w].q > NQueues
\* Mutant: a new process only asks for messages that were never delivered.
FreshSkipsBacklog == [q |-> NQueues + 1, min |-> 0]
Fresh == [q |-> 1, min |-> 0]

\* Mutant: current_min stays 0.
AheadFromStart(w) == {i \in 1 .. delivered[backlog[w].q] : <<backlog[w].q, i>> \in pel[w]}

\* The entries get_unacked_iterator has still to yield from its current queue.
Ahead(w) == {i \in 1 .. delivered[backlog[w].q] :
                i > backlog[w].min /\ <<backlog[w].q, i>> \in pel[w]}

\* Nobody else is inside collect: the event loop of w is free for s.
HasLoop(w, s) == up[w] /\ \A r \in Slots \ {s} : pc[w][r] \notin CollectPC

\* The iterator of w has handed out m, or has skipped it.
Passed(w, m) == \/ m[1] < backlog[w].q
                \/ m[1] = backlog[w].q /\ m[2] <= backlog[w].min

Goto(w, s, label) == pc' = [pc EXCEPT ![w][s] = label]
Take(w, s, m) == /\ Goto(w, s, "got")
                 /\ msg' = [msg EXCEPT ![w][s] = m]
                 /\ UNCHANGED seen
Clear(w, s) == /\ Goto(w, s, "idle")
               /\ msg' = [msg EXCEPT ![w][s] = NoMsg]
               /\ seen' = [seen EXCEPT ![w][s] = 0]

Fault(kind) == /\ kind \in FaultKinds
               /\ crashes + faults < MaxMishaps
               /\ faults' = faults + 1
               /\ UNCHANGED crashes

Init ==
    /\ log = [q \in Queues |-> <<>>]
    /\ delivered = [q \in Queues |-> 0]
    /\ pel = [w \in Workers |-> {}]
    /\ cancelKey = {}
    /\ row = [t \in Tasks |-> "none"]
    /\ retryCount = [t \in Tasks |-> 0]
    /\ pub = [t \in Tasks |-> "no"]
    /\ sends = [t \in Tasks |-> 0]
    /\ up = [w \in Workers |-> TRUE]
    /\ backlog = [w \in Workers |-> Fresh]
    /\ polled = [w \in Workers |-> 1]
    /\ pc = [w \in Workers |-> [s \in Slots |-> "idle"]]
    /\ msg = [w \in Workers |-> [s \in Slots |-> NoMsg]]
    /\ seen = [w \in Workers |-> [s \in Slots |-> 0]]
    /\ attempts = [t \in Tasks |-> 0]
    /\ faults = 0
    /\ crashes = 0

----------------------------------------------------------------------------
(* The API server *)

\* queue_tasks: bulk_insert_into_db(Task, ...) before anything is queued.
InsertRow(t) ==
    /\ row[t] = "none"
    /\ row' = [row EXCEPT ![t] = "present"]
    /\ UNCHANGED <<redisVars, retryCount, pubVars, execVars, attempts, boundVars>>

Xadd(q, t) == log' = [log EXCEPT ![q] = Append(@, t)]

\* queue_product: XADD answers.
Publish(t, q) ==
    /\ row[t] # "none"
    /\ pub[t] \in {"no", "sending"}
    /\ Xadd(q, t)
    /\ pub' = [pub EXCEPT ![t] = "sent"]
    /\ sends' = [sends EXCEPT ![t] = @ + 1]
    /\ UNCHANGED <<delivered, pel, cancelKey, rowVars, execVars, attempts, boundVars>>

\* queue_product: XADD raises, whether or not the entry was appended; the
\* loop tries again, MaxSends times in all, and then answers False.
PublishFault(t, q) ==
    /\ row[t] # "none"
    /\ pub[t] \in {"no", "sending"}
    /\ \/ Fault("xadd") /\ UNCHANGED log
       \/ Fault("reply") /\ Xadd(q, t)
    /\ sends' = [sends EXCEPT ![t] = @ + 1]
    /\ pub' = [pub EXCEPT ![t] = IF sends'[t] < MaxSends THEN "sending" ELSE "failed"]
    /\ UNCHANGED <<delivered, pel, cancelKey, rowVars, execVars, attempts>>

\* filter_delete([Task.doc_id == ...]): a rerun or a removal drops the row.  It
\* goes by the documents: a memory's id and CANVAS_DEBUG_DOC_ID are none.
DeleteRow(t) ==
    /\ t \notin Uncounted
    /\ row[t] = "present"
    /\ row' = [row EXCEPT ![t] = "deleted"]
    /\ UNCHANGED <<redisVars, retryCount, pubVars, execVars, attempts, boundVars>>

\* cancel_all_task_of sets the key of a row it found; a task of a dataset or of a
\* pipeline is also cancelled by its id (kb_app, canvas_app), a memory's never is.
SetCancel(t) ==
    /\ t \notin Memories
    /\ row[t] = "present"
    /\ t \notin cancelKey
    /\ cancelKey' = cancelKey \cup {t}
    /\ UNCHANGED <<log, delivered, pel, rowVars, pubVars, execVars, attempts, boundVars>>

\* RedisDB.set gives the key an hour (exp=3600).
ExpireCancel(t) ==
    /\ t \in cancelKey
    /\ cancelKey' = cancelKey \ {t}
    /\ UNCHANGED <<log, delivered, pel, rowVars, pubVars, execVars, attempts, boundVars>>

----------------------------------------------------------------------------
(* collect *)

\* handle_task starts with collect; nothing awaits before collect returns.
StartCollect(w, s) ==
    /\ HasLoop(w, s)
    /\ pc[w][s] = "idle"
    /\ Goto(w, s, "poll")
    /\ UNCHANGED <<redisVars, rowVars, pubVars, up, backlog, polled, msg, seen, attempts, boundVars>>

\* next(UNACKED_ITERATOR): the oldest entry of this consumer past current_min.
RecoverMessage(w, s) ==
    /\ HasLoop(w, s)
    /\ pc[w][s] = "poll"
    /\ ~Exhausted(w)
    /\ \E i \in Ahead(w) :
          /\ \A j \in Ahead(w) : i <= j
          /\ Take(w, s, <<backlog[w].q, i>>)
          /\ backlog' = [backlog EXCEPT ![w].min = i]
    /\ UNCHANGED <<redisVars, rowVars, pubVars, up, polled, attempts, boundVars>>

\* The iterator finds no further entry in its queue and goes to the next one.
RecoverNextQueue(w, s) ==
    /\ HasLoop(w, s)
    /\ pc[w][s] = "poll"
    /\ ~Exhausted(w)
    /\ Ahead(w) = {}
    /\ backlog' = [backlog EXCEPT ![w] = [q |-> @.q + 1, min |-> 0]]
    /\ UNCHANGED <<redisVars, rowVars, pubVars, up, polled, slotVars, attempts, boundVars>>

\* Redis fails while the iterator reads: queue_consumer answers None and the
\* iterator takes the queue as finished; when xinfo_groups fails it ends.
RecoverFault(w, s) ==
    /\ HasLoop(w, s)
    /\ pc[w][s] = "poll"
    /\ ~Exhausted(w)
    /\ Fault("pel")
    /\ \E k \in {backlog[w].q + 1, NQueues + 1} :
          backlog' = [backlog EXCEPT ![w] = [q |-> k, min |-> 0]]
    /\ UNCHANGED <<redisVars, rowVars, pubVars, up, polled, slotVars, attempts>>

\* Mutant: XREADGROUP with NOACK.
DeliverNoAck(w, q) ==
    /\ Undelivered(q)
    /\ delivered' = [delivered EXCEPT ![q] = @ + 1]
    /\ UNCHANGED pel

Deliver(w, q) ==
    /\ Undelivered(q)
    /\ delivered' = [delivered EXCEPT ![q] = @ + 1]
    /\ pel' = [pel EXCEPT ![w] = @ \cup {<<q, delivered[q] + 1>>}]

\* XREADGROUP > : a message nobody was given yet.
PollMessage(w, s) ==
    /\ HasLoop(w, s)
    /\ pc[w][s] = "poll"
    /\ Exhausted(w)
    /\ polled[w] \in Queues
    /\ Deliver(w, polled[w])
    /\ Take(w, s, <<polled[w], delivered[polled[w]] + 1>>)
    /\ polled' = [polled EXCEPT ![w] = 1]
    /\ UNCHANGED <<log, cancelKey, rowVars, pubVars, up, backlog, attempts, boundVars>>

\* The reply is lost: the message is in the PEL, and queue_consumer asks again
\* for one that was never delivered.
PollFault(w, s) ==
    /\ HasLoop(w, s)
    /\ pc[w][s] = "poll"
    /\ Exhausted(w)
    /\ polled[w] \in Queues
    /\ Fault("xread")
    /\ Deliver(w, polled[w])
    /\ UNCHANGED <<log, cancelKey, rowVars, pubVars, execVars, attempts>>

\* Nothing new in this queue: the next one, or asyncio.sleep(5) after the last.
PollMiss(w, s) ==
    /\ HasLoop(w, s)
    /\ pc[w][s] = "poll"
    /\ Exhausted(w)
    /\ polled[w] \in Queues
    /\ ~Undelivered(polled[w])
    /\ IF polled[w] < NQueues
       THEN polled' = [polled EXCEPT ![w] = @ + 1] /\ UNCHANGED pc
       ELSE polled' = [polled EXCEPT ![w] = 1] /\ Goto(w, s, "idle")
    /\ UNCHANGED <<redisVars, rowVars, pubVars, up, backlog, msg, seen, attempts, boundVars>>

----------------------------------------------------------------------------
(* The fetch, the cancel check, the run and the acknowledgement *)

\* get_task: SELECT the row with its document, knowledge base and tenant.  No
\* row: collect reports an unknown task and acknowledges the message.
SelectTask(w, s) ==
    /\ up[w] /\ pc[w][s] = "got"
    /\ TaskOf(msg[w][s]) \notin Uncounted
    /\ \/ /\ row[TaskOf(msg[w][s])] = "present"
          /\ Goto(w, s, "selected")
          /\ seen' = [seen EXCEPT ![w][s] = retryCount[TaskOf(msg[w][s])]]
       \/ /\ row[TaskOf(msg[w][s])] # "present"
          /\ Goto(w, s, "drop")
          /\ UNCHANGED seen
    /\ UNCHANGED <<redisVars, rowVars, pubVars, up, backlog, polled, msg, attempts, boundVars>>

\* collect, the tasks get_task is not asked for: a pipeline tried out is the
\* message itself, the row of a memory is fetched by its id (nothing deletes it).
FetchUncounted(w, s) ==
    /\ up[w] /\ pc[w][s] = "got"
    /\ TaskOf(msg[w][s]) \in Uncounted
    /\ Goto(w, s, "fetched")
    /\ UNCHANGED <<redisVars, rowVars, pubVars, up, backlog, polled, msg, seen, attempts, boundVars>>

\* Mutants: the attempt is not counted; it is counted down.
WriteBackSame(t, n) ==
    retryCount' = IF row[t] = "present" THEN [retryCount EXCEPT ![t] = n] ELSE retryCount
WriteBackDown(t, n) ==
    retryCount' = IF row[t] = "present" THEN [retryCount EXCEPT ![t] = n - 1] ELSE retryCount

\* get_task: the UPDATE with the count the SELECT returned; it finds no row when
\* the task was deleted in between.  A spent count makes get_task answer None.
WriteBack(t, n) ==
    retryCount' = IF row[t] = "present" THEN [retryCount EXCEPT ![t] = n + 1] ELSE retryCount

CountAttempt(w, s) ==
    /\ up[w] /\ pc[w][s] = "selected"
    /\ WriteBack(TaskOf(msg[w][s]), seen[w][s])
    /\ Goto(w, s, IF seen[w][s] >= MaxAttempts THEN "drop" ELSE "fetched")
    /\ UNCHANGED <<redisVars, row, pubVars, up, backlog, polled, msg, seen, attempts, boundVars>>

\* An SQL statement raises (for a memory get_by_id answers None instead, and
\* None.to_dict() raises): nothing in collect or handle_task catches it, the
\* coroutine ends, the message stays in the PEL.
GetTaskFault(w, s) ==
    /\ up[w] /\ pc[w][s] \in {"got", "selected"}
    /\ TaskOf(msg[w][s]) \notin Debugs
    /\ Fault("db")
    /\ \/ UNCHANGED retryCount
       \/ pc[w][s] = "selected" /\ WriteBack(TaskOf(msg[w][s]), seen[w][s])
    /\ Clear(w, s)
    /\ UNCHANGED <<redisVars, row, pubVars, up, backlog, polled, attempts>>

\* has_canceled, and the end of collect: the coroutine runs the task.
StartRun(w, s) ==
    /\ up[w] /\ pc[w][s] = "fetched"
    /\ TaskOf(msg[w][s]) \notin cancelKey
    /\ Goto(w, s, "running")
    /\ attempts' = [attempts EXCEPT ![TaskOf(msg[w][s])] = @ + 1]
    /\ UNCHANGED <<redisVars, rowVars, pubVars, up, backlog, polled, msg, seen, boundVars>>

SkipCancelled(w, s) ==
    /\ up[w] /\ pc[w][s] = "fetched"
    /\ TaskOf(msg[w][s]) \in cancelKey
    /\ Goto(w, s, "drop")
    /\ UNCHANGED <<redisVars, rowVars, pubVars, up, backlog, polled, msg, seen, attempts, boundVars>>

\* do_handle_task returns or raises, within its @timeout; DocumentParse has the
\* inside of it.
FinishRun(w, s) ==
    /\ HasLoop(w, s) /\ pc[w][s] = "running"
    /\ Goto(w, s, "ended")
    /\ UNCHANGED <<redisVars, rowVars, pubVars, up, backlog, polled, msg, seen, attempts, boundVars>>

\* RedisMsg.ack, of a task that ran or that collect refused.
Ack(w, s) ==
    /\ HasLoop(w, s) /\ pc[w][s] \in {"drop", "ended"}
    /\ pel' = [pel EXCEPT ![w] = @ \ {msg[w][s]}]
    /\ Clear(w, s)
    /\ UNCHANGED <<log, delivered, cancelKey, rowVars, pubVars, up, backlog, polled, attempts, boundVars>>

\* XACK fails and RedisMsg.ack only logs it, or record_pipeline_operation raised
\* before the ack: the coroutine goes on, the message stays in the PEL.
AckFault(w, s) ==
    /\ HasLoop(w, s) /\ pc[w][s] \in {"drop", "ended"}
    /\ Fault("ack")
    /\ Clear(w, s)
    /\ UNCHANGED <<redisVars, rowVars, pubVars, up, backlog, polled, attempts>>

\* The process dies (or is told to stop: the coroutines are cancelled before
\* their ack) and its memory with it.
Crash(w) ==
    /\ up[w]
    /\ crashes + faults < MaxMishaps
    /\ crashes' = crashes + 1
    /\ up' = [up EXCEPT ![w] = FALSE]
    /\ pc' = [pc EXCEPT ![w] = [s \in Slots |-> "idle"]]
    /\ msg' = [msg EXCEPT ![w] = [s \in Slots |-> NoMsg]]
    /\ seen' = [seen EXCEPT ![w] = [s \in Slots |-> 0]]
    /\ backlog' = [backlog EXCEPT ![w] = Fresh]
    /\ polled' = [polled EXCEPT ![w] = 1]
    /\ UNCHANGED <<redisVars, rowVars, pubVars, attempts, faults>>

\* task_exe of entrypoint.sh starts the process again with the same argument.
Restart(w) ==
    /\ ~up[w]
    /\ up' = [up EXCEPT ![w] = TRUE]
    /\ UNCHANGED <<redisVars, rowVars, pubVars, backlog, polled, slotVars, attempts, boundVars>>

----------------------------------------------------------------------------
Server(t) == \/ InsertRow(t) \/ DeleteRow(t) \/ SetCancel(t) \/ ExpireCancel(t)
             \/ \E q \in Queues : Publish(t, q) \/ PublishFault(t, q)

\* What a coroutine does when nothing fails.
Step(w, s) == \/ StartCollect(w, s) \/ RecoverMessage(w, s) \/ RecoverNextQueue(w, s)
              \/ PollMessage(w, s) \/ PollMiss(w, s)
              \/ SelectTask(w, s) \/ CountAttempt(w, s) \/ FetchUncounted(w, s)
              \/ StartRun(w, s) \/ SkipCancelled(w, s)
              \/ FinishRun(w, s) \/ Ack(w, s)

StepFault(w, s) == \/ RecoverFault(w, s) \/ PollFault(w, s)
                   \/ GetTaskFault(w, s) \/ AckFault(w, s)

Next == \/ \E t \in Tasks : Server(t)
        \/ \E w \in Workers : Crash(w) \/ Restart(w)
        \/ \E w \in Workers, s \in Slots : Step(w, s) \/ StepFault(w, s)

Spec == Init /\ [][Next]_vars

\* The process is started again (entrypoint.sh), and the event loop, whose ready
\* queue is first in first out, gives every coroutine its turn.
Fairness == /\ \A w \in Workers : WF_vars(Restart(w))
            /\ \A w \in Workers, s \in Slots : SF_vars(Step(w, s))

FairSpec == Spec /\ Fairness

----------------------------------------------------------------------------
(* Properties *)

Position == [q : Queues \cup {NQueues + 1}, min : Nat]

RedisTypeOK == /\ log \in [Queues -> Seq(Tasks)]
               /\ delivered \in [Queues -> Nat]
               /\ pel \in [Workers -> SUBSET Messages]
               /\ cancelKey \in SUBSET Tasks

TableTypeOK == /\ row \in [Tasks -> {"none", "present", "deleted"}]
               /\ retryCount \in [Tasks -> Nat]
               /\ attempts \in [Tasks -> Nat]

ServerTypeOK == /\ pub \in [Tasks -> {"no", "sending", "sent", "failed"}]
                /\ sends \in [Tasks -> Nat]

ExecTypeOK == /\ up \in [Workers -> BOOLEAN]
              /\ backlog \in [Workers -> Position]
              /\ polled \in [Workers -> Queues]
              /\ pc \in [Workers -> [Slots -> PC]]
              /\ msg \in [Workers -> [Slots -> Messages \cup {NoMsg}]]
              /\ seen \in [Workers -> [Slots -> Nat]]

BoundTypeOK == faults \in Nat /\ crashes \in Nat

\* Types of the variables.
TypeOK == RedisTypeOK /\ TableTypeOK /\ ServerTypeOK /\ ExecTypeOK /\ BoundTypeOK

\* A message is in the hands of one coroutine at a time, in whichever order
\* processes read, die, come back and read their backlog again.
ExclusiveDelivery ==
    \A w, v \in Workers : \A s, r \in Slots :
        (msg[w][s] = msg[v][r] /\ msg[w][s] # NoMsg) => (w = v /\ s = r)

\* What a process has delivered to it and not acknowledged, it is either working
\* on or still has ahead of it in its backlog, as long as no call to Redis or to
\* the database failed: nothing waits in a PEL for a restart nobody plans.
Stranded(w, m) == /\ up[w] /\ m \in pel[w] /\ Passed(w, m)
                  /\ \A s \in Slots : msg[w][s] # m

NoStranding == faults = 0 => \A w \in Workers : \A m \in pel[w] : ~Stranded(w, m)

\* get_task: "Task is abandoned after 3 times attempts": coroutines are given a
\* task to run at most MaxAttempts times, however often executors die.  Nothing
\* bounds the attempts of a task collect fetches without get_task.
AttemptsBounded == \A t \in Tasks \ Uncounted : attempts[t] <= MaxAttempts

\* Every queued task is settled in the end: each of its messages is acknowledged,
\* unless a failed call stranded it in the PEL of a process that lives on.
EverySettles ==
    \A t \in Tasks :
        (pub[t] = "sent") ~>
            (\A m \in MessagesOf(t) : Acked(m) \/ \E w \in Workers : Stranded(w, m))

\* While no reply of XADD is lost the queue keeps the promise of TaskLifecycle: one
\* runner at a time, at most MaxAttempts starts of a task get_task fetches, nothing
\* after the settlement.
RunningNow(t) == \E w \in Workers, s \in Slots :
                    pc[w][s] \in {"running", "ended"} /\ TaskOf(msg[w][s]) = t
statusOf == [t \in Tasks |->
    IF MessagesOf(t) = {} THEN "absent"
    ELSE IF RunningNow(t) THEN "running"
    ELSE IF \A m \in MessagesOf(t) : Acked(m) THEN "settled"
    ELSE "pending"]

Lifecycle == INSTANCE TaskLifecycle WITH status <- statusOf
KeepsLifecycle == Lifecycle!Spec
=============================================================================
