-------------------------------- MODULE Tianshu --------------------------------
(***************************************************************************)
(* The task service of MinerU Tianshu: rows of an SQLite table, claimed    *)
(* by worker processes and put back by a scheduler when they are too old.  *)
(* The API saves the upload in a temporary file and may cancel a task.  A  *)
(* worker that was given up as stale may still be at work, and answer.     *)
(***************************************************************************)
EXTENDS Naturals, FiniteSets

CONSTANTS Jobs,        \* rows of the table tasks
          Priority,    \* per job: its priority
          Workers,     \* worker_ids; a restarted process has a new one
          MaxTroubles  \* bound: worker processes that die, parses that raise or
                       \* outlast stale_task_timeout

ASSUME TianshuAssumption ==
    /\ Priority \in [Jobs -> Nat]
    /\ MaxTroubles \in Nat

NoWorker == "NULL"
NoJob == "no job"
ASSUME TianshuNames == NoWorker \notin Workers /\ NoJob \notin Jobs

VARIABLES status,      \* per job: "new" before the INSERT, "gone" after the DELETE
          worker_id,   \* per job: the column
          retry_count, \* per job: the column
          stale,       \* per job: started_at is older than the timeout
          result_path, \* per job: the column is set
          input,       \* per job: the temporary file exists
          output,      \* per job: the directory holds a result
          cancelling,  \* per job: how far cancel_task is
          stage, job,  \* per worker: where _process_task stands, and with what
          troubles     \* bound

rowVars == <<status, worker_id, retry_count, stale, result_path>>
workVars == <<stage, job>>
tianshuVars == <<rowVars, input, output, cancelling, workVars, troubles>>

Ended == {"completed", "failed", "cancelled", "gone"}
Trouble == troubles < MaxTroubles /\ troubles' = troubles + 1
Set(f, j, v) == f' = [f EXCEPT ![j] = v]

TianshuInit ==
    /\ status = [j \in Jobs |-> "new"]
    /\ worker_id = [j \in Jobs |-> NoWorker]
    /\ retry_count = [j \in Jobs |-> 0]
    /\ stale = [j \in Jobs |-> FALSE] /\ result_path = [j \in Jobs |-> FALSE]
    /\ input = [j \in Jobs |-> FALSE] /\ output = [j \in Jobs |-> FALSE]
    /\ cancelling = [j \in Jobs |-> "no"]
    /\ stage = [w \in Workers |-> "poll"] /\ job = [w \in Workers |-> NoJob]
    /\ troubles = 0

\* submit_task: the upload, then the row.
SaveUpload(j) ==
    /\ status[j] = "new" /\ ~input[j] /\ Set(input, j, TRUE)
    /\ UNCHANGED <<rowVars, output, cancelling, workVars, troubles>>

CreateTask(j) ==
    /\ status[j] = "new" /\ input[j]
    /\ Set(status, j, "pending")
    /\ UNCHANGED <<worker_id, retry_count, stale, result_path, input, output, cancelling,
                   workVars, troubles>>

TakeJob(w, j) ==
    /\ stage[w] = "poll"
    /\ Set(status, j, "processing") /\ Set(worker_id, j, w) /\ Set(stale, j, FALSE)
    /\ Set(stage, w, "parse") /\ Set(job, w, j)
    /\ UNCHANGED <<retry_count, result_path, input, output, cancelling, troubles>>

\* Mutant: rows that are being processed are not left out.
TakeAny(w, j) == status[j] \in {"pending", "processing"} /\ TakeJob(w, j)

\* get_next_task: one transaction.
Claim(w, j) ==
    /\ status[j] = "pending"
    /\ \A k \in Jobs : status[k] = "pending" => Priority[k] <= Priority[j]
    /\ TakeJob(w, j)

\* do_parse or markitdown, which read the input first.
ParseSucceeds(w) ==
    /\ stage[w] = "parse" /\ input[job[w]]
    /\ Set(output, job[w], TRUE) /\ Set(stage, w, "complete")
    /\ UNCHANGED <<rowVars, input, cancelling, job, troubles>>

ParseRaises(w) ==
    /\ stage[w] = "parse"
    /\ \/ ~input[job[w]] /\ UNCHANGED troubles
       \/ Trouble
    /\ Set(stage, w, "unlinkFail")
    /\ UNCHANGED <<rowVars, input, output, cancelling, job>>

\* Mutants: one half of the WHERE clause.
OwnsRow(w) == worker_id[job[w]] = w
OwnsAny(w) == status[job[w]] = "processing"
\* The WHERE clause that _build_update_clauses makes for completed and failed.
Owns(w) == status[job[w]] = "processing" /\ worker_id[job[w]] = w

Complete(w) ==
    /\ stage[w] = "complete" /\ Set(stage, w, "unlink")
    /\ IF Owns(w) THEN Set(status, job[w], "completed") /\ Set(result_path, job[w], TRUE)
                  ELSE UNCHANGED <<status, result_path>>
    /\ UNCHANGED <<worker_id, retry_count, stale, input, output, cancelling, job, troubles>>

\* The finally block.
Unlink(w) ==
    /\ \/ stage[w] = "unlink" /\ Set(stage, w, "poll") /\ Set(job, w, NoJob)
       \/ stage[w] = "unlinkFail" /\ Set(stage, w, "fail") /\ UNCHANGED job
    /\ Set(input, job[w], FALSE)
    /\ UNCHANGED <<rowVars, output, cancelling, troubles>>

\* The except clause of _worker_loop, after the finally block.
Fail(w) ==
    /\ stage[w] = "fail" /\ Set(stage, w, "poll") /\ Set(job, w, NoJob)
    /\ status' = IF Owns(w) THEN [status EXCEPT ![job[w]] = "failed"] ELSE status
    /\ UNCHANGED <<worker_id, retry_count, stale, result_path, input, output, cancelling,
                   troubles>>

\* A process dies, or teardown gives up waiting for its thread.
WorkerDies(w) ==
    /\ Trouble
    /\ stage[w] # "dead" /\ Set(stage, w, "dead") /\ Set(job, w, NoJob)
    /\ UNCHANGED <<rowVars, input, output, cancelling>>

\* started_at falls behind: the worker is gone, or slow.
BecomesStale(j) ==
    /\ status[j] = "processing" /\ ~stale[j] /\ Set(stale, j, TRUE)
    /\ IF \A w \in Workers : job[w] = j => worker_id[j] # w
         THEN UNCHANGED troubles
         ELSE Trouble
    /\ UNCHANGED <<status, worker_id, retry_count, result_path, input, output, cancelling,
                   workVars>>

\* Mutant: only the rows that no worker holds.
StaleUnowned == {j \in Jobs : status[j] = "processing" /\ stale[j] /\ worker_id[j] = NoWorker}
Stale == {j \in Jobs : status[j] = "processing" /\ stale[j]}

\* reset_stale_tasks: one UPDATE over all rows.
ResetStale ==
    /\ Stale # {}
    /\ status' = [j \in Jobs |-> IF j \in Stale THEN "pending" ELSE status[j]]
    /\ worker_id' = [j \in Jobs |-> IF j \in Stale THEN NoWorker ELSE worker_id[j]]
    /\ retry_count' = [j \in Jobs |-> IF j \in Stale THEN retry_count[j] + 1 ELSE retry_count[j]]
    /\ UNCHANGED <<stale, result_path, input, output, cancelling, workVars, troubles>>

\* cancel_task: SELECT, UPDATE without a condition on the status, unlink.
CancelReads(j) ==
    /\ status[j] = "pending" /\ cancelling[j] = "no" /\ Set(cancelling, j, "seen")
    /\ UNCHANGED <<rowVars, input, output, workVars, troubles>>

CancelWrites(j) ==
    /\ cancelling[j] = "seen" /\ Set(cancelling, j, "written")
    /\ status' = [status EXCEPT ![j] = IF @ = "gone" THEN @ ELSE "cancelled"]
    /\ UNCHANGED <<worker_id, retry_count, stale, result_path, input, output, workVars,
                   troubles>>

CancelUnlinks(j) ==
    /\ cancelling[j] = "written" /\ Set(cancelling, j, "done") /\ Set(input, j, FALSE)
    /\ UNCHANGED <<rowVars, output, workVars, troubles>>

\* cleanup_old_task_files.
CleanupFiles(j) ==
    /\ status[j] \in {"completed", "failed"} /\ result_path[j] /\ output[j]
    /\ Set(output, j, FALSE) /\ Set(result_path, j, FALSE)
    /\ UNCHANGED <<status, worker_id, retry_count, stale, input, cancelling, workVars,
                   troubles>>

CleanupRecord(j) ==
    /\ status[j] \in {"completed", "failed"} /\ Set(status, j, "gone")
    /\ UNCHANGED <<worker_id, retry_count, stale, result_path, input, output, cancelling,
                   workVars, troubles>>

Work(w) == \/ \E j \in Jobs : Claim(w, j)
           \/ ParseSucceeds(w) \/ ParseRaises(w) \/ Complete(w) \/ Unlink(w) \/ Fail(w)

TianshuNext ==
    \/ \E w \in Workers : Work(w) \/ WorkerDies(w)
    \/ \E j \in Jobs :
          \/ SaveUpload(j) \/ CreateTask(j) \/ BecomesStale(j)
          \/ CancelReads(j) \/ CancelWrites(j) \/ CancelUnlinks(j)
          \/ CleanupFiles(j) \/ CleanupRecord(j)
    \/ ResetStale

\* Worker loops and the scheduler's loop run on, and time passes.
TianshuFairness ==
    /\ \A w \in Workers : WF_tianshuVars(Work(w))
    /\ \A j \in Jobs : WF_tianshuVars(BecomesStale(j))
    /\ WF_tianshuVars(ResetStale)

TianshuSpec == TianshuInit /\ [][TianshuNext]_tianshuVars /\ TianshuFairness

----------------------------------------------------------------------------
TianshuTypeOK ==
    /\ status \in [Jobs -> Ended \cup {"new", "pending", "processing"}]
    /\ worker_id \in [Jobs -> Workers \cup {NoWorker}]
    /\ retry_count \in [Jobs -> Nat]
    /\ stale \in [Jobs -> BOOLEAN] /\ result_path \in [Jobs -> BOOLEAN]
    /\ input \in [Jobs -> BOOLEAN] /\ output \in [Jobs -> BOOLEAN]
    /\ cancelling \in [Jobs -> {"no", "seen", "written", "done"}]
    /\ stage \in [Workers -> {"poll", "parse", "complete", "unlink", "unlinkFail", "fail", "dead"}]
    /\ job \in [Workers -> Jobs \cup {NoJob}]
    /\ \A w \in Workers : job[w] = NoJob <=> stage[w] \in {"poll", "dead"}
    /\ troubles \in 0 .. MaxTroubles

\* get_next_task: two workers are at one job only after it was reset as stale.
OneAttemptAtATime ==
    \A v, w \in Workers : v # w /\ job[v] = job[w] /\ job[w] # NoJob
                          => retry_count[job[w]] > 0

\* update_task_status: no other worker's late answer decides a job while the
\* worker it was handed to is still parsing it.
OnlyTheOwnerDecides ==
    \A w \in Workers : stage[w] \in {"parse", "complete"} /\ worker_id[job[w]] = w
                       => status[job[w]] \in {"processing", "cancelled"}

\* reset_stale_tasks, update_task_status: a job that has ended never runs again, whatever late
\* answers come, and a completed job does not fail nor the other way round; its end is only
\* replaced by a cancellation that saw the job before it was taken (see OnlyPendingIsCancelled),
\* and what was cancelled stays cancelled.
OnlyCancelReplacesEnd ==
    [][\A j \in Jobs :
          /\ status[j] \in {"completed", "failed"} =>
                 \/ status'[j] \in {status[j], "gone"}
                 \/ status'[j] = "cancelled" /\ cancelling[j] = "seen"
          /\ status[j] \in {"cancelled", "gone"} => status'[j] = status[j]]_tianshuVars

\* cancel_task: "取消任务（仅限 pending 状态）" (cancels a task, only in the state pending; api_server.py:611,
\* and README.md:356).  It does not hold: the status is read, and then written without a condition.
OnlyPendingIsCancelled ==
    [][\A j \in Jobs : status'[j] = "cancelled" => status[j] \in {"pending", "cancelled"}]_tianshuVars

\* _worker_loop, schedule_loop: every job that was submitted ends, as long as
\* there is a worker.
EveryJobEnds ==
    \A j \in Jobs : status[j] = "pending"
                    ~> status[j] \in Ended \/ \A w \in Workers : stage[w] = "dead"
=============================================================================
