----------------------------- MODULE ConnectorSync -----------------------------
(***************************************************************************)
(* The synchronisation of a data source (sync_data_source.py).  A          *)
(* connector may be linked to several datasets; per dataset there is a log *)
(* row that says from which time on the source is polled next.  One        *)
(* process lists the scheduled rows, runs a coroutine for each, waits for  *)
(* all of them and begins again.  A run puts in a row for the next one,    *)
(* from the newest time it has seen.  Rows of earlier runs are left out.   *)
(* The list joins the links by dataset alone: it names a row once for each *)
(* auto_parse that ANY connector of the dataset has, so that a row may be  *)
(* run twice.  Of the other connectors only these settings are modelled.   *)
(***************************************************************************)
EXTENDS Integers, FiniteSets, FiniteSetsExt

CONSTANTS Datasets,   \* datasets the connector may be linked to
          Objects,      \* objects of the source
          MaxChanges, \* bound: changes at the source
          MaxCommands,\* bound: requests for the connector
          MaxSyncFaults  \* bound: batches and runs that fail, deaths of the process

ASSUME SyncAssumption == MaxChanges \in Nat /\ MaxCommands \in Nat /\ MaxSyncFaults \in Nat
AutoParse == {"0", "1"}
Runs == Datasets \X AutoParse   \* a row, and the auto_parse it is listed with
NoDataset == "no dataset"
ASSUME SyncNames == NoDataset \notin Datasets

VARIABLES modified,  \* per item: when it was changed last, 0: not there
          now,       \* the source's clock
          holder,    \* per item: the dataset of its document; the id is the
                     \* hash of the item's, and so is the same for all datasets
          version,   \* per item: modified of what that document was made from
          linked,    \* datasets in Connector2Kb, with auto_parse "1"
          others,    \* per dataset: auto_parse of the other connectors linked to it
          connector_status,
          log,       \* per dataset: the newest row of SyncLogs
          sync,      \* per row and listing: its coroutine, with its copy of the row
          commands, mishaps, \* bounds
          meddled,   \* history: a request came in that may leave the connector stuck
          doubled    \* history: a row was run twice at a time

syncVars == <<modified, now, holder, version, linked, others, connector_status, log, sync, commands,
              mishaps, meddled, doubled>>
linkVars == <<linked, others>>
sourceVars == <<modified, now>>
docVars == <<holder, version>>

Row(s, from, full) == [status |-> s, start |-> from, end |-> 0, full |-> full]
Resting == [at |-> "idle", start |-> 0, full |-> FALSE, todo |-> {}, mine |-> FALSE]
Mishap == mishaps < MaxSyncFaults /\ mishaps' = mishaps + 1
Command == commands < MaxCommands /\ commands' = commands + 1
SyncsAtWork == {r \in Runs : sync[r].at # "idle"}
Working(k) == \E r \in SyncsAtWork : r[1] = k

SyncInit ==
    /\ modified = [i \in Objects |-> 1] /\ now = 1
    /\ holder = [i \in Objects |-> NoDataset] /\ version = [i \in Objects |-> 0]
    /\ linked = {} /\ others = [k \in Datasets |-> {}] /\ connector_status = "SCHEDULE"
    /\ log = [k \in Datasets |-> Row("none", 0, FALSE)]
    /\ sync = [r \in Runs |-> Resting]
    /\ commands = 0 /\ mishaps = 0 /\ meddled = FALSE /\ doubled = FALSE

\* Times at the source differ; at equal times "start < modified" would lose one.
ChangeItem(i) ==
    /\ now <= MaxChanges /\ now' = now + 1 /\ modified' = [modified EXCEPT ![i] = now + 1]
    /\ UNCHANGED <<docVars, linkVars, connector_status, log, sync, commands, mishaps, meddled, doubled>>

\* The distinct auto_parse with which list_sync_tasks lists a dataset's row.
Listings(k) == others[k] \cup (IF k \in linked THEN {"1"} ELSE {})
\* list_sync_tasks: rows that are due, if the connector is scheduled.
Due == {r \in Runs : /\ connector_status = "SCHEDULE" /\ log[r[1]].status = "SCHEDULE"
                     /\ r[2] \in Listings(r[1])}
\* Rows whose time has come are listed with every auto_parse they have.
DispatchTasks ==
    /\ SyncsAtWork = {}
    /\ \E ripe \in SUBSET Datasets :
          LET due == {r \in Due : r[1] \in ripe}
          IN  /\ due # {}
              /\ sync' = [r \in Runs |-> IF r \in due
                            THEN [Resting EXCEPT !.at = "called", !.start = log[r[1]].start,
                                                 !.full = log[r[1]].full, !.mine = TRUE]
                            ELSE Resting]
              /\ doubled' = (doubled \/ \E q, r \in due : q[1] = r[1] /\ q # r)
    /\ UNCHANGED <<sourceVars, docVars, linkVars, connector_status, log, commands, mishaps, meddled>>

\* What the run writes to its row, unless another row has taken its place.
Writes(r, s) == log' = [log EXCEPT ![r[1]].status = IF sync[r].mine THEN s ELSE @]

\* Mutant: an hour of another time zone is added to where the poll begins.
PolledLater(r) == {i \in Objects : sync[r].full \/ sync[r].start = 0 \/ modified[i] > sync[r].start + 1}
\* _generate and the connector's poll: start < modified, or everything.
Polled(r) == {i \in Objects : sync[r].full \/ sync[r].start = 0 \/ modified[i] > sync[r].start}
StartSync(r) ==
    /\ sync[r].at = "called"
    /\ Writes(r, "RUNNING") /\ connector_status' = "RUNNING"
    /\ sync' = [sync EXCEPT ![r].at = "poll", ![r].todo = {<<i, modified[i]>> : i \in Polled(r)}]
    /\ UNCHANGED <<sourceVars, docVars, linkVars, commands, mishaps, meddled, doubled>>

\* Mutant: the next poll starts at the time of this one's end.
SeenNow(s, t) == now
Seen(s, t) == Max({s, t})

\* duplicate_and_parse and increase_docs for one batch, here of one item.
StoreBatch(r, x) ==
    /\ sync[r].at = "poll" /\ x \in sync[r].todo
    /\ sync' = [sync EXCEPT ![r].todo = @ \ {x}, ![r].start = Seen(@, x[2])]
    /\ IF holder[x[1]] \in {NoDataset, r[1]}
         THEN /\ holder' = [holder EXCEPT ![x[1]] = r[1]]
              /\ version' = [version EXCEPT ![x[1]] = modified[x[1]]]
         ELSE UNCHANGED docVars
    /\ log' = [log EXCEPT ![r[1]] = IF sync[r].mine
                                      THEN [@ EXCEPT !.start = Max({log[r[1]].start, x[2]}),
                                                     !.end = Max({log[r[1]].end, x[2]})]
                                      ELSE @]
    /\ UNCHANGED <<sourceVars, linkVars, connector_status, commands, mishaps, meddled, doubled>>

\* The batch is skipped, and next_update has gone past it.
BatchFails(r, x) ==
    /\ sync[r].at = "poll" /\ x \in sync[r].todo /\ Mishap
    /\ sync' = [sync EXCEPT ![r].todo = @ \ {x}, ![r].start = Seen(@, x[2])]
    /\ UNCHANGED <<sourceVars, docVars, linkVars, connector_status, log, commands, meddled, doubled>>

\* An exception or the timeout: no row is put in for another run.
SyncFails(r) ==
    /\ sync[r].at = "poll" /\ Mishap
    /\ Writes(r, "FAIL") /\ sync' = [sync EXCEPT ![r] = Resting]
    /\ UNCHANGED <<sourceVars, docVars, linkVars, connector_status, commands, meddled, doubled>>

SyncDone(r) ==
    /\ sync[r].at = "poll" /\ sync[r].todo = {}
    /\ Writes(r, "DONE") /\ connector_status' = "DONE"
    /\ sync' = [sync EXCEPT ![r].at = "done"]
    /\ UNCHANGED <<sourceVars, docVars, linkVars, commands, mishaps, meddled, doubled>>

\* Mutant: the connector's own status is forgotten.
ScheduleRow(k, from, full) ==
    /\ log' = [log EXCEPT ![k] = IF @.status = "SCHEDULE" THEN @ ELSE Row("SCHEDULE", from, full)]
    /\ UNCHANGED connector_status

\* SyncLogsService.schedule; a row that is scheduled already stops it short.
Schedule(k, from, full) ==
    IF log[k].status = "SCHEDULE" THEN UNCHANGED <<log, connector_status>>
    ELSE /\ log' = [log EXCEPT ![k] = Row("SCHEDULE", from, full)]
         /\ connector_status' = "SCHEDULE"

\* The row is put in; a twin that still works has lost its place as the newest.
Reschedule(r) ==
    /\ sync[r].at = "done" /\ Schedule(r[1], sync[r].start, FALSE)
    /\ sync' = [q \in Runs |->
                  IF q = r THEN Resting
                  ELSE [sync[q] EXCEPT !.mine = @ /\ (q[1] = r[1] => log[r[1]].status = "SCHEDULE")]]
    /\ UNCHANGED <<sourceVars, docVars, linkVars, commands, mishaps, meddled, doubled>>

SyncDies ==
    /\ SyncsAtWork # {} /\ Mishap
    /\ sync' = [r \in Runs |-> Resting]
    /\ UNCHANGED <<sourceVars, docVars, linkVars, connector_status, log, commands, meddled, doubled>>

\* link_connectors, for a dataset that is new to the connector, or leaves it.
NotMine(k) == sync' = [r \in Runs |-> [sync[r] EXCEPT !.mine = @ /\ r[1] # k]]
LinkDataset(k) ==
    /\ k \notin linked /\ Command /\ linked' = linked \cup {k}
    /\ Schedule(k, 0, TRUE) /\ NotMine(k)
    /\ meddled' = (meddled \/ Working(k))
    /\ UNCHANGED <<sourceVars, docVars, others, mishaps, doubled>>

UnlinkDataset(k) ==
    /\ k \in linked /\ Command /\ linked' = linked \ {k}
    /\ log' = [log EXCEPT ![k].status = IF @ \in {"SCHEDULE", "RUNNING"} THEN "CANCEL" ELSE @]
    /\ UNCHANGED <<sourceVars, docVars, others, connector_status, sync, mishaps, meddled, doubled>>

\* link_connectors, for the other connectors of the dataset and their auto_parse.
LinkOthers(k, settings) ==
    /\ others[k] # settings /\ Command /\ others' = [others EXCEPT ![k] = settings]
    /\ UNCHANGED <<sourceVars, docVars, linked, connector_status, log, sync, mishaps, meddled, doubled>>

\* resume with CANCEL: the run that is under way goes on, and schedules the next.
Pause ==
    /\ linked # {} /\ Command /\ connector_status' = "CANCEL"
    /\ log' = [k \in Datasets |-> IF k \in linked THEN [log[k] EXCEPT !.status = "CANCEL"] ELSE log[k]]
    /\ meddled' = TRUE
    /\ UNCHANGED <<sourceVars, docVars, linkVars, sync, mishaps, doubled>>

\* resume with SCHEDULE returns at the first dataset whose run has ended.
Resume ==
    /\ linked # {} /\ Command
    /\ \E reached \in SUBSET linked :
          LET done == {k \in reached : log[k].status = "DONE"}
          IN  /\ IF done = {} THEN reached = linked /\ \A k \in linked : log[k].status # "DONE"
                              ELSE Cardinality(done) = 1
              /\ log' = [k \in Datasets |->
                           IF k \in done THEN Row("SCHEDULE", log[k].end, FALSE)
                           ELSE IF k \in reached THEN [log[k] EXCEPT !.status = "SCHEDULE"] ELSE log[k]]
              /\ sync' = [r \in Runs |-> [sync[r] EXCEPT !.mine = @ /\ r[1] \notin done]]
    /\ connector_status' = "SCHEDULE"
    /\ meddled' = (meddled \/ SyncsAtWork # {})
    /\ UNCHANGED <<sourceVars, docVars, linkVars, mishaps, doubled>>

\* rebuild: the rows, the documents of the dataset, a row from the beginning.
Rebuild(k) ==
    /\ k \in linked /\ Command
    /\ log' = [log EXCEPT ![k] = Row("SCHEDULE", 0, TRUE)] /\ connector_status' = "SCHEDULE"
    /\ holder' = [i \in Objects |-> IF holder[i] = k THEN NoDataset ELSE holder[i]]
    /\ version' = [i \in Objects |-> IF holder[i] = k THEN 0 ELSE version[i]]
    /\ NotMine(k)
    /\ meddled' = (meddled \/ SyncsAtWork # {})
    /\ UNCHANGED <<sourceVars, linkVars, mishaps, doubled>>

RunSync(r) == \/ StartSync(r) \/ SyncDone(r) \/ Reschedule(r)
              \/ \E x \in sync[r].todo : StoreBatch(r, x)
SyncNext ==
    \/ DispatchTasks \/ SyncDies \/ Pause \/ Resume
    \/ \E i \in Objects : ChangeItem(i)
    \/ \E r \in Runs : \/ RunSync(r) \/ SyncFails(r)
                       \/ \E x \in sync[r].todo : BatchFails(r, x)
    \/ \E k \in Datasets : \/ LinkDataset(k) \/ UnlinkDataset(k) \/ Rebuild(k)
                           \/ \E settings \in SUBSET AutoParse : LinkOthers(k, settings)

\* The coroutines go on; the process lists again and again, and every row is due some time.
SyncFairness ==
    /\ WF_syncVars(\E r \in Runs : RunSync(r))
    /\ \A k \in Datasets :
          SF_syncVars(DispatchTasks /\ \E r \in Runs : r[1] = k /\ sync'[r].at = "called")

SyncSpec == SyncInit /\ [][SyncNext]_syncVars /\ SyncFairness

----------------------------------------------------------------------------
SyncTypeOK ==
    /\ modified \in [Objects -> Nat] /\ now \in Nat
    /\ holder \in [Objects -> Datasets \cup {NoDataset}] /\ version \in [Objects -> Nat]
    /\ linked \subseteq Datasets /\ others \in [Datasets -> SUBSET AutoParse]
    /\ connector_status \in {"SCHEDULE", "RUNNING", "DONE", "CANCEL"}
    /\ log \in [Datasets -> [status : {"none", "SCHEDULE", "RUNNING", "DONE", "FAIL", "CANCEL"},
                             start : Nat, end : Nat, full : BOOLEAN]]
    /\ \A r \in Runs : sync[r].at \in {"idle", "called", "poll", "done"}

\* _run_task_logic: what the next poll will not look at again is up to date in the
\* dataset that holds it, however the source changes while it is read.
NothingIsMissed ==
    \A k \in Datasets, i \in Objects :
        mishaps = 0 /\ ~Working(k) /\ log[k].status = "SCHEDULE" /\ ~log[k].full
            /\ holder[i] = k /\ modified[i] <= log[k].start
        => version[i] = modified[i]

\* SyncLogsService.done and schedule: whichever dataset ends last, a connector that
\* nobody meddled with, and none of whose rows was listed twice, is waiting for its
\* next run or at work.
NeverStuck ==
    mishaps = 0 /\ ~meddled /\ ~doubled /\ SyncsAtWork = {} /\ linked # {}
        => connector_status = "SCHEDULE"

\* dispatch_tasks: a change at the source arrives in the dataset that holds the item,
\* but for what may leave the connector unscheduled: a mishap, a request, a row run twice.
ChangesArrive ==
    \A i \in Objects : holder[i] # NoDataset /\ version[i] < modified[i]
        ~> \/ version[i] = modified[i] \/ holder[i] \notin linked
           \/ mishaps > 0 \/ meddled \/ doubled
=============================================================================
