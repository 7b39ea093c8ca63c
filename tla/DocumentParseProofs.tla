------------------------- MODULE DocumentParseProofs -------------------------
(***************************************************************************)
(* What holds of DocumentParse for any number of pages, progress threads   *)
(* and faults.  Four theorems: its types, with the link between executors  *)
(* and queue; that only a request takes "CANCEL" back; that what a         *)
(* finished task has recorded is stored; that a stopped or removed         *)
(* document leaves no chunks behind.                                       *)
(*                                                                         *)
(* IInv adds to TypeOK the types of what clients and syncers hold between  *)
(* two statements.  The last two theorems rest on where a request stands:  *)
(* what is left of it is a suffix of its script (OnScript), so that the    *)
(* number of statements left tells the next one (AtStart, AtStop,          *)
(* AtRemoval).  To each number belongs what the request has done so far:   *)
(* PlanAt and Recorded for the third theorem, StageAt, InSight and Cleared *)
(* for the fourth.                                                         *)
(***************************************************************************)
EXTENDS DocumentParse, FiniteSetTheorems, SequenceTheorems, TLAPS

StepNames == {"ReadDoc", "ClearKb", "Mark", "CheckTasks", "FindTasks", "FlagTasks", "DropTasks",
              "DropChunks", "DeleteDoc", "ReadTasks", "DropOldChunks", "SetChunkNum",
              "InsertTasks", "BeginParse", "Publish"}

RunValues == {"UNSTART", "RUNNING", "CANCEL", "DONE", "FAIL"}

RequestType == [kind : Kinds \cup {"none"}, rest : Seq(StepNames), saw : RunValues \cup {"none"},
                reuse : SUBSET Pages, drop : SUBSET Pages, todo : SUBSET Tasks]

SyncType == [at : {"idle", "doc", "write"}, run : {"none", "RUNNING", "FAIL", "DONE"},
             progress : -1 .. 2]

\* TypeOK by store, so that a step is held against the stores it writes.
DocOK == /\ there \in BOOLEAN
         /\ run \in RunValues
         /\ progress \in -1 .. 2
         /\ chunkNum \in Nat /\ kbChunkNum \in Int

TaskOK == /\ rows \subseteq Tasks /\ chunkIds \subseteq rows
          /\ taskProgress \in [Tasks -> -1 .. 2]

FlagOK  == cancelKey \subseteq Tasks
StoreOK == store \subseteq Pages

ReqOK == req \in [Clients -> RequestType] /\ runs \in 0 .. MaxRuns

WorkOK == /\ Queue!LifecycleTypeOK
          /\ pc \in [Tasks -> PC]
          /\ \A t \in Tasks : pc[t] # "none" <=> status[t] = "running"

\* A verdict is held only until it is written, and a task forms one only after
\* its clean-up.
SyncOK == /\ sync \in [Syncers -> SyncType]
          /\ \A s \in Syncers : sync[s].at # "idle" => sync[s].run # "none"
          /\ \A t \in Tasks : sync[t].at # "idle" => pc[t] = "record"

IInv == DocOK /\ TaskOK /\ FlagOK /\ StoreOK /\ ReqOK /\ WorkOK /\ SyncOK

LEMMA IInvTypes == IInv => TypeOK
  BY DEF IInv, DocOK, RunValues, TaskOK, FlagOK, StoreOK, WorkOK, SyncOK, SyncType, TypeOK

----------------------------------------------------------------------------
(* Requests *)

LEMMA ScriptTypes == \A k \in Kinds : Script[k] \in Seq(StepNames)
<1>1. QueueTasks \in Seq(StepNames)
  BY DEF QueueTasks, StepNames
<1>2. /\ RunSteps \in Seq(StepNames)
      /\ KeepSteps \in Seq(StepNames)
      /\ RedoSteps \in Seq(StepNames)
      /\ CancelSteps \in Seq(StepNames)
      /\ ParseSteps \in Seq(StepNames)
      /\ StopSteps \in Seq(StepNames)
      /\ RemoveSteps \in Seq(StepNames)
  BY <1>1 DEF RunSteps, KeepSteps, RedoSteps, CancelSteps, ParseSteps, StopSteps, RemoveSteps, StepNames
<1>3. DeleteDocsSteps \in Seq(StepNames)
  BY <1>2 DEF DeleteDocsSteps, StepNames
<1>4. QED
  BY <1>2, <1>3, ParseAssumption DEF Script

LEMMA NoRequestType == NoRequest \in RequestType
<1>1. <<>> \in Seq(StepNames)
  OBVIOUS
<1>2. {} \in SUBSET Pages /\ {} \in SUBSET Tasks
  BY Zenon
<1>3. "none" \in Kinds \cup {"none"} /\ "none" \in RunValues \cup {"none"}
  BY Zenon
<1>4. QED
  BY <1>1, <1>2, <1>3, Zenon DEF NoRequest, RequestType

LEMMA GoType ==
  ASSUME ReqOK, NEW c \in Clients, NEW step, At(c, step),
         NEW r \in RequestType, r.rest = req[c].rest, GoWith(c, r), runs' = runs
  PROVE  ReqOK' /\ req' # req
<1> DEFINE next == IF Len(r.rest) = 1 THEN NoRequest ELSE [r EXCEPT !.rest = Tail(@)]
<1>1. r.rest \in Seq(StepNames) /\ r.rest # <<>>
  BY DEF RequestType, At, Busy
<1>2. Tail(r.rest) \in Seq(StepNames) /\ Tail(r.rest) # r.rest
  <2> HIDE DEF next
  <2> DEFINE rest == r.rest
  <2>1. rest \in Seq(StepNames) /\ rest # <<>>
    BY <1>1
  <2> HIDE DEF rest
  <2>2. Tail(rest) \in Seq(StepNames) /\ Len(Tail(rest)) = Len(rest) - 1 /\ Len(rest) \in Nat
    BY <2>1, HeadTailProperties, LenProperties
  <2>3. \A n \in Nat : n - 1 # n
    OBVIOUS
  <2>4. Len(Tail(rest)) # Len(rest)
    BY <2>2, <2>3, Zenon
  <2>5. Tail(rest) # rest
    BY <2>4, Zenon
  <2> QED
    BY <2>2, <2>5 DEF rest
<1>3. next \in RequestType
  BY <1>2, NoRequestType DEF RequestType
<1>4. next.rest # req[c].rest
  BY <1>1, <1>2 DEF NoRequest, RequestType
<1>5. req' = [req EXCEPT ![c] = next]
  BY DEF GoWith
<1> QED
  BY <1>3, <1>4, <1>5 DEF ReqOK

LEMMA GoOnType ==
  ASSUME ReqOK, NEW c \in Clients, NEW step, At(c, step), Go(c), runs' = runs
  PROVE  ReqOK' /\ req' # req
<1>1. req[c] \in RequestType
  BY DEF ReqOK
<1> QED
  BY <1>1, GoType DEF Go

LEMMA RefuseType ==
  ASSUME ReqOK, NEW c \in Clients, Busy(c), Refuse(c), runs' = runs
  PROVE  ReqOK' /\ req' # req
<1>1. NoRequest.rest = <<>>
  BY DEF NoRequest
<1> QED
  BY <1>1, NoRequestType DEF ReqOK, Refuse, Busy

LEMMA TodoType ==
  ASSUME ReqOK, NEW c \in Clients, NEW t, req' = [req EXCEPT ![c].todo = @ \ {t}], runs' = runs
  PROVE  ReqOK'
<1>1. req[c] \in RequestType
  BY DEF ReqOK
<1>2. [req[c] EXCEPT !.todo = @ \ {t}] \in RequestType
  BY <1>1 DEF RequestType
<1> QED
  BY <1>2 DEF ReqOK

----------------------------------------------------------------------------
(* Steps.  What a step leaves alone stays well formed. *)

\* A step takes "CANCEL" back only if it is one of a request.
Taken == run = "CANCEL" /\ run' # "CANCEL" => req' # req

LEMMA Frame ==
  ASSUME IInv
  PROVE  /\ UNCHANGED docVars => DocOK' /\ Taken
         /\ UNCHANGED taskVars => TaskOK'
         /\ UNCHANGED cancelKey => FlagOK'
         /\ UNCHANGED store => StoreOK'
         /\ UNCHANGED clientVars => ReqOK'
         /\ UNCHANGED <<queueVars, pc>> => WorkOK'
         /\ UNCHANGED <<pc, sync>> => SyncOK'
<1> USE DEF IInv
<1>1. UNCHANGED docVars => DocOK' /\ Taken
  BY DEF docVars, DocOK, Taken
<1>2. UNCHANGED taskVars => TaskOK'
  BY DEF taskVars, TaskOK
<1>3. /\ UNCHANGED cancelKey => FlagOK'
      /\ UNCHANGED store => StoreOK'
  BY DEF FlagOK, StoreOK
<1>4. UNCHANGED clientVars => ReqOK'
  BY DEF clientVars, ReqOK
<1>5. UNCHANGED <<queueVars, pc>> => WorkOK'
  BY DEF queueVars, WorkOK, Queue!LifecycleTypeOK
<1>6. UNCHANGED <<pc, sync>> => SyncOK'
  BY DEF SyncOK
<1> QED
  BY <1>1, <1>2, <1>3, <1>4, <1>5, <1>6

\* The statements of requests that do not touch the queue.
LEMMA ReadStep ==
  ASSUME IInv, NEW c \in Clients,
         ReadDoc(c) \/ CheckTasks(c) \/ FindTasks(c) \/ ReadTasks(c)
  PROVE  ReqOK'
<1> USE DEF IInv
<1>1. req[c] \in RequestType
  BY DEF ReqOK
<1>2. CASE ReadDoc(c)
  <2>1. [req[c] EXCEPT !.saw = run] \in RequestType
    BY <1>1 DEF RequestType, DocOK
  <2>2. Busy(c) /\ runs' = runs
    BY <1>2 DEF ReadDoc, At
  <2>3. CASE Refuse(c)
    BY <2>2, <2>3, RefuseType
  <2>4. CASE GoWith(c, [req[c] EXCEPT !.saw = run])
    <3>1. [req[c] EXCEPT !.saw = run].rest = req[c].rest
      BY <1>1 DEF RequestType
    <3> QED
      BY <1>2, <2>1, <2>2, <2>4, <3>1, GoType DEF ReadDoc
  <2> QED
    BY <1>2, <2>3, <2>4 DEF ReadDoc
<1>3. CASE CheckTasks(c)
  BY <1>3, GoOnType, RefuseType DEF CheckTasks, At
<1>4. CASE FindTasks(c)
  <2>1. [req[c] EXCEPT !.todo = rows] \in RequestType
    BY <1>1 DEF RequestType, TaskOK
  <2>2. [req[c] EXCEPT !.todo = rows].rest = req[c].rest
    BY <1>1 DEF RequestType
  <2> QED
    BY <1>4, <2>1, <2>2, GoType DEF FindTasks
<1>5. CASE ReadTasks(c)
  <2>1. Busy(c) /\ runs' = runs
    BY <1>5 DEF ReadTasks, At
  <2>2. CASE Refuse(c)
    BY <2>1, <2>2, RefuseType
  <2>3. CASE req' = [req EXCEPT ![c].rest = SubSeq(@, 4, Len(@))]
    <3> DEFINE rest == req[c].rest
    <3>1. rest \in Seq(StepNames) /\ Len(rest) \in Nat
      BY <1>1, LenProperties DEF RequestType
    <3>2. \A i \in 4 .. Len(rest) : rest[i] \in StepNames
      BY <3>1, ElementOfSeq
    <3>3. SubSeq(rest, 4, Len(rest)) \in Seq(StepNames)
      BY <3>1, <3>2, SubSeqProperties
    <3>4. [req[c] EXCEPT !.rest = SubSeq(@, 4, Len(@))] \in RequestType
      BY <1>1, <3>3 DEF RequestType
    <3> QED
      BY <2>1, <2>3, <3>4 DEF ReqOK
  <2>4. ASSUME NEW reuse \in SUBSET Pages, NEW drop \in SUBSET Pages,
               GoWith(c, [req[c] EXCEPT !.reuse = reuse, !.drop = drop])
        PROVE  ReqOK'
    <3>1. /\ [req[c] EXCEPT !.reuse = reuse, !.drop = drop] \in RequestType
          /\ [req[c] EXCEPT !.reuse = reuse, !.drop = drop].rest = req[c].rest
      BY <1>1 DEF RequestType
    <3> QED
      BY <1>5, <2>1, <2>4, <3>1, GoType DEF ReadTasks
  <2>5. \A t \in Tasks : PageOf(t) \in Pages
    BY DEF Tasks, PageOf
  <2> QED
    <3> DEFINE reuse == {p \in Pages : Reusable(p)}
               old == {t \in chunkIds : ~(PageOf(t) \in reuse /\ t \in Latest(PageOf(t)))}
               drop == {PageOf(t) : t \in old}
    <3>1. reuse \in SUBSET Pages /\ drop \in SUBSET Pages
      BY <2>5 DEF TaskOK
    <3>2. \/ Refuse(c)
          \/ req' = [req EXCEPT ![c].rest = SubSeq(@, 4, Len(@))]
          \/ GoWith(c, [req[c] EXCEPT !.reuse = reuse, !.drop = drop])
      BY <1>5 DEF ReadTasks
    <3> HIDE DEF reuse, drop
    <3> QED
      BY <2>2, <2>3, <2>4, <3>1, <3>2
<1> QED
  BY <1>2, <1>3, <1>4, <1>5

LEMMA ClientStep ==
  ASSUME IInv, NEW c \in Clients, Client(c)
  PROVE  IInv' /\ Taken
<1> USE DEF docVars, taskVars, queueVars, clientVars
<1>0. req[c] \in RequestType
  BY DEF IInv, ReqOK
<1>1. CASE ReadDoc(c) \/ CheckTasks(c) \/ FindTasks(c) \/ ReadTasks(c)
  <2>1. UNCHANGED <<docVars, taskVars, cancelKey, queueVars, store, pc, sync>>
    BY <1>1 DEF ReadDoc, CheckTasks, FindTasks, ReadTasks
  <2> QED
    BY <1>1, <2>1, ReadStep, Frame DEF IInv
<1>2. CASE ClearKb(c)
  <2>1. ReqOK'
    BY <1>2, GoOnType, RefuseType DEF ClearKb, IInv, At
  <2>2. DocOK' /\ Taken
    BY <1>2 DEF ClearKb, IInv, DocOK, Taken
  <2> QED
    BY <1>2, <2>1, <2>2, Frame DEF ClearKb, IInv
<1>3. CASE Mark(c)
  <2>1. ReqOK' /\ req' # req
    BY <1>3, GoOnType DEF Mark, IInv
  <2>2. DocOK'
    BY <1>3 DEF Mark, IInv, DocOK, RunValues
  <2> QED
    BY <1>3, <2>1, <2>2, Frame DEF Mark, IInv, Taken
<1>4. CASE FlagTasks(c)
  <2>1. ReqOK'
    BY <1>4, GoOnType, TodoType DEF FlagTasks, IInv
  <2>2. FlagOK'
    BY <1>0, <1>4 DEF FlagTasks, IInv, FlagOK, RequestType
  <2> QED
    BY <1>4, <2>1, <2>2, Frame DEF FlagTasks, IInv
<1>5. CASE DropTasks(c)
  <2>1. ReqOK'
    BY <1>5, GoOnType DEF DropTasks, IInv
  <2>2. TaskOK'
    BY <1>5 DEF DropTasks, TaskOK
  <2> QED
    BY <1>5, <2>1, <2>2, Frame DEF DropTasks, IInv
<1>6. CASE DropChunks(c) \/ DropOldChunks(c)
  <2>1. ReqOK'
    BY <1>6, GoOnType DEF DropChunks, DropOldChunks, IInv
  <2>2. StoreOK'
    BY <1>6 DEF DropChunks, DropOldChunks, IInv, StoreOK
  <2> QED
    BY <1>6, <2>1, <2>2, Frame DEF DropChunks, DropOldChunks, IInv
<1>7. CASE DeleteDoc(c)
  <2>1. ReqOK' /\ req' # req
    BY <1>7, GoOnType, RefuseType DEF DeleteDoc, IInv, At
  <2>2. DocOK'
    <3>1. CASE UNCHANGED docVars
      BY <3>1, Frame
    <3>2. CASE /\ there' = FALSE /\ run' = "UNSTART" /\ progress' = 0 /\ chunkNum' = 0
               /\ kbChunkNum' = kbChunkNum - chunkNum
      <4>1. there' \in BOOLEAN
        BY <3>2, Zenon
      <4>2. kbChunkNum' \in Int
        BY <3>2 DEF IInv, DocOK
      <4> QED
        BY <3>2, <4>1, <4>2 DEF DocOK, RunValues
    <3> QED
      BY <1>7, <3>1, <3>2 DEF DeleteDoc
  <2> QED
    BY <1>7, <2>1, <2>2, Frame DEF DeleteDoc, IInv, Taken
<1>8. CASE SetChunkNum(c)
  <2>1. ReqOK'
    BY <1>8, GoOnType DEF SetChunkNum, IInv
  <2>2. Cardinality(req[c].reuse) \in Nat
    BY <1>0, ParseAssumption, FS_Subset, FS_CardinalityType DEF RequestType
  <2>3. DocOK' /\ Taken
    BY <1>8, <2>2 DEF SetChunkNum, IInv, DocOK, Taken
  <2> QED
    BY <1>8, <2>1, <2>3, Frame DEF SetChunkNum, IInv
<1>9. CASE InsertTasks(c)
  <2> DEFINE new == {runs'} \X Pages
             reused == {runs'} \X req[c].reuse
  <2>1. runs' \in Runs /\ runs' \in 0 .. MaxRuns /\ runs' = runs + 1
    BY <1>9, ParseAssumption DEF InsertTasks, IInv, ReqOK, Runs
  <2>2. new \subseteq Tasks /\ reused \subseteq new
    BY <1>0, <2>1 DEF Tasks, RequestType
  <2>3. ReqOK'
    <3> DEFINE r == [req[c] EXCEPT !.todo = new \ reused]
               next == IF Len(r.rest) = 1 THEN NoRequest ELSE [r EXCEPT !.rest = Tail(@)]
    <3>1. r \in RequestType /\ r.rest = req[c].rest
      BY <1>0, <2>2 DEF RequestType
    <3>2. r.rest \in Seq(StepNames) /\ r.rest # <<>>
      BY <1>9, <3>1 DEF InsertTasks, At, Busy, RequestType
    <3> DEFINE rest == r.rest
    <3>3. Tail(r.rest) \in Seq(StepNames)
      <4>1. rest \in Seq(StepNames) /\ rest # <<>>
        BY <3>2
      <4> HIDE DEF rest
      <4>2. Tail(rest) \in Seq(StepNames)
        BY <4>1, HeadTailProperties
      <4> QED
        BY <4>2 DEF rest
    <3>4. next \in RequestType
      BY <3>1, <3>3, NoRequestType DEF RequestType
    <3>5. req' = [req EXCEPT ![c] = next]
      BY <1>9 DEF InsertTasks, GoWith
    <3> HIDE DEF next
    <3> QED
      BY <2>1, <3>4, <3>5 DEF IInv, ReqOK
  <2>4. TaskOK'
    <3>1. /\ rows' = rows \cup new
          /\ chunkIds' = chunkIds \cup reused
          /\ taskProgress' = [t \in Tasks |-> IF t \in reused THEN 2 ELSE taskProgress[t]]
      BY <1>9 DEF InsertTasks
    <3> HIDE DEF new, reused
    <3> QED
      BY <2>2, <3>1 DEF IInv, TaskOK
  <2> QED
    BY <1>9, <2>3, <2>4, Frame DEF InsertTasks, IInv
<1>10. CASE BeginParse(c)
  <2>1. ReqOK' /\ req' # req
    BY <1>10, GoOnType DEF BeginParse, IInv
  <2>2. DocOK'
    BY <1>10 DEF BeginParse, IInv, DocOK, RunValues
  <2> QED
    BY <1>10, <2>1, <2>2, Frame DEF BeginParse, IInv, Taken
<1>11. CASE Publish(c)
  <2>1. ReqOK'
    BY <1>11, GoOnType, TodoType DEF Publish, IInv
  <2>2. WorkOK'
    <3>1. CASE UNCHANGED queueVars
      BY <1>11, <3>1, Frame DEF Publish
    <3>2. CASE \E t \in req[c].todo : Queue!Publish(t)
      <4>1. PICK t \in Tasks : Queue!Publish(t)
        BY <1>0, <3>2 DEF RequestType
      <4>2. pc' = pc
        BY <1>11 DEF Publish
      <4> QED
        BY <4>1, <4>2 DEF IInv, WorkOK, Queue!LifecycleTypeOK, Queue!Status, Queue!Publish, Queue!Move
    <3> QED
      BY <1>11, <3>1, <3>2 DEF Publish
  <2> QED
    BY <1>11, <2>1, <2>2, Frame DEF Publish, IInv
<1> QED
  BY <1>1, <1>2, <1>3, <1>4, <1>5, <1>6, <1>7, <1>8, <1>9, <1>10, <1>11 DEF Client

LEMMA RequestStep ==
  ASSUME IInv, NEW c \in Clients,
         Abort(c) \/ \E k \in Kinds : Request(c, k)
  PROVE  IInv' /\ Taken
<1>1. ReqOK'
  <2>1. CASE Abort(c)
    BY <2>1, RefuseType DEF Abort, IInv, clientVars
  <2>2. ASSUME NEW k \in Kinds, Request(c, k) PROVE ReqOK'
    <3>1. [NoRequest EXCEPT !.kind = k, !.rest = Script[k]] \in RequestType
      BY NoRequestType, ScriptTypes DEF RequestType
    <3> QED
      BY <2>2, <3>1 DEF Request, IInv, ReqOK
  <2> QED
    BY <2>1, <2>2
<1>2. UNCHANGED <<docVars, taskVars, cancelKey, queueVars, store, pc, sync>>
  BY DEF Abort, Request
<1> QED
  BY <1>1, <1>2, Frame DEF IInv

\* An executor's step moves one running task; it never writes the document's run.
LEMMA MoveType ==
  ASSUME IInv, NEW t \in Tasks, NEW label \in PC \ {"none"},
         pc[t] \notin {"none", "record"}, Move(t, label), UNCHANGED <<queueVars, sync>>
  PROVE  WorkOK' /\ SyncOK'
<1>1. WorkOK'
  BY DEF IInv, WorkOK, Move, queueVars, Queue!LifecycleTypeOK
<1>2. SyncOK'
  BY DEF IInv, WorkOK, SyncOK, Move
<1> QED
  BY <1>1, <1>2

LEMMA ProgressType ==
  ASSUME IInv, NEW t, NEW p \in -1 .. 2, Progress(t, p), UNCHANGED <<rows, chunkIds>>
  PROVE  TaskOK'
  BY DEF IInv, TaskOK, Progress

LEMMA CollectStep ==
  ASSUME IInv, NEW t \in Tasks, Collect(t)
  PROVE  IInv' /\ Taken
<1>1. UNCHANGED <<docVars, rows, chunkIds, cancelKey, store, clientVars, sync>>
  BY DEF Collect
<1>2. status[t] = "pending" /\ pc[t] = "none"
  BY DEF Collect, IInv, WorkOK
<1>3. ASSUME Queue!Drop(t), UNCHANGED pc PROVE WorkOK' /\ SyncOK'
  <2>1. WorkOK'
    BY <1>2, <1>3 DEF IInv, WorkOK, Queue!LifecycleTypeOK, Queue!Status, Queue!Drop, Queue!Move
  <2>2. SyncOK'
    BY <1>1, <1>3, Frame
  <2> QED
    BY <2>1, <2>2
<1>4. ASSUME StartTask(t) PROVE WorkOK' /\ SyncOK'
  <2>1. pc' = [pc EXCEPT ![t] = "build"]
    BY <1>4 DEF StartTask, Move
  <2>2. WorkOK'
    BY <1>2, <1>4, <2>1, ParseAssumption
       DEF StartTask, IInv, WorkOK, Queue!LifecycleTypeOK, Queue!Status, Queue!Start, Queue!Move, PC
  <2>3. SyncOK'
    BY <1>1, <1>2, <2>1 DEF IInv, SyncOK, WorkOK
  <2> QED
    BY <2>2, <2>3
<1>5. WorkOK' /\ SyncOK'
  BY <1>3, <1>4 DEF Collect, DropUnknown, Abandon, DropCancelled
<1>6. TaskOK'
  BY <1>1 DEF Collect, DropUnknown, Abandon, DropCancelled, StartTask, Overwrite, IInv, TaskOK
<1> QED
  BY <1>1, <1>5, <1>6, Frame DEF IInv

LEMMA WorkStep ==
  ASSUME IInv, NEW t \in Tasks, Work(t)
  PROVE  IInv' /\ Taken
<1> USE DEF docVars, taskVars, PC
<1>1. CASE Collect(t)
  BY <1>1, CollectStep
<1>2. CASE Build(t)
  <2>1. TaskOK'
    BY <1>2, ProgressType DEF Build, BuildCancelled, BuildFails, NoChunks, Embed
  <2>2. WorkOK' /\ SyncOK'
    BY <1>2, MoveType DEF Build, BuildCancelled, BuildFails, NoChunks, Embed
  <2> QED
    BY <1>2, <2>1, <2>2, Frame DEF Build, IInv
<1>3. CASE CheckBeforeInsert(t) \/ CheckBeforeCount(t) \/ CheckBeforeDone(t) \/ TaskDone(t)
  <2> USE DEF CheckBeforeInsert, CheckBeforeCount, CheckBeforeDone, TaskDone
  <2>1. TaskOK'
    BY <1>3, ProgressType, Frame DEF IInv
  <2>2. WorkOK' /\ SyncOK'
    BY <1>3, MoveType
  <2> QED
    BY <1>3, <2>1, <2>2, Frame DEF IInv
<1>4. CASE InsertChunks(t)
  <2>1. StoreOK'
    <3>1. PageOf(t) \in Pages
      BY DEF Tasks, PageOf
    <3> QED
      BY <1>4, <3>1 DEF InsertChunks, IInv, StoreOK
  <2>2. WorkOK' /\ SyncOK'
    BY <1>4, MoveType DEF InsertChunks
  <2> QED
    BY <1>4, <2>1, <2>2, Frame DEF InsertChunks, IInv
<1>5. CASE CheckAfterInsert(t)
  <2>1. TaskOK'
    <3>1. CASE UNCHANGED chunkIds
      BY <1>5, <3>1, ProgressType, Frame DEF CheckAfterInsert, IInv
    <3>2. CASE UNCHANGED taskProgress
      BY <1>5, <3>2 DEF CheckAfterInsert, IInv, TaskOK
    <3> QED
      BY <1>5, <3>1, <3>2 DEF CheckAfterInsert
  <2>2. WorkOK' /\ SyncOK'
    BY <1>5, MoveType DEF CheckAfterInsert
  <2> QED
    BY <1>5, <2>1, <2>2, Frame DEF CheckAfterInsert, IInv
<1>6. CASE CountDoc(t) \/ CountKb(t)
  <2>1. DocOK' /\ Taken
    BY <1>6 DEF CountDoc, CountKb, IInv, DocOK, Taken
  <2>2. WorkOK' /\ SyncOK'
    BY <1>6, MoveType DEF CountDoc, CountKb
  <2> QED
    BY <1>6, <2>1, <2>2, Frame DEF CountDoc, CountKb, IInv
<1>7. CASE Finally(t) \/ Wipe(t)
  <2>1. StoreOK'
    BY <1>7 DEF Finally, Wipe, IInv, StoreOK
  <2>2. WorkOK' /\ SyncOK'
    BY <1>7, MoveType DEF Finally, Wipe
  <2> QED
    BY <1>7, <2>1, <2>2, Frame DEF Finally, Wipe, IInv
<1>8. CASE Ack(t)
  <2>1. pc' = [pc EXCEPT ![t] = "none"] /\ pc[t] = "ack"
    BY <1>8 DEF Ack, Move
  <2>2. WorkOK'
    BY <1>8, <2>1 DEF Ack, IInv, WorkOK, Queue!LifecycleTypeOK, Queue!Status, Queue!Settle, Queue!Move
  <2>3. SyncOK'
    BY <1>8, <2>1 DEF Ack, IInv, SyncOK, WorkOK
  <2> QED
    BY <1>8, <2>2, <2>3, Frame DEF Ack, IInv
<1> QED
  BY <1>1, <1>2, <1>3, <1>4, <1>5, <1>6, <1>7, <1>8 DEF Work

LEMMA FaultStep ==
  ASSUME IInv, \/ \E t \in Tasks : ExpireKey(t)
               \/ \E S \in SUBSET Tasks : Crash(S)
  PROVE  IInv' /\ Taken
<1>1. ASSUME NEW t \in Tasks, ExpireKey(t) PROVE IInv' /\ Taken
  <2>1. FlagOK'
    BY <1>1 DEF ExpireKey, IInv, FlagOK
  <2> QED
    BY <1>1, <2>1, Frame DEF ExpireKey, IInv
<1>2. ASSUME NEW S \in SUBSET Tasks, Crash(S) PROVE IInv' /\ Taken
  <2>1. WorkOK'
    BY <1>2 DEF Crash, IInv, WorkOK, PC, Queue!LifecycleTypeOK, Queue!Status, Queue!Requeue
  <2>2. NoSync \in SyncType /\ NoSync.at = "idle"
    BY DEF NoSync, SyncType
  <2>3. Tasks \subseteq Syncers
    BY DEF Syncers
  <2>4. SyncOK'
    BY <1>2, <2>2, <2>3 DEF Crash, IInv, SyncOK, WorkOK
  <2> QED
    BY <1>2, <2>1, <2>4, Frame DEF Crash, IInv
<1> QED
  BY <1>1, <1>2

LEMMA LeaveType ==
  ASSUME IInv, NEW s \in Syncers, s \notin Watchers => pc[s] = "record",
         Leave(s), UNCHANGED queueVars
  PROVE  WorkOK' /\ SyncOK'
<1>1. NoSync \in SyncType /\ NoSync.at = "idle"
  BY DEF NoSync, SyncType
<1>2. Tasks \subseteq Syncers /\ (s \notin Watchers => s \in Tasks)
  BY DEF Syncers
<1>3. s \in Watchers => s \notin Tasks
  BY ParseAssumption
<1>4. CASE s \in Watchers
  <2>1. WorkOK'
    BY <1>4, Frame DEF Leave
  <2>2. SyncOK'
    BY <1>1, <1>2, <1>3, <1>4 DEF Leave, IInv, SyncOK
  <2> QED
    BY <2>1, <2>2
<1>5. CASE s \notin Watchers
  <2>1. pc' = [pc EXCEPT ![s] = "ack"] /\ s \in Tasks /\ pc[s] = "record"
    BY <1>2, <1>5 DEF Leave
  <2>2. WorkOK'
    BY <2>1 DEF IInv, WorkOK, PC, queueVars, Queue!LifecycleTypeOK
  <2>3. sync' = [sync EXCEPT ![s] = NoSync]
    BY DEF Leave
  <2>4. SyncOK'
    BY <1>1, <1>2, <2>1, <2>3 DEF IInv, SyncOK, WorkOK
  <2> QED
    BY <2>2, <2>4
<1> QED
  BY <1>4, <1>5

LEMMA SyncStep ==
  ASSUME IInv, NEW s \in Syncers, Sync(s)
  PROVE  IInv' /\ Taken
<1> USE DEF docVars
<1>1. Tasks \subseteq Syncers /\ (s \notin Watchers => s \in Tasks)
  BY DEF Syncers
<1>2. s \in Watchers => s \notin Tasks
  BY ParseAssumption
<1>3. CASE SyncTasks(s)
  <2>1. s \notin Watchers => pc[s] = "record"
    BY <1>3 DEF SyncTasks
  <2>2. CASE Leave(s)
    BY <1>3, <2>1, <2>2, LeaveType, Frame DEF SyncTasks, IInv
  <2>3. CASE sync' = [sync EXCEPT ![s] = Verdict] /\ UNCHANGED pc
    <3>1. Verdict \in SyncType /\ Verdict.run # "none"
      BY DEF Verdict, Says, SyncType
    <3>2. SyncOK'
      BY <1>1, <1>2, <2>1, <2>3, <3>1 DEF IInv, SyncOK
    <3> QED
      BY <1>3, <2>3, <3>2, Frame DEF SyncTasks, IInv
  <2> QED
    BY <1>3, <2>2, <2>3 DEF SyncTasks
<1>4. sync[s] \in SyncType /\ (sync[s].at # "idle" => (s \notin Watchers => pc[s] = "record"))
  BY <1>1 DEF IInv, SyncOK
<1>5. CASE SyncDoc(s)
  <2>1. CASE Leave(s)
    BY <1>4, <1>5, <2>1, LeaveType, Frame DEF SyncDoc, IInv
  <2>2. CASE sync' = [sync EXCEPT ![s].at = "write"] /\ UNCHANGED pc
    <3> DEFINE r == [sync[s] EXCEPT !.at = "write"]
    <3>1. r \in SyncType /\ r.run = sync[s].run /\ sync[s].at = "doc"
      BY <1>4, <1>5 DEF SyncType, SyncDoc
    <3>2. sync' = [sync EXCEPT ![s] = r]
      BY <2>2
    <3> HIDE DEF r
    <3>3. SyncOK'
      BY <1>1, <1>4, <2>2, <3>1, <3>2 DEF IInv, SyncOK
    <3> QED
      BY <1>5, <2>2, <3>3, Frame DEF SyncDoc, IInv
  <2> QED
    BY <1>5, <2>1, <2>2 DEF SyncDoc
<1>6. CASE SyncWrite(s)
  <2>1. WorkOK' /\ SyncOK'
    BY <1>4, <1>6, LeaveType DEF SyncWrite
  <2>2. sync[s].run \in RunValues /\ sync[s].progress \in -1 .. 2
    BY <1>4, <1>6 DEF SyncWrite, SyncType, RunValues, IInv, SyncOK
  <2>3. DocOK' /\ Taken
    BY <1>6, <2>2 DEF SyncWrite, IInv, DocOK, Taken
  <2> QED
    BY <1>6, <2>1, <2>3, Frame DEF SyncWrite, IInv
<1> QED
  BY <1>3, <1>5, <1>6 DEF Sync

----------------------------------------------------------------------------
LEMMA InitIInv == Init => IInv
<1> SUFFICES ASSUME Init PROVE IInv
  OBVIOUS
<1>1. DocOK /\ TaskOK /\ FlagOK /\ StoreOK
  BY DEF Init, DocOK, TaskOK, FlagOK, StoreOK, RunValues
<1>2. ReqOK
  BY NoRequestType, ParseAssumption DEF Init, ReqOK
<1>3. WorkOK
  BY ParseAssumption DEF Init, WorkOK, PC, Queue!Init, Queue!LifecycleTypeOK, Queue!Status
<1>4. NoSync \in SyncType /\ NoSync.at = "idle" /\ Tasks \subseteq Syncers
  BY DEF NoSync, SyncType, Syncers
<1>5. SyncOK
  BY <1>4 DEF Init, SyncOK
<1> QED
  BY <1>1, <1>2, <1>3, <1>5 DEF IInv

LEMMA NextIInv == IInv /\ [Next]_vars => IInv' /\ Taken
<1> SUFFICES ASSUME IInv, [Next]_vars PROVE IInv' /\ Taken
  OBVIOUS
<1>1. CASE UNCHANGED vars
  BY <1>1, Frame DEF vars, IInv
<1>2. CASE Next
  BY <1>2, ClientStep, RequestStep, WorkStep, FaultStep, SyncStep DEF Next
<1> QED
  BY <1>1, <1>2

\* Types hold of every behaviour, and a task is in an executor exactly while the
\* queue says so, whatever requests, crashes and aborts do.
THEOREM ParseTypes == Spec => []TypeOK
  BY InitIInv, NextIInv, IInvTypes, PTL DEF Spec

\* No late progress write of a thread or an executor takes "CANCEL" back.
THEOREM CancelStays == Spec => CancelHolds
<1>1. IInv /\ [Next]_vars => [run = "CANCEL" /\ run' # "CANCEL" => req' # req]_vars
  BY NextIInv DEF Taken
<1> QED
  BY <1>1, InitIInv, NextIInv, PTL DEF Spec, CancelHolds

----------------------------------------------------------------------------
(* Where a request stands in its script: what is left of it is a suffix, which  *)
(* its length tells.  Ids of tasks are those of runs that have begun.           *)

\* The last n statements of a request of kind k, and the first of them.
Left(k, n) == SubSeq(Script[k], Len(Script[k]) - n + 1, Len(Script[k]))
Statement(k, n) == Script[k][Len(Script[k]) - n + 1]

Standing(q) == q.rest # <<>> =>
    q.kind \in Kinds /\ \E n \in 1 .. Len(Script[q.kind]) : q.rest = Left(q.kind, n)
OnScript == \A c \in Clients : Standing(req[c])

\* What a request does while it has n statements left.
AtStart(k, n, step) ==
    /\ n = 1 => step = "Publish"
    /\ n = 2 => step = "BeginParse"
    /\ n = 3 => step = "InsertTasks"
    /\ n = 4 => step = "SetChunkNum"
    /\ n = 5 => step = "DropOldChunks"
    /\ n = 6 => step = "DropTasks"
    /\ n = 7 => step = "ReadTasks"
    /\ n = 8 => step = IF k = "redo" THEN "DropChunks" ELSE IF k = "parse" THEN "DropTasks" ELSE "Mark"
    /\ n = 9 => step = IF k = "run" THEN "ClearKb" ELSE IF k = "keep" THEN "ReadDoc"
                       ELSE IF k = "redo" THEN "DropTasks" ELSE "DropChunks"
    /\ n = 10 => step = IF k = "run" THEN "ReadDoc" ELSE "Mark"
    /\ n = 11 => step = IF k = "redo" THEN "ClearKb" ELSE "ReadDoc"
    /\ n = 12 => step = "ReadDoc"
AtStop(n, step) ==
    /\ n = 1 => step = "DropChunks"
    /\ n = 2 => step = "Mark"
    /\ n = 3 => step = "FlagTasks"
    /\ n = 4 => step = "FindTasks"
    /\ n = 5 => step = "ReadDoc"
AtRemoval(n, step) ==
    /\ n = 1 => step = "DropChunks"
    /\ n = 2 => step = "DropTasks"
    /\ n = 3 => step = "FlagTasks"
    /\ n = 4 => step = "FindTasks"
    /\ n = 5 => step = "DeleteDoc"
    /\ n = 6 => step = "DropTasks"
    /\ n = 7 => step = "ReadDoc"
AtCancel(n, step) ==
    /\ n = 1 => step = "Mark"
    /\ n = 2 => step = "FlagTasks"
    /\ n = 3 => step = "FindTasks"
    /\ n = 4 => step = "CheckTasks"
    /\ n = 5 => step = "ReadDoc"
Lengths(k) == IF k = "run" THEN 10 ELSE IF k = "keep" THEN 9 ELSE IF k = "redo" THEN 12
              ELSE IF k = "parse" THEN 11 ELSE IF k = "rm" THEN 7 ELSE 5

LEMMA ScriptLengths == \A k \in Kinds : Len(Script[k]) = Lengths(k)
<1>1. /\ Len(RunSteps) = 10 /\ Len(KeepSteps) = 9 /\ Len(RedoSteps) = 12 /\ Len(CancelSteps) = 5
      /\ Len(ParseSteps) = 11 /\ Len(StopSteps) = 5 /\ Len(RemoveSteps) = 5 /\ Len(DeleteDocsSteps) = 7
  BY DEF RunSteps, KeepSteps, RedoSteps, CancelSteps, ParseSteps, StopSteps, RemoveSteps,
         DeleteDocsSteps, QueueTasks
<1>2. /\ Script["run"] = RunSteps /\ Script["keep"] = KeepSteps /\ Script["redo"] = RedoSteps
      /\ Script["cancel"] = CancelSteps /\ Script["parse"] = ParseSteps /\ Script["stop"] = StopSteps
      /\ Script["remove"] = RemoveSteps /\ Script["rm"] = DeleteDocsSteps
  BY DEF Script
<1> QED
  BY <1>1, <1>2, ParseAssumption DEF Lengths

LEMMA Statements ==
    ASSUME NEW k \in Kinds, NEW n \in 1 .. Lengths(k)
    PROVE  /\ k \in Starts => AtStart(k, n, Statement(k, n))
           /\ k = "stop" => AtStop(n, Statement(k, n))
           /\ k \in {"remove", "rm"} => AtRemoval(n, Statement(k, n))
           /\ k = "cancel" => AtCancel(n, Statement(k, n))
<1>1. Statement(k, n) = Script[k][Lengths(k) - n + 1]
  BY ScriptLengths DEF Statement
<1>2. CASE k = "run"
  <2>1. AtStart("run", n, RunSteps[10 - n + 1])
    BY <1>2 DEF AtStart, RunSteps, QueueTasks, Lengths
  <2> QED
    BY <1>1, <1>2, <2>1 DEF Script, Lengths
<1>3. CASE k = "keep"
  <2>1. AtStart("keep", n, KeepSteps[9 - n + 1])
    BY <1>3 DEF AtStart, KeepSteps, QueueTasks, Lengths
  <2> QED
    BY <1>1, <1>3, <2>1 DEF Script, Lengths
<1>4. CASE k = "redo"
  <2>1. AtStart("redo", n, RedoSteps[12 - n + 1])
    BY <1>4 DEF AtStart, RedoSteps, QueueTasks, Lengths
  <2> QED
    BY <1>1, <1>4, <2>1 DEF Script, Lengths
<1>5. CASE k = "parse"
  <2>1. AtStart("parse", n, ParseSteps[11 - n + 1])
    BY <1>5 DEF AtStart, ParseSteps, QueueTasks, Lengths
  <2> QED
    BY <1>1, <1>5, <2>1 DEF Script, Lengths
<1>6. CASE k = "stop"
  <2>1. AtStop(n, StopSteps[5 - n + 1])
    BY <1>6 DEF AtStop, StopSteps, Lengths
  <2> QED
    BY <1>1, <1>6, <2>1 DEF Script, Lengths, Starts
<1>7. CASE k = "remove"
  <2>1. AtRemoval(n, RemoveSteps[5 - n + 1])
    BY <1>7 DEF AtRemoval, RemoveSteps, Lengths
  <2> QED
    BY <1>1, <1>7, <2>1 DEF Script, Lengths, Starts
<1>8. CASE k = "rm"
  <2>1. AtRemoval(n, DeleteDocsSteps[7 - n + 1])
    BY <1>8 DEF AtRemoval, RemoveSteps, DeleteDocsSteps, Lengths
  <2> QED
    BY <1>1, <1>8, <2>1 DEF Script, Lengths, Starts
<1>9. CASE k = "cancel"
  <2>1. AtCancel(n, CancelSteps[5 - n + 1])
    BY <1>9 DEF AtCancel, CancelSteps, Lengths
  <2> QED
    BY <1>1, <1>9, <2>1 DEF Script, Lengths, Starts
<1> QED
  BY <1>2, <1>3, <1>4, <1>5, <1>6, <1>7, <1>8, <1>9 DEF Starts

LEMMA LeftOver ==
    ASSUME NEW k \in Kinds, NEW n \in 1 .. Lengths(k)
    PROVE  /\ Left(k, n) # <<>> /\ Len(Left(k, n)) = n /\ Head(Left(k, n)) = Statement(k, n)
           /\ n > 1 => Tail(Left(k, n)) = Left(k, n - 1)
           /\ n > 3 => SubSeq(Left(k, n), 4, n) = Left(k, n - 3)
<1> DEFINE s == Script[k]
           m == Lengths(k)
<1>1. s \in Seq(StepNames) /\ Len(s) = m /\ m \in Nat /\ n \in 1 .. m
  BY ScriptTypes, ScriptLengths DEF Lengths
<1>2. Left(k, n) = SubSeq(s, m - n + 1, m) /\ Statement(k, n) = s[m - n + 1]
  BY <1>1 DEF Left, Statement
<1>3. \A j \in 1 .. m : Left(k, j) = SubSeq(s, m - j + 1, m)
  BY <1>1 DEF Left
<1> HIDE DEF s, m
<1>4. ASSUME NEW j \in 1 .. m
      PROVE  /\ SubSeq(s, m - j + 1, m) \in Seq(StepNames) /\ Len(SubSeq(s, m - j + 1, m)) = j
             /\ \A i \in 1 .. j : SubSeq(s, m - j + 1, m)[i] = s[m - j + i]
  BY <1>1
<1>a. ASSUME NEW j \in 1 .. m
      PROVE  /\ Left(k, j) \in Seq(StepNames) /\ Len(Left(k, j)) = j
             /\ \A i \in 1 .. j : Left(k, j)[i] = s[m - j + i]
  BY <1>3, <1>4
<1>5. Left(k, n) \in Seq(StepNames) /\ Len(Left(k, n)) = n /\ Left(k, n) # <<>>
  BY <1>1, <1>2, <1>4
<1>6. Head(Left(k, n)) = Statement(k, n)
  BY <1>1, <1>2, <1>4, <1>5
<1>7. ASSUME n > 1 PROVE Tail(Left(k, n)) = Left(k, n - 1)
  <2>1. n - 1 \in 1 .. m
    BY <1>1, <1>7
  <2>2. Left(k, n - 1) \in Seq(StepNames) /\ Len(Left(k, n - 1)) = n - 1
        /\ \A i \in 1 .. n - 1 : Left(k, n - 1)[i] = s[m - (n - 1) + i]
    BY <1>a, <2>1
  <2>3. Tail(Left(k, n)) \in Seq(StepNames) /\ Len(Tail(Left(k, n))) = n - 1
        /\ \A i \in 1 .. n - 1 : Tail(Left(k, n))[i] = Left(k, n)[i + 1]
    BY <1>1, <1>5
  <2>4. ASSUME NEW i \in 1 .. n - 1 PROVE Left(k, n)[i + 1] = s[m - (n - 1) + i]
    <3>1. i + 1 \in 1 .. n /\ m - n + (i + 1) = m - (n - 1) + i
      BY <1>1
    <3> QED
      BY <1>1, <1>a, <3>1
  <2> QED
    BY <2>2, <2>3, <2>4, SeqEqual
<1>8. ASSUME n > 3 PROVE SubSeq(Left(k, n), 4, n) = Left(k, n - 3)
  <2>1. n - 3 \in 1 .. m
    BY <1>1, <1>8
  <2>2. Left(k, n - 3) \in Seq(StepNames) /\ Len(Left(k, n - 3)) = n - 3
        /\ \A i \in 1 .. n - 3 : Left(k, n - 3)[i] = s[m - (n - 3) + i]
    BY <1>a, <2>1
  <2>3. SubSeq(Left(k, n), 4, n) \in Seq(StepNames) /\ Len(SubSeq(Left(k, n), 4, n)) = n - 3
        /\ \A i \in 1 .. n - 3 : SubSeq(Left(k, n), 4, n)[i] = Left(k, n)[i + 3]
    BY <1>1, <1>5, <1>8
  <2>4. ASSUME NEW i \in 1 .. n - 3 PROVE Left(k, n)[i + 3] = s[m - (n - 3) + i]
    <3>1. i + 3 \in 1 .. n /\ m - n + (i + 3) = m - (n - 3) + i
      BY <1>1
    <3> QED
      BY <1>1, <1>a, <3>1
  <2> QED
    BY <2>2, <2>3, <2>4, SeqEqual
<1> QED
  BY <1>5, <1>6, <1>7, <1>8

LEMMA LengthType == \A k : Lengths(k) \in Nat
  BY DEF Lengths

\* A request that stands somewhere, and what it does there.
LEMMA Stands ==
    ASSUME NEW q \in RequestType, Standing(q), q.rest # <<>>
    PROVE  /\ q.kind \in Kinds /\ Len(q.rest) \in 1 .. Lengths(q.kind)
           /\ q.rest = Left(q.kind, Len(q.rest)) /\ Head(q.rest) = Statement(q.kind, Len(q.rest))
<1>1. q.kind \in Kinds
  BY DEF Standing
<1>2. PICK n \in 1 .. Lengths(q.kind) : q.rest = Left(q.kind, n)
  BY <1>1, ScriptLengths DEF Standing
<1> QED
  BY <1>1, <1>2, LeftOver

\* The request as it is after a statement: answered, or with m statements left.
Answered(q) == q = NoRequest
Goes(q, r, m) == /\ q \in RequestType /\ q.kind = r.kind /\ q.rest # <<>> /\ Len(q.rest) = m
                 /\ q.reuse = r.reuse /\ q.drop = r.drop /\ q.todo = r.todo

LEMMA AnsweredStands == Standing(NoRequest) /\ NoRequest.rest = <<>> /\ NoRequest.todo = {}
  BY DEF Standing, NoRequest

LEMMA NewRest ==
    ASSUME NEW q \in RequestType, NEW rest \in Seq(StepNames), NEW r, r = [q EXCEPT !.rest = rest]
    PROVE  /\ r \in RequestType /\ r.kind = q.kind /\ r.rest = rest
           /\ r.reuse = q.reuse /\ r.drop = q.drop /\ r.todo = q.todo
  BY DEF RequestType

LEMMA Advance ==
    ASSUME ReqOK, NEW c \in Clients, NEW r \in RequestType, Standing(r), r.rest # <<>>, GoWith(c, r)
    PROVE  /\ \A d \in Clients \ {c} : req'[d] = req[d]
           /\ Standing(req'[c])
           /\ Len(r.rest) = 1 => Answered(req'[c])
           /\ Len(r.rest) # 1 => Goes(req'[c], r, Len(r.rest) - 1)
<1> DEFINE n == Len(r.rest)
<1>1. /\ r.kind \in Kinds /\ n \in 1 .. Lengths(r.kind) /\ r.rest = Left(r.kind, n)
      /\ r.rest \in Seq(StepNames)
  BY Stands DEF RequestType
<1>2. req' = [req EXCEPT ![c] = IF n = 1 THEN NoRequest ELSE [r EXCEPT !.rest = Tail(@)]]
  BY DEF GoWith
<1>3. CASE n = 1
  BY <1>2, <1>3, AnsweredStands DEF ReqOK, Answered
<1>4. CASE n # 1
  <2>1. n > 1 /\ n - 1 \in 1 .. Lengths(r.kind)
    <3>1. n \in 1 .. Lengths(r.kind) /\ n # 1 /\ Lengths(r.kind) \in Nat
      BY <1>1, <1>4, LengthType
    <3> HIDE DEF n
    <3> QED
      BY <3>1
  <2>2. Tail(r.rest) = Left(r.kind, n - 1) /\ Left(r.kind, n - 1) # <<>> /\ Len(Left(r.kind, n - 1)) = n - 1
    BY <1>1, <2>1, LeftOver
  <2>3. Tail(r.rest) \in Seq(StepNames)
    BY <1>1
  <2> DEFINE q == [r EXCEPT !.rest = Tail(@)]
  <2>4. q \in RequestType /\ q.kind = r.kind /\ q.rest = Tail(r.rest)
        /\ q.reuse = r.reuse /\ q.drop = r.drop /\ q.todo = r.todo
    BY <2>3 DEF RequestType
  <2>5. req' = [req EXCEPT ![c] = q]
    BY <1>2, <1>4
  <2> HIDE DEF q, n
  <2>6. Standing(q)
    BY <1>1, <2>1, <2>2, <2>4, ScriptLengths DEF Standing
  <2>7. Goes(q, r, n - 1)
    BY <2>2, <2>4 DEF Goes
  <2> QED
    BY <1>4, <2>5, <2>6, <2>7 DEF ReqOK, n
<1> QED
  BY <1>3, <1>4

LEMMA Refused ==
    ASSUME ReqOK, NEW c \in Clients, Refuse(c)
    PROVE  /\ \A d \in Clients \ {c} : req'[d] = req[d]
           /\ Standing(req'[c]) /\ Answered(req'[c])
  BY AnsweredStands DEF ReqOK, Refuse, Answered

\* One of the statements that are made for each task.
LEMMA OneOfMany ==
    ASSUME ReqOK, NEW c \in Clients, Standing(req[c]), NEW t, req' = [req EXCEPT ![c].todo = @ \ {t}]
    PROVE  /\ \A d \in Clients \ {c} : req'[d] = req[d]
           /\ Standing(req'[c]) /\ req'[c] \in RequestType
           /\ req'[c].kind = req[c].kind /\ req'[c].rest = req[c].rest
           /\ req'[c].reuse = req[c].reuse /\ req'[c].drop = req[c].drop
           /\ req'[c].todo = req[c].todo \ {t}
<1>1. req[c] \in RequestType
  BY DEF ReqOK
<1>2. req'[c] = [req[c] EXCEPT !.todo = @ \ {t}]
  BY DEF ReqOK
<1>3. /\ req'[c] \in RequestType
      /\ req'[c].kind = req[c].kind /\ req'[c].rest = req[c].rest
      /\ req'[c].reuse = req[c].reuse /\ req'[c].drop = req[c].drop
      /\ req'[c].todo = req[c].todo \ {t}
  <2> DEFINE q == req[c]
             left == q.todo \ {t}
  <2>1. q \in RequestType /\ left \in SUBSET Tasks /\ req'[c] = [q EXCEPT !.todo = left]
    BY <1>1, <1>2 DEF RequestType
  <2>2. q.todo \ {t} = left
    OBVIOUS
  <2> HIDE DEF q, left
  <2>3. /\ req'[c] \in RequestType /\ req'[c].kind = q.kind /\ req'[c].rest = q.rest
        /\ req'[c].reuse = q.reuse /\ req'[c].drop = q.drop /\ req'[c].todo = left
    BY <2>1 DEF RequestType
  <2> QED
    BY <2>2, <2>3 DEF q
<1>4. Standing(req'[c])
  BY <1>3 DEF Standing
<1> QED
  BY <1>3, <1>4 DEF ReqOK

\* A document without tasks: four statements of queue_tasks are left.
LEMMA Skips ==
    ASSUME ReqOK, NEW c \in Clients, Standing(req[c]), At(c, "ReadTasks"), Len(req[c].rest) = 7,
           req' = [req EXCEPT ![c].rest = SubSeq(@, 4, Len(@))]
    PROVE  /\ \A d \in Clients \ {c} : req'[d] = req[d]
           /\ Standing(req'[c]) /\ Goes(req'[c], req[c], 4)
<1>1. /\ req[c] \in RequestType /\ req[c].kind \in Kinds /\ 7 \in 1 .. Lengths(req[c].kind)
      /\ req[c].rest = Left(req[c].kind, 7)
  BY Stands DEF At, Busy, ReqOK
<1> DEFINE rest == SubSeq(req[c].rest, 4, 7)
<1>2. 4 \in 1 .. Lengths(req[c].kind)
  BY <1>1, LengthType
<1>3. rest = Left(req[c].kind, 4) /\ rest # <<>> /\ Len(rest) = 4
  <2>1. rest = SubSeq(Left(req[c].kind, 7), 4, 7)
    BY <1>1
  <2>2. SubSeq(Left(req[c].kind, 7), 4, 7) = Left(req[c].kind, 4)
    <3>1. SUFFICES ASSUME NEW n \in 1 .. Lengths(req[c].kind), n = 7
                   PROVE  SubSeq(Left(req[c].kind, n), 4, n) = Left(req[c].kind, 4)
      BY <1>1
    <3>2. n > 3 /\ n - 3 = 4
      BY <3>1
    <3>3. n > 3 => SubSeq(Left(req[c].kind, n), 4, n) = Left(req[c].kind, n - 3)
      BY <1>1, LeftOver, Zenon
    <3> QED
      BY <3>2, <3>3, Zenon
  <2>3. Left(req[c].kind, 4) # <<>> /\ Len(Left(req[c].kind, 4)) = 4
    BY <1>1, <1>2, LeftOver
  <2> QED
    BY <2>1, <2>2, <2>3
<1>4. rest \in Seq(StepNames)
  <2>1. req[c].rest \in Seq(StepNames)
    BY <1>1 DEF RequestType
  <2> QED
    BY <2>1
<1>5. req'[c] = [req[c] EXCEPT !.rest = rest]
  BY DEF ReqOK
<1> HIDE DEF rest
<1>6. Goes(req'[c], req[c], 4) /\ req'[c].rest = rest
  <2>1. /\ req'[c] \in RequestType /\ req'[c].kind = req[c].kind /\ req'[c].rest = rest
        /\ req'[c].reuse = req[c].reuse /\ req'[c].drop = req[c].drop
        /\ req'[c].todo = req[c].todo
    <3>1. req[c] \in RequestType
      BY <1>1, Zenon
    <3>2. rest \in Seq(StepNames)
      BY <1>4, Zenon
    <3>3. PICK r : r = req'[c]
      BY Zenon
    <3>4. r = [req[c] EXCEPT !.rest = rest]
      BY <1>5, <3>3, Zenon
    <3>5. /\ r \in RequestType /\ r.kind = req[c].kind /\ r.rest = rest
          /\ r.reuse = req[c].reuse /\ r.drop = req[c].drop /\ r.todo = req[c].todo
      BY <3>1, <3>2, <3>4, NewRest, SMT
    <3> QED
      BY <3>3, <3>5, Zenon
  <2> QED
    BY <1>3, <2>1 DEF Goes
<1>7. Standing(req'[c])
  BY <1>1, <1>2, <1>3, <1>6, ScriptLengths DEF Standing, Goes
<1> QED
  BY <1>6, <1>7 DEF ReqOK

\* What a request is about to do tells how many statements it has left.
LEMMA Position ==
    ASSUME ReqOK, NEW c \in Clients, Standing(req[c]), NEW step, At(c, step)
    PROVE  LET k == req[c].kind
               n == Len(req[c].rest)
           IN /\ req[c] \in RequestType /\ req[c].rest # <<>>
              /\ k \in Kinds /\ n \in 1 .. Lengths(k)
              /\ k \in Starts => AtStart(k, n, step)
              /\ k = "stop" => AtStop(n, step)
              /\ k \in {"remove", "rm"} => AtRemoval(n, step)
              /\ k = "cancel" => AtCancel(n, step)
<1> DEFINE k == req[c].kind
           n == Len(req[c].rest)
<1>1. req[c] \in RequestType /\ req[c].rest # <<>> /\ Head(req[c].rest) = step
  BY DEF ReqOK, At, Busy
<1>2. k \in Kinds /\ n \in 1 .. Lengths(k) /\ Head(req[c].rest) = Statement(k, n)
  BY <1>1, Stands
<1> HIDE DEF k, n
<1>3. /\ k \in Starts => AtStart(k, n, step)
      /\ k = "stop" => AtStop(n, step)
      /\ k \in {"remove", "rm"} => AtRemoval(n, step)
      /\ k = "cancel" => AtCancel(n, step)
  BY <1>1, <1>2, Statements
<1> QED
  BY <1>1, <1>2, <1>3 DEF k, n

\* Only the requests that start a parse queue tasks, each statement at its place.
LEMMA InQueueTasks ==
    ASSUME ReqOK, NEW c \in Clients, Standing(req[c])
    PROVE  /\ At(c, "ReadTasks") => Kind(c) \in Starts /\ Len(req[c].rest) = 7
           /\ At(c, "DropOldChunks") => Kind(c) \in Starts /\ Len(req[c].rest) = 5
           /\ At(c, "SetChunkNum") => Kind(c) \in Starts /\ Len(req[c].rest) = 4
           /\ At(c, "InsertTasks") => Kind(c) \in Starts /\ Len(req[c].rest) = 3
           /\ At(c, "BeginParse") => Kind(c) \in Starts /\ Len(req[c].rest) = 2
           /\ At(c, "Publish") => Kind(c) \in Starts /\ Len(req[c].rest) = 1
<1> DEFINE k == req[c].kind
           n == Len(req[c].rest)
<1>1. ASSUME NEW step, At(c, step)
      PROVE  /\ k \in Starts \cup {"cancel", "stop", "remove", "rm"} /\ n \in 1 .. 12
             /\ k \in Starts => AtStart(k, n, step)
             /\ k = "stop" => AtStop(n, step)
             /\ k \in {"remove", "rm"} => AtRemoval(n, step)
             /\ k = "cancel" => AtCancel(n, step)
             /\ n <= Lengths(k)
  <2>1. k \in Kinds /\ n \in 1 .. Lengths(k) /\ Lengths(k) \in 1 .. 12
    BY <1>1, Position DEF Lengths
  <2>2. k \in Starts \cup {"cancel", "stop", "remove", "rm"}
    BY <2>1, ParseAssumption DEF Starts
  <2>3. n \in 1 .. 12 /\ n <= Lengths(k)
    <3> HIDE DEF n, k
    <3> QED
      BY <2>1
  <2> QED
    BY <1>1, <2>2, <2>3, Position
<1> HIDE DEF n, k
<1>2. ASSUME NEW step \in {"ReadTasks", "DropOldChunks", "SetChunkNum", "InsertTasks", "BeginParse",
                           "Publish"}, At(c, step)
      PROVE  k \in Starts /\ AtStart(k, n, step) /\ n \in 1 .. 12
  <2>1. ~(k = "stop") /\ ~(k \in {"remove", "rm"}) /\ ~(k = "cancel")
    BY <1>1, <1>2 DEF AtStop, AtRemoval, AtCancel, Lengths
  <2> QED
    BY <1>1, <1>2, <2>1
<1>3. /\ At(c, "ReadTasks") => k \in Starts /\ n = 7
      /\ At(c, "DropOldChunks") => k \in Starts /\ n = 5
      /\ At(c, "SetChunkNum") => k \in Starts /\ n = 4
      /\ At(c, "InsertTasks") => k \in Starts /\ n = 3
      /\ At(c, "BeginParse") => k \in Starts /\ n = 2
      /\ At(c, "Publish") => k \in Starts /\ n = 1
  BY <1>2 DEF AtStart
<1> QED
  BY <1>3 DEF k, n, Kind

\* The others wait, and this request has made one of the statements of r.
Others(c) == \A d \in Clients \ {c} : req'[d] = req[d]
Steps(c, r) == IF Len(r.rest) = 1 THEN Answered(req'[c]) ELSE Goes(req'[c], r, Len(r.rest) - 1)

LEMMA GoesOn ==
    ASSUME ReqOK, NEW c \in Clients, Standing(req[c]), Busy(c), Go(c)
    PROVE  Others(c) /\ Standing(req'[c]) /\ Steps(c, req[c])
<1>1. req[c] \in RequestType /\ req[c].rest # <<>>
  BY DEF ReqOK, Busy
<1> QED
  BY <1>1, Advance DEF Go, Others, Steps

LEMMA ReadDocGoes ==
    ASSUME IInv, NEW c \in Clients, Standing(req[c]), ReadDoc(c)
    PROVE  Others(c) /\ Standing(req'[c]) /\ (Answered(req'[c]) \/ Steps(c, req[c]))
<1>0. ReqOK /\ req[c] \in RequestType /\ req[c].rest # <<>> /\ run \in RunValues
  BY DEF IInv, ReqOK, ReadDoc, At, Busy, DocOK
<1>1. CASE Refuse(c)
  BY <1>0, <1>1, Refused DEF Others
<1>2. CASE GoWith(c, [req[c] EXCEPT !.saw = run])
  <2>1. PICK r : r = [req[c] EXCEPT !.saw = run]
    BY Zenon
  <2>2. /\ r \in RequestType /\ r.kind = req[c].kind /\ r.rest = req[c].rest
        /\ r.reuse = req[c].reuse /\ r.drop = req[c].drop /\ r.todo = req[c].todo
    BY <1>0, <2>1 DEF RequestType
  <2>3. Standing(r) /\ GoWith(c, r)
    BY <1>2, <2>1, <2>2 DEF Standing
  <2>4. Others(c) /\ Standing(req'[c]) /\ Steps(c, r)
    BY <1>0, <2>2, <2>3, Advance DEF Others, Steps
  <2> QED
    BY <2>2, <2>4 DEF Steps, Goes
<1> QED
  BY <1>1, <1>2 DEF ReadDoc

LEMMA FindTasksGoes ==
    ASSUME IInv, NEW c \in Clients, Standing(req[c]), FindTasks(c), Len(req[c].rest) # 1
    PROVE  /\ Others(c) /\ Standing(req'[c]) /\ req'[c].todo = rows
           /\ req'[c].kind = req[c].kind /\ Len(req'[c].rest) = Len(req[c].rest) - 1
<1>0. ReqOK /\ req[c] \in RequestType /\ req[c].rest # <<>> /\ rows \in SUBSET Tasks
  BY DEF IInv, ReqOK, FindTasks, At, Busy, TaskOK
<1>1. PICK r : r = [req[c] EXCEPT !.todo = rows]
  BY Zenon
<1>2. r \in RequestType /\ r.kind = req[c].kind /\ r.rest = req[c].rest /\ r.todo = rows
  BY <1>0, <1>1 DEF RequestType
<1>3. Standing(r) /\ GoWith(c, r)
  BY <1>1, <1>2 DEF Standing, FindTasks
<1>4. Others(c) /\ Standing(req'[c]) /\ Steps(c, r)
  BY <1>0, <1>2, <1>3, Advance DEF Others, Steps
<1> QED
  BY <1>2, <1>4 DEF Steps, Goes

LEMMA InsertTasksGoes ==
    ASSUME IInv, NEW c \in Clients, Standing(req[c]), InsertTasks(c), Len(req[c].rest) # 1
    PROVE  /\ Others(c) /\ Standing(req'[c])
           /\ req'[c].todo = ({runs'} \X Pages) \ ({runs'} \X req[c].reuse)
           /\ req'[c].kind = req[c].kind /\ Len(req'[c].rest) = Len(req[c].rest) - 1
<1>0. ReqOK /\ req[c] \in RequestType /\ req[c].rest # <<>>
  BY DEF IInv, ReqOK, InsertTasks, At, Busy
<1> DEFINE todo == ({runs'} \X Pages) \ ({runs'} \X req[c].reuse)
<1>1. PICK r : r = [req[c] EXCEPT !.todo = todo]
  BY Zenon
<1>2. todo \in SUBSET Tasks
  BY ParseAssumption DEF InsertTasks, IInv, ReqOK, Tasks, Runs
<1>3. GoWith(c, r)
  BY <1>1 DEF InsertTasks
<1> HIDE DEF todo
<1>4. r \in RequestType /\ r.kind = req[c].kind /\ r.rest = req[c].rest /\ r.todo = todo
  BY <1>0, <1>1, <1>2 DEF RequestType
<1>5. Standing(r)
  BY <1>4 DEF Standing
<1>6. Others(c) /\ Standing(req'[c]) /\ Steps(c, r)
  BY <1>0, <1>3, <1>4, <1>5, Advance DEF Others, Steps
<1> QED
  BY <1>4, <1>6 DEF Steps, Goes, todo

\* What queue_tasks will reuse of the old tasks, and which chunks it will delete.
Reused == {p \in Pages : Reusable(p)}
Outdated == {PageOf(t) : t \in {u \in chunkIds : ~(PageOf(u) \in Reused /\ u \in Latest(PageOf(u)))}}

LEMMA ReadTasksGoes ==
    ASSUME IInv, NEW c \in Clients, Standing(req[c]), ReadTasks(c), Len(req[c].rest) = 7
    PROVE  /\ Others(c) /\ Standing(req'[c])
           /\ \/ ~there /\ Answered(req'[c])
              \/ there /\ rows = {} /\ Goes(req'[c], req[c], 4)
              \/ /\ there /\ rows # {} /\ req'[c].kind = req[c].kind /\ Len(req'[c].rest) = 6
                 /\ req'[c].todo = req[c].todo
                 /\ req'[c].reuse = Reused /\ req'[c].drop = Outdated
<1>0. ReqOK /\ req[c] \in RequestType /\ req[c].rest # <<>> /\ At(c, "ReadTasks")
  BY DEF IInv, ReqOK, ReadTasks, At, Busy
<1>1. CASE ~there /\ Refuse(c)
  BY <1>0, <1>1, Refused DEF Others
<1>2. CASE there /\ rows = {} /\ req' = [req EXCEPT ![c].rest = SubSeq(@, 4, Len(@))]
  BY <1>0, <1>2, Skips DEF Others
<1>3. CASE there /\ rows # {} /\ GoWith(c, [req[c] EXCEPT !.reuse = Reused, !.drop = Outdated])
  <2>1. PICK r : r = [req[c] EXCEPT !.reuse = Reused, !.drop = Outdated]
    BY Zenon
  <2>2. \A t \in Tasks : PageOf(t) \in Pages
    BY DEF Tasks, PageOf
  <2>3. Reused \in SUBSET Pages /\ Outdated \in SUBSET Pages
    BY <2>2 DEF Reused, Outdated, IInv, TaskOK
  <2>4. /\ r \in RequestType /\ r.kind = req[c].kind /\ r.rest = req[c].rest /\ r.todo = req[c].todo
        /\ r.reuse = Reused /\ r.drop = Outdated
    BY <1>0, <2>1, <2>3 DEF RequestType
  <2>5. Standing(r) /\ GoWith(c, r)
    BY <1>3, <2>1, <2>4 DEF Standing
  <2>6. Others(c) /\ Standing(req'[c]) /\ Steps(c, r)
    BY <1>0, <2>4, <2>5, Advance DEF Others, Steps
  <2>7. Len(r.rest) = 7
    BY <2>4, Zenon
  <2>8. Goes(req'[c], r, 6)
    BY <2>6, <2>7 DEF Steps
  <2> QED
    BY <1>3, <2>4, <2>6, <2>8, Zenon DEF Goes
<1>4. \/ ~there /\ Refuse(c)
      \/ there /\ rows = {} /\ req' = [req EXCEPT ![c].rest = SubSeq(@, 4, Len(@))]
      \/ there /\ rows # {} /\ GoWith(c, [req[c] EXCEPT !.reuse = Reused, !.drop = Outdated])
  BY DEF ReadTasks, Reused, Outdated
<1> QED
  BY <1>1, <1>2, <1>3, <1>4

LEMMA OneFlagged ==
    ASSUME IInv, NEW c \in Clients, Standing(req[c]), FlagTasks(c) \/ Publish(c)
    PROVE  /\ Others(c) /\ Standing(req'[c])
           /\ \/ req[c].todo = {} /\ Steps(c, req[c]) /\ UNCHANGED <<cancelKey, queueVars>>
              \/ \E t \in req[c].todo :
                    /\ req'[c].kind = req[c].kind /\ req'[c].rest = req[c].rest
                    /\ req'[c].todo = req[c].todo \ {t}
                    /\ FlagTasks(c) => cancelKey' = cancelKey \cup {t} /\ UNCHANGED queueVars
                    /\ Publish(c) => Queue!Publish(t) /\ UNCHANGED cancelKey
<1>0. ReqOK /\ Busy(c)
  BY DEF IInv, FlagTasks, Publish, At
<1>1. CASE req[c].todo = {} /\ Go(c) /\ UNCHANGED <<cancelKey, queueVars>>
  BY <1>0, <1>1, GoesOn
<1>2. ASSUME NEW t \in req[c].todo, req' = [req EXCEPT ![c].todo = @ \ {t}]
      PROVE  /\ Others(c) /\ Standing(req'[c])
             /\ req'[c].kind = req[c].kind /\ req'[c].rest = req[c].rest
             /\ req'[c].todo = req[c].todo \ {t}
  BY <1>0, <1>2, OneOfMany DEF Others
<1>3. \/ req[c].todo = {} /\ Go(c) /\ UNCHANGED <<cancelKey, queueVars>>
      \/ \E t \in req[c].todo :
            /\ req' = [req EXCEPT ![c].todo = @ \ {t}]
            /\ FlagTasks(c) => cancelKey' = cancelKey \cup {t} /\ UNCHANGED queueVars
            /\ Publish(c) => Queue!Publish(t) /\ UNCHANGED cancelKey
  <2>1. ~(FlagTasks(c) /\ Publish(c))
    BY DEF FlagTasks, Publish, At
  <2>2. CASE FlagTasks(c)
    BY <2>1, <2>2 DEF FlagTasks
  <2>3. CASE Publish(c)
    BY <2>1, <2>3 DEF Publish
  <2> QED
    BY <2>2, <2>3
<1> QED
  BY <1>1, <1>2, <1>3

LEMMA Asks ==
    ASSUME ReqOK, NEW c \in Clients, NEW k \in Kinds, Request(c, k)
    PROVE  /\ Others(c) /\ Standing(req'[c])
           /\ req'[c].kind = k /\ Len(req'[c].rest) = Lengths(k)
           /\ req'[c].reuse = {} /\ req'[c].drop = {} /\ req'[c].todo = {}
<1>1. req'[c] = [NoRequest EXCEPT !.kind = k, !.rest = Script[k]] /\ Others(c)
  BY DEF ReqOK, Request, Others
<1>2. /\ req'[c].kind = k /\ req'[c].rest = Script[k]
      /\ req'[c].reuse = {} /\ req'[c].drop = {} /\ req'[c].todo = {}
  BY <1>1 DEF NoRequest
<1>3. Script[k] \in Seq(StepNames) /\ Len(Script[k]) = Lengths(k) /\ Lengths(k) \in Nat \ {0}
  BY ScriptTypes, ScriptLengths DEF Lengths
<1>4. Script[k] = Left(k, Lengths(k))
  <2> DEFINE s == Script[k]
             m == Lengths(k)
  <2>1. s \in Seq(StepNames) /\ Len(s) = m /\ m \in Nat
    BY <1>3
  <2>2. Left(k, m) = SubSeq(s, m - m + 1, m)
    BY <2>1 DEF Left
  <2> HIDE DEF s, m
  <2>3. m - m + 1 = 1
    BY <2>1
  <2>4. SubSeq(s, 1, m) = s
    BY <2>1
  <2> QED
    BY <2>2, <2>3, <2>4 DEF s, m
<1>5. Standing(req'[c])
  BY <1>2, <1>3, <1>4 DEF Standing
<1> QED
  BY <1>1, <1>2, <1>3, <1>5

\* The runs that have begun, and the tasks they have queued.
Old == {t \in Tasks : t[1] <= runs}
Numbered == /\ rows \subseteq Old
            /\ \A t \in Tasks : status[t] # "absent" => t \in Old
            /\ \A c \in Clients : req[c].todo \subseteq Old
RInv == IInv /\ OnScript /\ Numbered

\* A statement of a request leaves every request on its script.
LEMMA ClientOnScript ==
    ASSUME IInv, OnScript, NEW c \in Clients, Client(c)
    PROVE  Others(c) /\ Standing(req'[c])
<1>0. ReqOK /\ Standing(req[c])
  BY DEF IInv, OnScript
<1>1. Busy(c)
  BY DEF Client, ReadDoc, ClearKb, Mark, CheckTasks, FindTasks, FlagTasks, DropTasks, DropChunks,
         DeleteDoc, ReadTasks, DropOldChunks, SetChunkNum, InsertTasks, BeginParse, Publish, At
<1>2. CASE Go(c)
  BY <1>0, <1>1, <1>2, GoesOn
<1>3. CASE Refuse(c)
  BY <1>0, <1>3, Refused DEF Others
<1>4. CASE ReadDoc(c)
  BY <1>0, <1>4, ReadDocGoes
<1>5. CASE FlagTasks(c) \/ Publish(c)
  BY <1>0, <1>5, OneFlagged
<1>6. ASSUME NEW r \in RequestType, r.kind = req[c].kind, r.rest = req[c].rest, GoWith(c, r)
      PROVE  Others(c) /\ Standing(req'[c])
  <2>1. Standing(r) /\ r.rest # <<>>
    BY <1>0, <1>1, <1>6 DEF Standing, Busy
  <2> QED
    BY <1>0, <1>6, <2>1, Advance DEF Others
<1>7. CASE FindTasks(c)
  <2>1. PICK r : r = [req[c] EXCEPT !.todo = rows]
    BY Zenon
  <2>2. r \in RequestType /\ r.kind = req[c].kind /\ r.rest = req[c].rest
    BY <1>0, <2>1 DEF ReqOK, RequestType, IInv, TaskOK
  <2>3. GoWith(c, r)
    BY <1>7, <2>1 DEF FindTasks
  <2> QED
    BY <1>6, <2>2, <2>3
<1>8. CASE InsertTasks(c)
  <2>0. PICK todo \in SUBSET Tasks : todo = ({runs'} \X Pages) \ ({runs'} \X req[c].reuse)
    <3>1. runs' \in Runs
      BY <1>0, <1>8, ParseAssumption DEF InsertTasks, ReqOK, Runs
    <3>2. ({runs'} \X Pages) \ ({runs'} \X req[c].reuse) \in SUBSET Tasks
      BY <3>1 DEF Tasks
    <3> QED
      BY <3>2, Zenon
  <2>1. PICK r : r = [req[c] EXCEPT !.todo = todo]
    BY Zenon
  <2>2. r \in RequestType /\ r.kind = req[c].kind /\ r.rest = req[c].rest
    BY <1>0, <2>1 DEF ReqOK, RequestType
  <2>3. GoWith(c, r)
    BY <1>8, <2>0, <2>1 DEF InsertTasks
  <2> QED
    BY <1>6, <2>2, <2>3
<1>9. CASE ReadTasks(c)
  <2>1. Len(req[c].rest) = 7
    BY <1>0, <1>9, InQueueTasks DEF ReadTasks
  <2> QED
    BY <1>0, <1>9, <2>1, ReadTasksGoes
<1> QED
  BY <1>2, <1>3, <1>4, <1>5, <1>7, <1>8, <1>9
     DEF Client, ClearKb, Mark, CheckTasks, DropTasks, DropChunks, DeleteDoc, DropOldChunks,
         SetChunkNum, BeginParse

\* What a queue or a request names has been inserted, and stays.
LEMMA ClientNumbered ==
    ASSUME RInv, NEW c \in Clients, Client(c)
    PROVE  Numbered'
<1>0. /\ IInv /\ OnScript /\ Numbered /\ ReqOK /\ Standing(req[c]) /\ Others(c)
      /\ rows \subseteq Tasks /\ status \in [Tasks -> Queue!Status]
  BY ClientOnScript DEF RInv, OnScript, IInv, TaskOK, WorkOK, Queue!LifecycleTypeOK
<1>1. ASSUME runs' \in Nat, runs' >= runs PROVE Old \subseteq Old'
  BY <1>1, ParseAssumption, <1>0 DEF Old, Tasks, Runs, ReqOK
<1>2. \A d \in Clients : runs' = runs => req[d].todo \subseteq Old'
  BY <1>0 DEF Numbered, Old
<1>3. ASSUME runs' = runs, rows' \subseteq rows, UNCHANGED status,
             Answered(req'[c]) \/ req'[c].todo \subseteq req[c].todo \cup rows
      PROVE  Numbered'
  <2>1. req'[c].todo \subseteq Old
    BY <1>0, <1>3 DEF Numbered, Answered, NoRequest
  <2>2. \A d \in Clients : req'[d].todo \subseteq Old
    BY <1>0, <2>1 DEF Numbered, Others
  <2> QED
    BY <1>0, <1>3, <2>2 DEF Numbered, Old
<1>4. Steps(c, req[c]) => Answered(req'[c]) \/ req'[c].todo = req[c].todo
  BY DEF Steps, Goes
<1>5. CASE Go(c) /\ runs' = runs /\ UNCHANGED status /\ rows' \subseteq rows /\ Busy(c)
  BY <1>0, <1>3, <1>4, <1>5, GoesOn
<1>6. CASE Refuse(c) /\ runs' = runs /\ UNCHANGED <<status, rows>>
  BY <1>0, <1>3, <1>6, Refused
<1>7. CASE ReadDoc(c)
  BY <1>0, <1>3, <1>4, <1>7, ReadDocGoes DEF ReadDoc, taskVars, queueVars
<1>8. CASE FindTasks(c)
  <2>1. Len(req[c].rest) # 1
    <3>1. At(c, "FindTasks")
      BY <1>8 DEF FindTasks
    <3>2. PICK k, n : k = req[c].kind /\ n = Len(req[c].rest)
      BY Zenon
    <3>3. /\ k \in Kinds
          /\ k \in Starts => AtStart(k, n, "FindTasks")
          /\ k = "stop" => AtStop(n, "FindTasks")
          /\ k \in {"remove", "rm"} => AtRemoval(n, "FindTasks")
          /\ k = "cancel" => AtCancel(n, "FindTasks")
      BY <1>0, <3>1, <3>2, Position
    <3>4. n # 1
      BY <3>3, ParseAssumption DEF Starts, AtStart, AtStop, AtRemoval, AtCancel
    <3> QED
      BY <3>2, <3>4
  <2> QED
    BY <1>0, <1>3, <1>8, <2>1, FindTasksGoes DEF FindTasks, taskVars, queueVars
<1>9. CASE ReadTasks(c)
  <2>1. req'[c].todo = req[c].todo \/ Answered(req'[c])
    BY <1>0, <1>9, InQueueTasks, ReadTasksGoes DEF ReadTasks, Goes
  <2> QED
    BY <1>3, <1>9, <2>1 DEF ReadTasks, taskVars, queueVars
<1>10. CASE FlagTasks(c)
  BY <1>0, <1>3, <1>4, <1>10, OneFlagged DEF FlagTasks, taskVars, queueVars
<1>11. CASE Publish(c)
  <2>1. /\ req'[c].todo \subseteq req[c].todo \/ Answered(req'[c])
        /\ runs' = runs /\ rows' = rows
        /\ UNCHANGED queueVars \/ \E t \in req[c].todo : Queue!Publish(t)
    BY <1>0, <1>4, <1>11, OneFlagged DEF Publish, taskVars
  <2>2. CASE UNCHANGED queueVars
    BY <1>3, <2>1, <2>2 DEF queueVars
  <2>3. ASSUME NEW t \in req[c].todo, Queue!Publish(t) PROVE Numbered'
    <3>1. t \in Old /\ t \in Tasks
      BY <1>0 DEF Numbered, Old
    <3>2. \A u \in Tasks : status'[u] # "absent" => u \in Old
      BY <1>0, <2>3, <3>1 DEF Numbered, Queue!Publish, Queue!Move
    <3>3. req'[c].todo \subseteq Old
      BY <1>0, <2>1 DEF Numbered, Answered, NoRequest
    <3>4. \A d \in Clients : req'[d].todo \subseteq Old
      BY <1>0, <3>3 DEF Numbered, Others
    <3> QED
      BY <1>0, <2>1, <3>2, <3>4 DEF Numbered, Old
  <2> QED
    BY <2>1, <2>2, <2>3
<1>12. CASE InsertTasks(c)
  <2> DEFINE new == {runs'} \X Pages
             todo == new \ ({runs'} \X req[c].reuse)
  <2>1. /\ runs' = runs + 1 /\ runs' \in Runs /\ runs \in Nat /\ runs' >= runs
        /\ rows' = rows \cup new /\ status' = status
    BY <1>0, <1>12, ParseAssumption DEF InsertTasks, ReqOK, Runs, queueVars
  <2>2. new \subseteq Old'
    BY <2>1 DEF Old, Tasks, Runs
  <2>3. req'[c].todo = todo
    BY <1>0, <1>12, InQueueTasks, InsertTasksGoes DEF InsertTasks
  <2>4. todo \subseteq new
    OBVIOUS
  <2> HIDE DEF new, todo
  <2>5. Old \subseteq Old'
    BY <1>1, <2>1
  <2>6. \A d \in Clients : req'[d].todo \subseteq Old'
    BY <1>0, <2>2, <2>3, <2>4, <2>5 DEF Numbered, Others
  <2>7. rows' \subseteq Old' /\ \A t \in Tasks : status'[t] # "absent" => t \in Old'
    BY <1>0, <2>1, <2>2, <2>5 DEF Numbered
  <2> QED
    BY <2>6, <2>7 DEF Numbered
<1> QED
  BY <1>0, <1>5, <1>6, <1>7, <1>8, <1>9, <1>10, <1>11, <1>12
     DEF Client, ClearKb, Mark, CheckTasks, DropTasks, DropChunks, DeleteDoc, DropOldChunks,
         SetChunkNum, BeginParse, taskVars, queueVars, At

LEMMA NextRInv == RInv /\ [Next]_vars => RInv'
<1> SUFFICES ASSUME RInv, [Next]_vars PROVE OnScript' /\ Numbered'
  BY NextIInv DEF RInv
<1>0. IInv /\ OnScript /\ Numbered /\ ReqOK
  BY DEF RInv, IInv
<1>1. ASSUME UNCHANGED clientVars PROVE OnScript'
  BY <1>0, <1>1 DEF OnScript, clientVars
<1>2. ASSUME UNCHANGED clientVars, rows' = rows,
             \A t \in Tasks : status'[t] # "absent" => status[t] # "absent"
      PROVE  Numbered'
  BY <1>0, <1>2 DEF Numbered, Old, clientVars
<1>3. CASE UNCHANGED vars
  BY <1>1, <1>2, <1>3 DEF vars, clientVars, taskVars, queueVars
<1>4. ASSUME NEW c \in Clients, Client(c) PROVE OnScript' /\ Numbered'
  BY <1>0, <1>4, ClientOnScript, ClientNumbered DEF OnScript, Others
<1>5. ASSUME NEW c \in Clients, Abort(c) \/ \E k \in Kinds : Request(c, k)
      PROVE  OnScript' /\ Numbered'
  <2>1. Others(c) /\ Standing(req'[c]) /\ req'[c].todo = {}
    <3>1. CASE Abort(c)
      BY <1>0, <3>1, Refused DEF Abort, Answered, NoRequest, Others
    <3>2. CASE \E k \in Kinds : Request(c, k)
      BY <1>0, <3>2, Asks
    <3> QED
      BY <1>5, <3>1, <3>2
  <2>2. UNCHANGED <<taskVars, queueVars, runs>>
    BY <1>5 DEF Abort, Request, clientVars
  <2>3. \A d \in Clients : Standing(req'[d]) /\ req'[d].todo \subseteq Old
    BY <1>0, <2>1 DEF OnScript, Numbered, Others
  <2> QED
    BY <1>0, <2>2, <2>3 DEF OnScript, Numbered, Old, taskVars, queueVars
<1>6. ASSUME NEW t \in Tasks, Work(t) \/ ExpireKey(t) PROVE OnScript' /\ Numbered'
  <2> USE DEF taskVars, queueVars
  <2>1. UNCHANGED <<clientVars, rows>>
    BY <1>6 DEF Work, ExpireKey, Collect, Build, CheckBeforeInsert, InsertChunks, CheckAfterInsert,
       CheckBeforeCount, CountDoc, CountKb, CheckBeforeDone, TaskDone, Finally, Wipe, Ack
  <2>2. CASE UNCHANGED status
    BY <1>1, <1>2, <2>1, <2>2
  <2>3. CASE Queue!Drop(t) \/ Queue!Start(t) \/ Queue!Settle(t)
    <3>1. status \in [Tasks -> Queue!Status] /\ status[t] # "absent"
      BY <1>0, <2>3 DEF IInv, WorkOK, Queue!LifecycleTypeOK, Queue!Drop, Queue!Start, Queue!Settle,
                     Queue!Move
    <3>2. \A u \in Tasks : status'[u] # "absent" => status[u] # "absent"
      BY <2>3, <3>1 DEF Queue!Drop, Queue!Start, Queue!Settle, Queue!Move
    <3> QED
      BY <1>1, <1>2, <2>1, <3>2
  <2> QED
    BY <1>6, <2>2, <2>3 DEF Work, ExpireKey, Collect, DropUnknown, Abandon, DropCancelled, StartTask,
       Build, CheckBeforeInsert, InsertChunks, CheckAfterInsert, CheckBeforeCount, CountDoc, CountKb,
       CheckBeforeDone, TaskDone, Finally, Wipe, Ack
<1>7. ASSUME NEW S \in SUBSET Tasks, Crash(S) PROVE OnScript' /\ Numbered'
  <2>1. \A u \in Tasks : status'[u] # "absent" => status[u] # "absent"
    BY <1>0, <1>7 DEF Crash, Queue!Requeue, IInv, WorkOK, Queue!LifecycleTypeOK
  <2> QED
    BY <1>1, <1>2, <1>7, <2>1 DEF Crash, taskVars
<1>8. ASSUME NEW s \in Syncers, Sync(s) PROVE OnScript' /\ Numbered'
  BY <1>1, <1>2, <1>8 DEF Sync, SyncTasks, SyncDoc, SyncWrite, taskVars, queueVars
<1> QED
  BY <1>3, <1>4, <1>5, <1>6, <1>7, <1>8 DEF Next

LEMMA InitRInv == Init => RInv
<1> SUFFICES ASSUME Init PROVE RInv
  OBVIOUS
<1>1. req = [c \in Clients |-> NoRequest] /\ rows = {} /\ \A t \in Tasks : status[t] = "absent"
  BY DEF Init, Queue!Init
<1>2. OnScript /\ Numbered
  BY <1>1, AnsweredStands DEF OnScript, Numbered
<1> QED
  BY <1>2, InitIInv DEF RInv

----------------------------------------------------------------------------
(* What Task.chunk_ids names is stored, when one client asks and what it asks   *)
(* for is to parse, anew or again, or to remove.  With two clients, or with     *)
(* "cancel", "stop" or the SDK's "parse", a task's clean-up may delete what     *)
(* others have stored (run doc_reused), and it fails.                           *)

OneClient == \E c : Clients = {c}
ParsesOnly == Kinds \subseteq {"run", "keep", "redo", "remove", "rm"}

\* A removal that has deleted the document's row.
Removing(q) == q.rest # <<>> /\ q.kind \in {"remove", "rm"} /\ Len(q.rest) < 5 => ~there

\* The plan of a request of kind k that queues tasks, with n statements left: what
\* it means to reuse is stored, is not what it deletes, and the old tasks are gone
\* when it inserts its own.
PlanAt(k, n, reuse, drop) ==
    /\ n \in 7 .. 12 => reuse = {}
    /\ n = 8 /\ k = "redo" => rows = {}
    /\ n \in 3 .. 5 => rows = {}
    /\ n \in 3 .. 6 => reuse \subseteq store
    /\ n \in 5 .. 6 => reuse \cap drop = {}
Plan(q) == q.rest # <<>> /\ q.kind \in Starts => PlanAt(q.kind, Len(q.rest), q.reuse, q.drop)

\* The rows are of one run, no task was cancelled, and what is recorded or about to
\* be recorded is stored.
Recorded == /\ cancelKey = {}
            /\ \A t, u \in rows : t[1] = u[1]
            /\ \A t \in chunkIds : PageOf(t) \in store
            /\ \A t \in rows : pc[t] = "inserted" => PageOf(t) \in store
            /\ \A t \in Tasks : pc[t] # "wipe"

StoredInv == /\ RInv
             /\ \A c \in Clients : Removing(req[c])
             /\ there => Recorded /\ \A c \in Clients : Plan(req[c])

\* The kinds of request, and where in it a statement may stand.
LEMMA Bounds ==
    ASSUME NEW k \in {"run", "keep", "redo", "remove", "rm"}, NEW n \in 1 .. Lengths(k)
    PROVE  n \in 1 .. 12 /\ (k = "run" => n <= 10) /\ (k = "keep" => n <= 9)
           /\ (k = "remove" => n <= 5) /\ (k = "rm" => n <= 7)
  BY DEF Lengths

Placed(k, n, step) ==
    /\ n \in 1 .. 12
    /\ \/ k = "run" /\ n <= 10 /\ AtStart(k, n, step)
       \/ k = "keep" /\ n <= 9 /\ AtStart(k, n, step)
       \/ k = "redo" /\ AtStart(k, n, step)
       \/ k = "remove" /\ n <= 5 /\ AtRemoval(n, step)
       \/ k = "rm" /\ n <= 7 /\ AtRemoval(n, step)

LEMMA Places ==
    ASSUME ParsesOnly, ReqOK, NEW c \in Clients, Standing(req[c]), NEW step, At(c, step),
           NEW k, NEW n, k = req[c].kind, n = Len(req[c].rest)
    PROVE  Placed(k, n, step)
<1>1. /\ k \in Kinds /\ n \in 1 .. Lengths(k)
      /\ k \in Starts => AtStart(k, n, step)
      /\ k \in {"remove", "rm"} => AtRemoval(n, step)
  BY Position
<1>2. k \in {"run", "keep", "redo", "remove", "rm"}
  BY <1>1, Zenon DEF ParsesOnly
<1>3. (k = "run" \/ k = "keep" \/ k = "redo" => k \in Starts)
      /\ (k = "remove" \/ k = "rm" => k \in {"remove", "rm"})
  BY Zenon DEF Starts
<1>4. k = "run" \/ k = "keep" \/ k = "redo" \/ k = "remove" \/ k = "rm"
  BY <1>2, Zenon
<1>5. n \in 1 .. 12 /\ (k = "run" => n <= 10) /\ (k = "keep" => n <= 9)
      /\ (k = "remove" => n <= 5) /\ (k = "rm" => n <= 7)
  BY <1>1, <1>2, Bounds, Zenon
<1> QED
  BY <1>1, <1>3, <1>4, <1>5, Zenon DEF Placed

\* A request is answered, or has moved on and keeps to its plan.
Kept(c) == Removing(req[c]) /\ (there => Plan(req[c]))

LEMMA NoPlan == ASSUME NEW c \in Clients, Answered(req'[c]) PROVE Kept(c)'
  BY DEF Answered, NoRequest, Kept, Removing, Plan

LEMMA NewPlan ==
    ASSUME NEW c \in Clients, NEW k, NEW m, NEW reuse, NEW drop,
           req'[c].kind = k, Len(req'[c].rest) = m, req'[c].reuse = reuse, req'[c].drop = drop,
           k \in {"remove", "rm"} /\ m < 5 => ~there',
           there' /\ k \in Starts => PlanAt(k, m, reuse, drop)'
    PROVE  Kept(c)'
  BY Zenon DEF Kept, Removing, Plan

\* A request's own statements, by what they write.
LEMMA ClientStored ==
    ASSUME StoredInv, ParsesOnly, NEW c \in Clients, Client(c)
    PROVE  Kept(c)' /\ (there' => Recorded')
<1>0. /\ IInv /\ OnScript /\ Numbered /\ ReqOK /\ Standing(req[c])
      /\ Removing(req[c]) /\ (there => Recorded /\ Plan(req[c]))
      /\ rows \subseteq Tasks /\ chunkIds \subseteq rows /\ req[c] \in RequestType
  BY DEF StoredInv, RInv, OnScript, IInv, TaskOK, ReqOK
<1>1. there' => there
  BY DEF Client, ReadDoc, ClearKb, Mark, CheckTasks, FindTasks, FlagTasks, DropTasks, DropChunks,
         DeleteDoc, ReadTasks, DropOldChunks, SetChunkNum, InsertTasks, BeginParse, Publish, docVars
<1>2. PICK k, n, reuse, drop : /\ k = req[c].kind /\ n = Len(req[c].rest)
                               /\ reuse = req[c].reuse /\ drop = req[c].drop
  BY Zenon
<1>3. ASSUME NEW step, At(c, step)
      PROVE  /\ Placed(k, n, step)
             /\ k \in {"remove", "rm"} /\ n < 5 => ~there
             /\ there /\ k \in Starts => PlanAt(k, n, reuse, drop)
  <2>1. req[c].rest # <<>>
    BY <1>3 DEF At, Busy
  <2>2. /\ k \in {"remove", "rm"} /\ n < 5 => ~there
        /\ there /\ k \in Starts => PlanAt(k, n, reuse, drop)
    BY <1>0, <1>2, <2>1, Zenon DEF Removing, Plan
  <2>3. Placed(k, n, step)
    BY <1>0, <1>2, <1>3, Places
  <2> QED
    BY <2>2, <2>3, Zenon
<1>4. ASSUME NEW m \in Int, Goes(req'[c], req[c], m), k \in {"remove", "rm"} /\ m < 5 => ~there',
             there' /\ k \in Starts => PlanAt(k, m, reuse, drop)'
      PROVE  Kept(c)'
  BY <1>2, <1>4, NewPlan, Zenon DEF Goes
<1>5. ASSUME Steps(c, req[c]),
             n # 1 /\ k \in {"remove", "rm"} /\ n - 1 < 5 => ~there',
             n # 1 /\ there' /\ k \in Starts => PlanAt(k, n - 1, reuse, drop)', n \in 1 .. 12
      PROVE  Kept(c)'
  <2>1. CASE n = 1
    BY <1>2, <1>5, <2>1, NoPlan DEF Steps
  <2>2. CASE n # 1
    <3>1. Goes(req'[c], req[c], n - 1)
      BY <1>2, <1>5, <2>2, Zenon DEF Steps
    <3>2. n - 1 \in Int
      BY <1>5
    <3> QED
      BY <1>4, <1>5, <2>2, <3>1, <3>2, Zenon
  <2> QED
    BY <2>1, <2>2
<1>6. ASSUME Refuse(c) PROVE Kept(c)'
  BY <1>0, <1>6, Refused, NoPlan
<1>7. ASSUME Go(c), Busy(c) PROVE Steps(c, req[c])
  BY <1>0, <1>7, GoesOn
<1>8. ASSUME UNCHANGED <<rows, chunkIds, cancelKey, pc>>, there => store \subseteq store' PROVE there' => Recorded'
  BY <1>0, <1>1, <1>8 DEF Recorded
<1>9. CASE ReadDoc(c)
  <2>1. Answered(req'[c]) \/ Steps(c, req[c])
    BY <1>0, <1>9, ReadDocGoes
  <2>2. UNCHANGED <<there, rows, store, chunkIds, cancelKey, pc>> /\ At(c, "ReadDoc")
    BY <1>9 DEF ReadDoc, docVars, taskVars
  <2>3. /\ n # 1 /\ k \in {"remove", "rm"} /\ n - 1 < 5 => ~there'
        /\ n # 1 /\ there' /\ k \in Starts => PlanAt(k, n - 1, reuse, drop)'
        /\ n \in 1 .. 12
    BY <1>3, <2>2 DEF Placed, Starts, PlanAt, AtStart, AtRemoval
  <2> QED
    BY <1>5, <1>8, <2>1, <2>2, <2>3, NoPlan
<1>10. CASE ClearKb(c) \/ Mark(c) \/ CheckTasks(c) \/ SetChunkNum(c) \/ BeginParse(c)
  <2>1. PICK step \in {"ClearKb", "Mark", "CheckTasks", "SetChunkNum", "BeginParse"} : At(c, step)
    BY <1>10 DEF ClearKb, Mark, CheckTasks, SetChunkNum, BeginParse
  <2>2. UNCHANGED <<there, rows, store, chunkIds, cancelKey, pc>> /\ (Go(c) \/ Refuse(c))
    BY <1>10 DEF ClearKb, Mark, CheckTasks, SetChunkNum, BeginParse, docVars, taskVars
  <2>3. /\ n # 1 /\ k \in {"remove", "rm"} /\ n - 1 < 5 => ~there'
        /\ n # 1 /\ there' /\ k \in Starts => PlanAt(k, n - 1, reuse, drop)'
        /\ n \in 1 .. 12
    BY <1>3, <2>1, <2>2 DEF Placed, Starts, PlanAt, AtStart, AtRemoval
  <2> QED
    BY <1>5, <1>6, <1>7, <1>8, <2>1, <2>2, <2>3 DEF At
<1>11. CASE FindTasks(c)
  <2>1. UNCHANGED <<there, rows, store, chunkIds, cancelKey, pc>> /\ At(c, "FindTasks")
    BY <1>11 DEF FindTasks, docVars, taskVars
  <2>2. n = 4 /\ k \in {"remove", "rm"} /\ ~there
    BY <1>3, <2>1 DEF Placed, AtStart, AtRemoval
  <2>3. req'[c].kind = k
    <3>1. Len(req[c].rest) = 4 /\ req[c].kind = k
      BY <1>2, <2>2, Zenon
    <3>2. Len(req[c].rest) # 1
      BY <3>1
    <3> QED
      BY <1>0, <1>11, <3>1, <3>2, FindTasksGoes, Zenon
  <2>4. Kept(c)'
    BY <2>1, <2>2, <2>3 DEF Kept, Removing
  <2> QED
    BY <1>8, <2>1, <2>4
<1>12. CASE FlagTasks(c)
  <2>1. UNCHANGED <<there, rows, store, chunkIds, pc>> /\ At(c, "FlagTasks")
    BY <1>12 DEF FlagTasks, docVars, taskVars
  <2>2. n = 3 /\ k \in {"remove", "rm"} /\ ~there
    BY <1>3, <2>1 DEF Placed, AtStart, AtRemoval
  <2>3. Steps(c, req[c]) \/ req'[c].kind = k
    BY <1>0, <1>2, <1>12, OneFlagged
  <2>4. Kept(c)'
    BY <1>2, <2>1, <2>2, <2>3 DEF Steps, Goes, Kept, Removing
  <2> QED
    BY <2>1, <2>2, <2>4
<1>13. CASE DropTasks(c)
  <2>1. /\ UNCHANGED <<there, store, cancelKey, pc>> /\ At(c, "DropTasks") /\ Go(c)
        /\ rows' = {} /\ chunkIds' = {}
    BY <1>13 DEF DropTasks, docVars
  <2>2. /\ n # 1 /\ k \in {"remove", "rm"} /\ n - 1 < 5 => ~there'
        /\ n # 1 /\ there' /\ k \in Starts => PlanAt(k, n - 1, reuse, drop)'
        /\ n \in 1 .. 12
    BY <1>3, <2>1 DEF Placed, Starts, PlanAt, AtStart, AtRemoval
  <2>3. there' => Recorded'
    BY <1>0, <2>1 DEF Recorded
  <2> QED
    BY <1>5, <1>7, <2>1, <2>2, <2>3 DEF At
<1>14. CASE DropChunks(c)
  <2>1. UNCHANGED <<there, rows, chunkIds, cancelKey, pc>> /\ At(c, "DropChunks") /\ Go(c)
    BY <1>14 DEF DropChunks, docVars, taskVars
  <2>2. \/ k = "redo" /\ n = 8 /\ (there => rows = {})
        \/ k \in {"remove", "rm"} /\ n = 1 /\ ~there
    BY <1>3, <2>1 DEF Placed, Starts, PlanAt, AtStart, AtRemoval
  <2>3. /\ n # 1 /\ k \in {"remove", "rm"} /\ n - 1 < 5 => ~there'
        /\ n # 1 /\ there' /\ k \in Starts => PlanAt(k, n - 1, reuse, drop)'
        /\ n \in 1 .. 12
    BY <1>3, <2>1, <2>2 DEF Starts, PlanAt
  <2>4. there' => Recorded'
    BY <1>0, <2>1, <2>2 DEF Recorded
  <2> QED
    BY <1>5, <1>7, <2>1, <2>3, <2>4 DEF At
<1>15. CASE DeleteDoc(c)
  <2>1. UNCHANGED <<rows, store, chunkIds, cancelKey, pc>> /\ At(c, "DeleteDoc") /\ (Go(c) \/ Refuse(c))
        /\ ~there'
    BY <1>15 DEF DeleteDoc, docVars, taskVars
  <2>2. n \in 1 .. 12
    BY <1>3, <2>1 DEF Placed
  <2> QED
    BY <1>5, <1>6, <1>7, <2>1, <2>2 DEF At
<1>16. CASE ReadTasks(c)
  <2>1. UNCHANGED <<there, rows, store, chunkIds, cancelKey, pc>> /\ At(c, "ReadTasks")
    BY <1>16 DEF ReadTasks, docVars, taskVars
  <2>2. n = 7 /\ k \in Starts
    BY <1>0, <1>2, <2>1, InQueueTasks DEF Kind
  <2>3. there => PlanAt(k, 7, reuse, drop)
    BY <1>3, <2>1, <2>2
  <2>4. CASE Answered(req'[c])
    BY <1>8, <2>1, <2>4, NoPlan
  <2>5. CASE there /\ rows = {} /\ Goes(req'[c], req[c], 4)
    <3>1. PlanAt(k, 4, reuse, drop)' /\ k \notin {"remove", "rm"}
      BY <2>1, <2>2, <2>3, <2>5 DEF PlanAt, Starts
    <3> QED
      BY <1>4, <1>8, <2>1, <2>5, <3>1
  <2>6. CASE /\ there /\ rows # {} /\ req'[c].kind = req[c].kind /\ Len(req'[c].rest) = 6
             /\ req'[c].reuse = Reused /\ req'[c].drop = Outdated
    <3>1. Reused \subseteq store
      BY <1>0, <2>6 DEF Reused, Reusable, Latest, Recorded
    <3>2. ASSUME NEW t \in chunkIds PROVE t \in Latest(PageOf(t))
      <4>1. t \in rows /\ \A u \in rows : u[1] = t[1] /\ t[1] \in Nat
        BY <1>0, <2>6, <3>2, ParseAssumption DEF Recorded, Tasks, Runs
      <4> QED
        BY <4>1 DEF Latest
    <3>3. Reused \cap Outdated = {}
      BY <3>2 DEF Outdated
    <3>4. PICK r, o : r = Reused /\ o = Outdated
      BY Zenon
    <3>5. PlanAt(k, 6, r, o)'
      BY <2>1, <3>1, <3>3, <3>4 DEF PlanAt
    <3>6. k \notin {"remove", "rm"}
      BY <2>2 DEF Starts
    <3>7. Kept(c)'
      BY <1>2, <2>6, <3>4, <3>5, <3>6, NewPlan, Zenon
    <3> QED
      BY <1>8, <2>1, <3>7
  <2> QED
    BY <1>0, <1>2, <1>16, <2>2, <2>4, <2>5, <2>6, ReadTasksGoes
<1>17. CASE DropOldChunks(c)
  <2>1. /\ UNCHANGED <<there, rows, chunkIds, cancelKey, pc>> /\ At(c, "DropOldChunks") /\ Go(c)
        /\ store' = store \ drop
    BY <1>2, <1>17 DEF DropOldChunks, docVars, taskVars
  <2>2. n = 5 /\ k \in Starts
    BY <1>0, <1>2, <2>1, InQueueTasks DEF Kind
  <2>3. there => PlanAt(k, 5, reuse, drop)
    BY <1>3, <2>1, <2>2
  <2>4. there' => PlanAt(k, 4, reuse, drop)' /\ rows = {}
    BY <2>1, <2>3 DEF PlanAt
  <2>5. k \notin {"remove", "rm"}
    BY <2>2 DEF Starts
  <2>6. there' => Recorded'
    BY <1>0, <2>1, <2>4 DEF Recorded
  <2> QED
    BY <1>5, <1>7, <2>1, <2>2, <2>4, <2>5, <2>6 DEF At
<1>18. CASE InsertTasks(c)
  <2>1. /\ UNCHANGED <<there, store, cancelKey, pc>> /\ At(c, "InsertTasks")
        /\ rows' = rows \cup ({runs + 1} \X Pages) /\ chunkIds' = chunkIds \cup ({runs + 1} \X reuse)
        /\ runs \in Nat /\ runs + 1 \in Runs
    <3>1. /\ runs' = runs + 1 /\ At(c, "InsertTasks") /\ runs < MaxRuns
          /\ rows' = rows \cup ({runs'} \X Pages) /\ chunkIds' = chunkIds \cup ({runs'} \X reuse)
      BY <1>2, <1>18 DEF InsertTasks
    <3>2. UNCHANGED <<there, store, cancelKey, pc>>
      BY <1>18 DEF InsertTasks, docVars
    <3>3. runs \in Nat /\ runs + 1 \in Runs
      BY <1>0, <3>1, ParseAssumption DEF ReqOK, Runs
    <3> QED
      BY <3>1, <3>2, <3>3, Zenon
  <2>2. n = 3 /\ k \in Starts
    BY <1>0, <1>2, <2>1, InQueueTasks DEF Kind
  <2>3. there => rows = {} /\ reuse \subseteq store
    BY <1>3, <2>1, <2>2 DEF PlanAt
  <2>4. req'[c].kind = k /\ Len(req'[c].rest) = 2
    <3>1. Len(req[c].rest) = 3 /\ req[c].kind = k
      BY <1>2, <2>2, Zenon
    <3>2. Len(req[c].rest) # 1 /\ Len(req[c].rest) - 1 = 2
      BY <3>1
    <3> QED
      BY <1>0, <1>18, <3>1, <3>2, InsertTasksGoes, Zenon
  <2>5. Kept(c)'
    <3>1. k \notin {"remove", "rm"}
      BY <2>2 DEF Starts
    <3>2. \A r, o : PlanAt(k, 2, r, o)'
      BY DEF PlanAt
    <3>3. PICK r, o : r = req'[c].reuse /\ o = req'[c].drop
      BY Zenon
    <3> QED
      BY <2>4, <3>1, <3>2, <3>3, NewPlan, Zenon
  <2>6. ASSUME NEW t \in {runs + 1} \X Pages PROVE pc[t] = "none" /\ t[1] = runs + 1
    <3>1. t \in Tasks /\ t \notin Old /\ t[1] = runs + 1
      BY <2>1 DEF Tasks, Old
    <3> QED
      BY <1>0, <3>1 DEF Numbered, IInv, WorkOK
  <2>7. there' => Recorded'
    BY <1>0, <2>1, <2>3, <2>6 DEF Recorded, PageOf
  <2> QED
    BY <2>5, <2>7
<1>19. CASE Publish(c)
  <2>1. UNCHANGED <<there, rows, store, chunkIds, cancelKey, pc>> /\ At(c, "Publish")
    BY <1>19 DEF Publish, docVars, taskVars
  <2>2. n = 1 /\ k \in Starts
    BY <1>0, <1>2, <2>1, InQueueTasks DEF Kind
  <2>3. Answered(req'[c]) \/ (req'[c].kind = k /\ Len(req'[c].rest) = 1)
    <3>1. Steps(c, req[c]) \/ (req'[c].kind = req[c].kind /\ req'[c].rest = req[c].rest)
      BY <1>0, <1>19, OneFlagged
    <3>2. Len(req[c].rest) = 1 /\ req[c].kind = k
      BY <1>2, <2>2, Zenon
    <3> QED
      BY <3>1, <3>2, Zenon DEF Steps
  <2>4. Kept(c)'
    <3>1. k \notin {"remove", "rm"}
      BY <2>2 DEF Starts
    <3>2. \A r, o : PlanAt(k, 1, r, o)'
      BY DEF PlanAt
    <3>3. PICK r, o : r = req'[c].reuse /\ o = req'[c].drop
      BY Zenon
    <3> QED
      BY <2>3, <3>1, <3>2, <3>3, NoPlan, NewPlan, Zenon
  <2> QED
    BY <1>8, <2>1, <2>4
<1> QED
  BY <1>9, <1>10, <1>11, <1>12, <1>13, <1>14, <1>15, <1>16, <1>17, <1>18, <1>19 DEF Client

\* What executors do leaves the plans true: they only add to the store.
LEMMA WorkStored ==
    ASSUME StoredInv, there, NEW t \in Tasks, Work(t)
    PROVE  Recorded' /\ store \subseteq store' /\ UNCHANGED <<there, req, rows>>
<1>0. /\ Recorded /\ rows \subseteq Tasks /\ chunkIds \subseteq rows /\ pc \in [Tasks -> PC]
      /\ pc[t] # "wipe" /\ t \notin cancelKey
  BY DEF StoredInv, Recorded, RInv, IInv, TaskOK, WorkOK
<1>1. UNCHANGED <<there, req, rows, cancelKey>>
  BY DEF Work, docVars, taskVars, clientVars, Collect, Build, CheckBeforeInsert, InsertChunks,
         CheckAfterInsert, CheckBeforeCount, CountDoc, CountKb, CheckBeforeDone, TaskDone, Finally,
         Wipe, Ack
<1> SUFFICES Recorded' /\ store \subseteq store'
  BY <1>1
<1>2. ASSUME UNCHANGED <<store, chunkIds>>,
             pc' = pc \/ \E label \in PC \ {"inserted", "wipe"} : Move(t, label)
      PROVE  Recorded' /\ store \subseteq store'
  BY <1>0, <1>1, <1>2 DEF Recorded, Move
<1>3. CASE Collect(t)
  BY <1>2, <1>3 DEF Collect, DropUnknown, Abandon, DropCancelled, StartTask, PC
<1>4. CASE Build(t)
  BY <1>2, <1>4 DEF Build, BuildCancelled, BuildFails, NoChunks, Embed, PC
<1>5. CASE CheckBeforeInsert(t) \/ CheckBeforeCount(t) \/ CheckBeforeDone(t) \/ TaskDone(t)
  BY <1>2, <1>5 DEF CheckBeforeInsert, CheckBeforeCount, CheckBeforeDone, TaskDone, PC
<1>6. CASE CountDoc(t) \/ CountKb(t) \/ Ack(t)
  BY <1>2, <1>6 DEF CountDoc, CountKb, Ack, PC, taskVars
<1>7. CASE Finally(t)
  <2>1. Move(t, "record") /\ UNCHANGED <<store, chunkIds>>
    BY <1>0, <1>7 DEF Finally, Canceled, taskVars
  <2> QED
    BY <1>2, <2>1 DEF PC
<1>8. CASE InsertChunks(t)
  <2>1. /\ chunkIds' = chunkIds /\ store \subseteq store'
        /\ \/ pc' = [pc EXCEPT ![t] = "inserted"] /\ PageOf(t) \in store'
           \/ pc' = [pc EXCEPT ![t] = "broken"]
    BY <1>8 DEF InsertChunks, Move, taskVars
  <2> QED
    BY <1>0, <1>1, <2>1 DEF Recorded
<1>9. CASE CheckAfterInsert(t)
  <2>1. /\ store' = store
        /\ \/ chunkIds' = chunkIds /\ pc' = [pc EXCEPT ![t] = "finally"]
           \/ /\ pc[t] = "inserted" /\ pc' = [pc EXCEPT ![t] = "indexed"]
              /\ chunkIds' \subseteq chunkIds \cup (rows \cap {t})
    BY <1>9 DEF CheckAfterInsert, Move
  <2> QED
    BY <1>0, <1>1, <2>1 DEF Recorded
<1>10. CASE Wipe(t)
  BY <1>0, <1>10 DEF Wipe
<1> QED
  BY <1>1, <1>3, <1>4, <1>5, <1>6, <1>7, <1>8, <1>9, <1>10 DEF Work

LEMMA NextStored ==
    ASSUME StoredInv, [Next]_vars, OneClient, ParsesOnly
    PROVE  StoredInv'
<1>0. RInv' /\ IInv /\ ReqOK
  BY NextRInv DEF StoredInv, RInv, IInv
<1>1. ASSUME there' => there /\ Recorded' /\ store \subseteq store', UNCHANGED <<there, req, rows>>
      PROVE  StoredInv'
  <2>1. ASSUME NEW q, there, Plan(q), store \subseteq store', rows' = rows PROVE Plan(q)'
    BY <2>1 DEF Plan, PlanAt
  <2>2. \A c \in Clients : Removing(req[c])'
    BY <1>1 DEF StoredInv, Removing
  <2>3. ASSUME there', NEW c \in Clients PROVE Plan(req[c])'
    <3>1. Plan(req[c]) /\ req'[c] = req[c]
      BY <1>1, <2>3 DEF StoredInv
    <3>2. PICK q : q = req[c]
      BY Zenon
    <3>3. Plan(q)'
      BY <1>1, <2>1, <2>3, <3>1, <3>2
    <3> QED
      BY <1>1, <3>1, <3>2, <3>3 DEF Plan
  <2> QED
    BY <1>0, <1>1, <2>2, <2>3 DEF StoredInv
<1>2. ASSUME NEW c \in Clients, Kept(c)', there' => Recorded' PROVE StoredInv'
  BY <1>0, <1>2 DEF StoredInv, Kept, OneClient
<1>3. ASSUME UNCHANGED <<rows, chunkIds, cancelKey, pc, store, there>> PROVE there' => there /\ Recorded'
  BY <1>3 DEF StoredInv, Recorded
<1>4. CASE UNCHANGED vars
  BY <1>1, <1>3, <1>4 DEF vars, docVars, taskVars, clientVars
<1>5. ASSUME NEW c \in Clients, Client(c) PROVE StoredInv'
  BY <1>2, <1>5, ClientStored
<1>6. ASSUME NEW c \in Clients, Abort(c) PROVE StoredInv'
  <2>1. Kept(c)'
    BY <1>0, <1>6, Refused, NoPlan DEF StoredInv, RInv, OnScript, Abort
  <2> QED
    BY <1>2, <1>3, <1>6, <2>1 DEF Abort, docVars, taskVars
<1>7. ASSUME NEW c \in Clients, NEW k \in Kinds, Request(c, k) PROVE StoredInv'
  <2>1. req'[c].kind = k /\ Len(req'[c].rest) = Lengths(k) /\ req'[c].reuse = {} /\ req'[c].drop = {}
    BY <1>0, <1>7, Asks
  <2>2. k \in {"run", "keep", "redo", "remove", "rm"}
    BY DEF ParsesOnly
  <2>3. ~(k \in {"remove", "rm"} /\ Lengths(k) < 5)
    BY <2>2 DEF Lengths
  <2>4. k \in Starts => PlanAt(k, Lengths(k), {}, {})'
    BY <2>2 DEF Lengths, Starts, PlanAt
  <2>5. Kept(c)'
    BY <2>1, <2>3, <2>4, NewPlan, Zenon
  <2> QED
    BY <1>2, <1>3, <1>7, <2>5 DEF Request, docVars, taskVars
<1>8. ASSUME NEW t \in Tasks, Work(t) PROVE StoredInv'
  <2>1. UNCHANGED <<there, req, rows>>
    BY <1>8 DEF Work, docVars, taskVars, clientVars, Collect, Build, CheckBeforeInsert, InsertChunks,
           CheckAfterInsert, CheckBeforeCount, CountDoc, CountKb, CheckBeforeDone, TaskDone, Finally,
           Wipe, Ack
  <2> QED
    BY <1>1, <1>8, <2>1, WorkStored
<1>9. ASSUME NEW t \in Tasks, ExpireKey(t) PROVE StoredInv'
  BY <1>1, <1>9 DEF ExpireKey, StoredInv, Recorded, docVars, taskVars, clientVars
<1>10. ASSUME NEW S \in SUBSET Tasks, Crash(S) PROVE StoredInv'
  <2>1. UNCHANGED <<there, req, rows, chunkIds, cancelKey, store>> /\ \A t \in Tasks : pc'[t] \in {"none", pc[t]}
    BY <1>10 DEF Crash, docVars, taskVars, clientVars
  <2>2. there' => there /\ Recorded' /\ store \subseteq store'
    BY <1>0, <2>1 DEF StoredInv, Recorded, IInv, TaskOK
  <2> QED
    BY <1>1, <2>1, <2>2
<1>11. ASSUME NEW s \in Syncers, Sync(s) PROVE StoredInv'
  <2>1. UNCHANGED <<there, req, rows, chunkIds, cancelKey, store>>
        /\ \A t \in Tasks : pc'[t] = pc[t] \/ pc'[t] = "ack"
    BY <1>0, <1>11 DEF Sync, SyncTasks, SyncDoc, SyncWrite, Leave, docVars, taskVars, clientVars, IInv, WorkOK
  <2>2. there' => there /\ Recorded' /\ store \subseteq store'
    BY <1>0, <2>1 DEF StoredInv, Recorded, IInv, TaskOK
  <2> QED
    BY <1>1, <2>1, <2>2
<1> QED
  BY <1>4, <1>5, <1>6, <1>7, <1>8, <1>9, <1>10, <1>11 DEF Next

LEMMA InitStored == Init => StoredInv
<1> SUFFICES ASSUME Init PROVE StoredInv
  OBVIOUS
<1>1. \A c \in Clients : req[c] = NoRequest
  BY DEF Init
<1>2. \A c \in Clients : Removing(req[c]) /\ Plan(req[c])
  BY <1>1 DEF Removing, Plan, NoRequest
<1>3. Recorded
  BY DEF Init, Recorded
<1> QED
  BY <1>2, <1>3, InitRInv DEF StoredInv

\* What Task.chunk_ids of a finished task names is in the document store, while the
\* document is there: for one client that parses, parses again and removes, whatever
\* requests that die halfway, executors that crash, keys that expire and threads that
\* write progress do in between.
THEOREM FinishedStays ==
    ASSUME OneClient, ParsesOnly
    PROVE  Spec => []FinishedIsStored
<1>1. StoredInv => FinishedIsStored
  BY DEF StoredInv, Recorded, FinishedIsStored
<1>2. StoredInv /\ [Next]_vars => StoredInv'
  BY NextStored
<1> QED
  BY <1>1, <1>2, InitStored, PTL DEF Spec

----------------------------------------------------------------------------
(* A stopped or removed document leaves nothing behind, when one client asks,   *)
(* without POST /document/run's cancel (which deletes no chunks) and without    *)
(* requests or executors that die on the way or flags that expire: each of      *)
(* these leaves chunks that nobody deletes any more.                            *)

NeverCancels == "cancel" \notin Kinds
NoFaults == MaxAborts = 0 /\ MaxCrashes = 0 /\ ~KeysExpire

\* From here on a request of kind k with n statements left has taken the document
\* over: what the executors store is its affair.
InChargeAt(k, n) == \/ k \in {"redo", "parse"} /\ n <= 9
                    \/ k \in {"run", "keep"} /\ n <= 7
                    \/ k \in {"stop", "remove", "rm"} /\ n <= 4
InCharge(q) == q.rest # <<>> /\ InChargeAt(q.kind, Len(q.rest))

\* What it has done of its work: a parse has the document RUNNING and its tasks in
\* the rows; a stop or a removal flags the tasks it has found, and then all of them.
StageAt(k, n, todo) ==
    /\ k \in Starts /\ n < Lengths(k) => there
    /\ InChargeAt(k, n) /\ k \in Starts => run # "CANCEL" /\ (n <= 2 => todo \subseteq rows)
    /\ InChargeAt(k, n) /\ k \notin Starts =>
          /\ k # "stop" => ~there
          /\ n = 3 => rows \subseteq todo \cup cancelKey
          /\ n <= 2 => rows \subseteq cancelKey
Stage(q) == q.rest # <<>> => StageAt(q.kind, Len(q.rest), q.todo)

\* A task that may store is in sight: its row is there, or it has a flag.
InSight == ~orphaned => \A t \in Tasks : MayStore(t) => t \in rows \cup cancelKey

\* A flagged task that has stored and will delete the document's chunks.
Cleaning(t) == pc[t] \in {"inserted", "broken", "indexed", "count", "countKb", "finish", "done",
                          "finally", "wipe"}

\* Of a stopped or removed document: only flagged tasks may still store, and what is
\* stored a flagged task will delete.
Cleared == /\ \A t \in Tasks : MayStore(t) => t \in cancelKey
           /\ store = {} \/ \E t \in cancelKey : Cleaning(t)
Abandoned == (~there \/ run = "CANCEL") /\ ~orphaned

LeftInv == /\ RInv /\ InSight
           /\ aborts \in Nat /\ crashes \in Nat
           /\ \A c \in Clients : Stage(req[c])
           /\ \A c \in Clients : ~InCharge(req[c]) => (Abandoned => Cleared)

PlacedToo(k, n, step) ==
    /\ n \in 1 .. 12
    /\ \/ k = "run" /\ n <= 10 /\ AtStart(k, n, step)
       \/ k = "keep" /\ n <= 9 /\ AtStart(k, n, step)
       \/ k = "redo" /\ AtStart(k, n, step)
       \/ k = "parse" /\ n <= 11 /\ AtStart(k, n, step)
       \/ k = "stop" /\ n <= 5 /\ AtStop(n, step)
       \/ k = "remove" /\ n <= 5 /\ AtRemoval(n, step)
       \/ k = "rm" /\ n <= 7 /\ AtRemoval(n, step)

LEMMA BoundsToo ==
    ASSUME NEW k \in {"run", "keep", "redo", "parse", "stop", "remove", "rm"}, NEW n \in 1 .. Lengths(k)
    PROVE  n \in 1 .. 12 /\ (k = "run" => n <= 10) /\ (k = "keep" => n <= 9) /\ (k = "parse" => n <= 11)
           /\ (k = "stop" => n <= 5) /\ (k = "remove" => n <= 5) /\ (k = "rm" => n <= 7)
  BY DEF Lengths

LEMMA PlacesToo ==
    ASSUME NeverCancels, ReqOK, NEW c \in Clients, Standing(req[c]), NEW step, At(c, step),
           NEW k, NEW n, k = req[c].kind, n = Len(req[c].rest)
    PROVE  PlacedToo(k, n, step)
<1>1. /\ k \in Kinds /\ n \in 1 .. Lengths(k)
      /\ k \in Starts => AtStart(k, n, step)
      /\ k = "stop" => AtStop(n, step)
      /\ k \in {"remove", "rm"} => AtRemoval(n, step)
  BY Position
<1>2. k \in {"run", "keep", "redo", "parse", "stop", "remove", "rm"}
  BY <1>1, ParseAssumption, Zenon DEF NeverCancels
<1>3. (k = "run" \/ k = "keep" \/ k = "redo" \/ k = "parse" => k \in Starts)
      /\ (k = "remove" \/ k = "rm" => k \in {"remove", "rm"})
  BY Zenon DEF Starts
<1>4. k = "run" \/ k = "keep" \/ k = "redo" \/ k = "parse" \/ k = "stop" \/ k = "remove" \/ k = "rm"
  BY <1>2, Zenon
<1>5. n \in 1 .. 12 /\ (k = "run" => n <= 10) /\ (k = "keep" => n <= 9) /\ (k = "parse" => n <= 11)
      /\ (k = "stop" => n <= 5) /\ (k = "remove" => n <= 5) /\ (k = "rm" => n <= 7)
  BY <1>1, <1>2, BoundsToo, Zenon
<1> QED
  BY <1>1, <1>3, <1>4, <1>5, Zenon DEF PlacedToo

\* The request is answered, or has moved on: its stage, and what it need not see to.
Held(c) == Stage(req[c]) /\ (~InCharge(req[c]) => (Abandoned => Cleared))

LEMMA NoStage == ASSUME NEW c \in Clients, Answered(req'[c]), (Abandoned => Cleared)' PROVE Held(c)'
  BY DEF Answered, NoRequest, Held, Stage, InCharge

LEMMA NewStage ==
    ASSUME NEW c \in Clients, NEW k, NEW m, NEW todo,
           req'[c].kind = k, Len(req'[c].rest) = m, req'[c].todo = todo, req'[c].rest # <<>>,
           StageAt(k, m, todo)', ~InChargeAt(k, m) => (Abandoned => Cleared)'
    PROVE  Held(c)'
  BY Zenon DEF Held, Stage, InCharge

LEMMA ClientLeaves ==
    ASSUME LeftInv, NeverCancels, NEW c \in Clients, Client(c)
    PROVE  Held(c)' /\ InSight' /\ UNCHANGED <<aborts, crashes>>
<1>0. /\ IInv /\ OnScript /\ ReqOK /\ Standing(req[c]) /\ Stage(req[c]) /\ InSight
      /\ (~InCharge(req[c]) => (Abandoned => Cleared))
      /\ rows \subseteq Tasks /\ req[c] \in RequestType
  BY DEF LeftInv, RInv, OnScript, IInv, TaskOK, ReqOK
<1>1. UNCHANGED <<aborts, crashes, pc>>
  BY DEF Client, ReadDoc, ClearKb, Mark, CheckTasks, FindTasks, FlagTasks, DropTasks, DropChunks,
         DeleteDoc, ReadTasks, DropOldChunks, SetChunkNum, InsertTasks, BeginParse, Publish, boundVars
<1> SUFFICES Held(c)' /\ InSight'
  BY <1>1
<1>2. PICK k, n, todo : k = req[c].kind /\ n = Len(req[c].rest) /\ todo = req[c].todo
  BY Zenon
<1>3. ASSUME NEW step, At(c, step)
      PROVE  /\ PlacedToo(k, n, step) /\ StageAt(k, n, todo)
             /\ ~InChargeAt(k, n) => (Abandoned => Cleared)
  <2>1. req[c].rest # <<>>
    BY <1>3 DEF At, Busy
  <2>2. /\ StageAt(k, n, todo)
        /\ ~InChargeAt(k, n) => (Abandoned => Cleared)
    BY <1>0, <1>2, <2>1, Zenon DEF Stage, InCharge
  <2>3. PlacedToo(k, n, step)
    BY <1>0, <1>2, <1>3, PlacesToo
  <2> QED
    BY <2>2, <2>3, Zenon
<1>4. ASSUME NEW m \in Int, Goes(req'[c], req[c], m), StageAt(k, m, todo)',
             ~InChargeAt(k, m) => (Abandoned => Cleared)'
      PROVE  Held(c)'
  BY <1>2, <1>4, NewStage, Zenon DEF Goes
<1>5. ASSUME Steps(c, req[c]), n \in 1 .. 12,
             n # 1 => StageAt(k, n - 1, todo)',
             n = 1 \/ ~InChargeAt(k, n - 1) => (Abandoned => Cleared)'
      PROVE  Held(c)'
  <2>1. CASE n = 1
    BY <1>2, <1>5, <2>1, NoStage DEF Steps
  <2>2. CASE n # 1
    <3>1. Goes(req'[c], req[c], n - 1)
      BY <1>2, <1>5, <2>2, Zenon DEF Steps
    <3>2. n - 1 \in Int
      BY <1>5
    <3> QED
      BY <1>4, <1>5, <2>2, <3>1, <3>2, Zenon
  <2> QED
    BY <2>1, <2>2
<1>6. ASSUME Refuse(c), (Abandoned => Cleared)' PROVE Held(c)'
  BY <1>0, <1>6, Refused, NoStage
<1>7. ASSUME Go(c), Busy(c) PROVE Steps(c, req[c])
  BY <1>0, <1>7, GoesOn
<1>8. ASSUME UNCHANGED <<rows, cancelKey, orphaned, status>> PROVE InSight'
  BY <1>0, <1>1, <1>8 DEF InSight, MayStore
<1>9. ASSUME UNCHANGED <<there, run, orphaned, status, cancelKey, store>>
      PROVE  (Abandoned' <=> Abandoned) /\ (Cleared' <=> Cleared)
  BY <1>1, <1>9 DEF Abandoned, Cleared, MayStore, Cleaning
<1> USE DEF docVars, taskVars, queueVars, boundVars
<1>10. CASE ReadDoc(c)
  <2>1. Answered(req'[c]) \/ (there /\ Steps(c, req[c]))
    <3>1. CASE there
      BY <1>0, <1>10, <3>1, ReadDocGoes
    <3>2. CASE ~there
      BY <1>0, <1>10, <3>2, Refused DEF ReadDoc
    <3> QED
      BY <3>1, <3>2
  <2>2. UNCHANGED <<there, run, rows, store, cancelKey, status, orphaned>> /\ At(c, "ReadDoc")
    BY <1>10 DEF ReadDoc
  <2>3. ~InChargeAt(k, n) /\ n \in 1 .. 12 /\ n # 1
    BY <1>3, <2>2 DEF PlacedToo, InChargeAt, AtStart, AtStop, AtRemoval
  <2>4. there => StageAt(k, n - 1, todo)'
    BY <1>3, <2>2 DEF PlacedToo, StageAt, InChargeAt, Starts, AtStart, AtStop, AtRemoval
  <2>5. (Abandoned => Cleared)'
    BY <1>3, <1>9, <2>2, <2>3
  <2> QED
    BY <1>5, <1>8, <2>1, <2>2, <2>3, <2>4, <2>5, NoStage
<1>11. CASE ClearKb(c) \/ CheckTasks(c) \/ SetChunkNum(c)
  <2>1. PICK step \in {"ClearKb", "CheckTasks", "SetChunkNum"} : At(c, step)
    BY <1>11 DEF ClearKb, CheckTasks, SetChunkNum
  <2>2. UNCHANGED <<there, run, rows, store, cancelKey, status, orphaned>>
    BY <1>11 DEF ClearKb, CheckTasks, SetChunkNum
  <2>3. n \in 2 .. 12 /\ (InChargeAt(k, n) <=> InChargeAt(k, n - 1))
    BY <1>3, <2>1 DEF PlacedToo, InChargeAt, AtStart, AtStop, AtRemoval
  <2>4. StageAt(k, n - 1, todo)' /\ there
    BY <1>3, <2>1, <2>2 DEF PlacedToo, StageAt, InChargeAt, Starts, Lengths, AtStart, AtStop, AtRemoval
  <2>5. ~InChargeAt(k, n - 1) => (Abandoned => Cleared)'
    BY <1>3, <1>9, <2>1, <2>2, <2>3
  <2>6. Go(c)
    <3>1. ~At(c, "CheckTasks")
      BY <1>3 DEF PlacedToo, AtStart, AtStop, AtRemoval
    <3> QED
      BY <1>11, <2>4, <3>1 DEF ClearKb, CheckTasks, SetChunkNum
  <2> QED
    BY <1>5, <1>7, <1>8, <2>1, <2>2, <2>3, <2>4, <2>5, <2>6 DEF At
<1>12. CASE Mark(c)
  <2>1. UNCHANGED <<there, rows, store, cancelKey, status, orphaned>> /\ At(c, "Mark") /\ Go(c)
        /\ (k \in Starts /\ there => run' = "RUNNING")
    BY <1>2, <1>12 DEF Mark, Kind
  <2>2. n \in 2 .. 12 /\ InChargeAt(k, n - 1) /\ (k \in Starts => n < Lengths(k))
    BY <1>3, <2>1 DEF PlacedToo, InChargeAt, Lengths, AtStart, AtStop, AtRemoval
  <2>3. StageAt(k, n - 1, todo)'
    BY <1>3, <2>1, <2>2 DEF PlacedToo, StageAt, InChargeAt, Starts, AtStart, AtStop, AtRemoval
  <2> QED
    BY <1>5, <1>7, <1>8, <2>1, <2>2, <2>3 DEF At
<1>13. CASE FindTasks(c)
  <2>1. UNCHANGED <<there, run, rows, store, cancelKey, status, orphaned>> /\ At(c, "FindTasks")
    BY <1>13 DEF FindTasks
  <2>2. PlacedToo(k, n, "FindTasks") /\ StageAt(k, n, todo)
    BY <1>3, <2>1
  <2>3. n = 4 /\ k \in {"stop", "remove", "rm"}
    BY <2>2 DEF PlacedToo, AtStart, AtStop, AtRemoval
  <2>4. req'[c].kind = k /\ req'[c].todo = rows /\ Len(req'[c].rest) = 3
    <3>1. Len(req[c].rest) = 4 /\ req[c].kind = k
      BY <1>2, <2>3, Zenon
    <3>2. Len(req[c].rest) # 1 /\ Len(req[c].rest) - 1 = 3
      BY <3>1
    <3> QED
      BY <1>0, <1>13, <3>1, <3>2, FindTasksGoes, Zenon
  <2>5. StageAt(k, 3, rows)' /\ InChargeAt(k, 3)
    BY <2>1, <2>2, <2>3 DEF StageAt, InChargeAt, Starts
  <2>6. Held(c)'
    <3>1. PICK found : found = rows
      BY Zenon
    <3>2. StageAt(k, 3, found)'
      BY <2>1, <2>5, <3>1 DEF StageAt
    <3>3. Len(<<>>) # 3
      OBVIOUS
    <3> QED
      BY <2>4, <2>5, <3>1, <3>2, <3>3, NewStage, Zenon
  <2> QED
    BY <1>8, <2>1, <2>6
<1>14. CASE FlagTasks(c)
  <2>1. UNCHANGED <<there, run, rows, store, status, orphaned>> /\ At(c, "FlagTasks")
    BY <1>14 DEF FlagTasks
  <2>2. PlacedToo(k, n, "FlagTasks") /\ StageAt(k, n, todo)
    BY <1>3, <2>1
  <2>3. n = 3 /\ k \in {"stop", "remove", "rm"} /\ k \notin Starts
    BY <2>2 DEF PlacedToo, AtStart, AtStop, AtRemoval, Starts
  <2>4. (k # "stop" => ~there) /\ rows \subseteq todo \cup cancelKey
    BY <2>2, <2>3 DEF StageAt, InChargeAt
  <2>5. Len(req[c].rest) = 3 /\ req[c].kind = k
    BY <1>2, <2>3, Zenon
  <2>6. CASE todo = {} /\ Steps(c, req[c]) /\ UNCHANGED cancelKey
    <3>1. StageAt(k, n - 1, todo)' /\ InChargeAt(k, n - 1)
      BY <2>1, <2>3, <2>4, <2>6 DEF StageAt, InChargeAt
    <3> QED
      BY <1>5, <1>8, <2>1, <2>3, <2>6, <3>1
  <2>7. ASSUME NEW t \in todo, req'[c].kind = req[c].kind, req'[c].rest = req[c].rest,
               req'[c].todo = todo \ {t}, cancelKey' = cancelKey \cup {t}
        PROVE  Held(c)' /\ InSight'
    <3> DEFINE left == todo \ {t}
    <3>1. StageAt(k, 3, left)' /\ InChargeAt(k, 3)
      BY <2>1, <2>3, <2>4, <2>7 DEF StageAt, InChargeAt
    <3>2. req[c].rest # <<>> /\ req'[c].todo = left
      BY <2>1, <2>7 DEF At, Busy
    <3> HIDE DEF left
    <3>3. PICK l : l = left
      BY Zenon
    <3>4. StageAt(k, 3, l)'
      BY <3>1, <3>3, Zenon
    <3>5. Held(c)'
      BY <2>5, <2>7, <3>1, <3>2, <3>3, <3>4, NewStage, Zenon
    <3>6. InSight'
      BY <1>0, <1>1, <2>1, <2>7 DEF InSight, MayStore
    <3> QED
      BY <3>5, <3>6
  <2> QED
    BY <1>0, <1>2, <1>14, <2>1, <2>6, <2>7, OneFlagged
<1>15. CASE DropTasks(c)
  <2>1. /\ UNCHANGED <<there, run, store, cancelKey, status>> /\ At(c, "DropTasks") /\ Go(c)
        /\ rows' = {}
        /\ orphaned' = (orphaned \/ \E t \in rows \ cancelKey : MayStore(t))
    BY <1>15 DEF DropTasks
  <2>2. PlacedToo(k, n, "DropTasks") /\ StageAt(k, n, todo) /\ (~InChargeAt(k, n) => (Abandoned => Cleared))
    BY <1>3, <2>1
  <2>3. n \in 2 .. 12 /\ (InChargeAt(k, n) <=> InChargeAt(k, n - 1)) /\ (k \in Starts => n \in 6 .. 9 /\ n < Lengths(k))
        /\ (k \notin Starts => n \in {2, 6})
    BY <2>2 DEF PlacedToo, InChargeAt, AtStart, AtStop, AtRemoval, Starts, Lengths
  <2>4. StageAt(k, n - 1, todo)'
    BY <2>1, <2>2, <2>3 DEF StageAt
  <2>5. ~orphaned' => ~orphaned /\ \A t \in rows \ cancelKey : ~MayStore(t)
    BY <2>1
  <2>6. InSight'
    BY <1>0, <1>1, <2>1, <2>5 DEF InSight, MayStore
  <2>7. ~InChargeAt(k, n - 1) => (Abandoned => Cleared)'
    <3>1. (Abandoned' => Abandoned) /\ (Cleared' <=> Cleared)
      BY <1>1, <2>1, <2>5 DEF Abandoned, Cleared, MayStore, Cleaning
    <3> QED
      BY <2>2, <2>3, <3>1
  <2> QED
    BY <1>5, <1>7, <2>1, <2>3, <2>4, <2>6, <2>7 DEF At
<1>16. CASE DropChunks(c)
  <2>1. /\ UNCHANGED <<there, run, rows, cancelKey, status, orphaned>> /\ At(c, "DropChunks") /\ Go(c)
        /\ store' = {}
    BY <1>16 DEF DropChunks
  <2>2. PlacedToo(k, n, "DropChunks") /\ StageAt(k, n, todo)
    BY <1>3, <2>1
  <2>3. \/ k \in {"redo", "parse"} /\ n \in 8 .. 9 /\ n < Lengths(k) /\ k \in Starts
        \/ k \in {"stop", "remove", "rm"} /\ n = 1 /\ k \notin Starts
    BY <2>2 DEF PlacedToo, AtStart, AtStop, AtRemoval, Starts, Lengths
  <2>4. n # 1 => StageAt(k, n - 1, todo)' /\ InChargeAt(k, n - 1)
    BY <2>1, <2>2, <2>3 DEF StageAt, InChargeAt
  <2>5. CASE n = 1
    <3>1. rows \subseteq cancelKey
      BY <2>2, <2>3, <2>5 DEF StageAt, InChargeAt
    <3>2. (Abandoned => Cleared)'
      BY <1>0, <1>1, <2>1, <3>1 DEF InSight, Abandoned, Cleared, MayStore
    <3> QED
      BY <1>5, <1>7, <1>8, <2>1, <2>5, <3>2 DEF At
  <2>6. CASE n # 1
    BY <1>5, <1>7, <1>8, <2>1, <2>3, <2>4, <2>6 DEF At
  <2> QED
    BY <2>5, <2>6
<1>17. CASE DeleteDoc(c)
  <2>1. UNCHANGED <<rows, store, cancelKey, status, orphaned>> /\ At(c, "DeleteDoc")
    BY <1>17 DEF DeleteDoc
  <2>2. /\ PlacedToo(k, n, "DeleteDoc") /\ StageAt(k, n, todo)
        /\ ~InChargeAt(k, n) => (Abandoned => Cleared)
    BY <1>3, <2>1
  <2>3. n = 5 /\ k \in {"remove", "rm"} /\ k \notin Starts /\ ~InChargeAt(k, n) /\ InChargeAt(k, n - 1)
    BY <2>2 DEF PlacedToo, AtStart, AtStop, AtRemoval, Starts, InChargeAt
  <2>4. CASE ~there' /\ Go(c)
    <3>1. StageAt(k, n - 1, todo)'
      BY <2>3, <2>4 DEF StageAt
    <3> QED
      BY <1>5, <1>7, <1>8, <2>1, <2>3, <2>4, <3>1 DEF At
  <2>5. CASE Refuse(c) /\ UNCHANGED docVars
    BY <1>6, <1>8, <1>9, <2>1, <2>2, <2>3, <2>5
  <2> QED
    BY <1>17, <2>4, <2>5 DEF DeleteDoc
<1>18. CASE ReadTasks(c)
  <2>1. UNCHANGED <<there, run, rows, store, cancelKey, status, orphaned>> /\ At(c, "ReadTasks")
    BY <1>18 DEF ReadTasks
  <2>2. PlacedToo(k, n, "ReadTasks") /\ StageAt(k, n, todo)
    BY <1>3, <2>1
  <2>3. n = 7 /\ k \in Starts /\ n < Lengths(k) /\ Lengths(k) \in Nat
    BY <2>2 DEF PlacedToo, AtStart, AtStop, AtRemoval, Starts, Lengths
  <2>4. there /\ run # "CANCEL"
    BY <2>2, <2>3 DEF StageAt, InChargeAt, Starts
  <2>5. ASSUME NEW m \in {4, 6} PROVE StageAt(k, m, todo)' /\ InChargeAt(k, m)
    BY <2>1, <2>3, <2>4 DEF StageAt, InChargeAt, Starts
  <2>6. PICK m \in {4, 6} : req'[c].kind = k /\ Len(req'[c].rest) = m /\ req'[c].todo = todo
    <3>1. Len(req[c].rest) = 7
      BY <1>2, <2>3
    <3>2. \/ Goes(req'[c], req[c], 4)
          \/ req'[c].kind = req[c].kind /\ Len(req'[c].rest) = 6 /\ req'[c].todo = req[c].todo
      BY <1>0, <1>18, <2>4, <3>1, ReadTasksGoes
    <3> QED
      BY <1>2, <3>2 DEF Goes
  <2>7. \A i \in {4, 6} : Len(<<>>) # i
    OBVIOUS
  <2>8. Held(c)'
    BY <2>5, <2>6, <2>7, NewStage, Zenon
  <2> QED
    BY <1>8, <2>1, <2>8
<1>19. CASE DropOldChunks(c) \/ BeginParse(c)
  <2>1. UNCHANGED <<there, rows, cancelKey, status, orphaned>> /\ Go(c)
    BY <1>19 DEF DropOldChunks, BeginParse
  <2>2. PICK step \in {"DropOldChunks", "BeginParse"} : At(c, step)
    BY <1>19 DEF DropOldChunks, BeginParse
  <2>3. PlacedToo(k, n, step) /\ StageAt(k, n, todo)
    BY <1>3, <2>2
  <2>4. n \in {2, 5} /\ k \in Starts /\ n < Lengths(k)
    BY <2>2, <2>3 DEF PlacedToo, AtStart, AtStop, AtRemoval, Starts, Lengths
  <2>5. run' \in {run, "RUNNING"}
    BY <1>19 DEF DropOldChunks, BeginParse
  <2>6. StageAt(k, n - 1, todo)' /\ InChargeAt(k, n - 1)
    <3>1. InChargeAt(k, n) /\ InChargeAt(k, n - 1)
      BY <2>4 DEF InChargeAt, Starts
    <3>2. CASE n = 5
      BY <2>1, <2>3, <2>4, <2>5, <3>1, <3>2 DEF StageAt
    <3>3. CASE n = 2
      BY <2>1, <2>3, <2>4, <2>5, <3>1, <3>3 DEF StageAt
    <3> QED
      BY <2>4, <3>1, <3>2, <3>3
  <2> QED
    BY <1>5, <1>7, <1>8, <2>1, <2>2, <2>4, <2>6 DEF At
<1>20. CASE InsertTasks(c)
  <2>1. /\ UNCHANGED <<there, run, cancelKey, status, orphaned>> /\ At(c, "InsertTasks")
        /\ rows' = rows \cup ({runs'} \X Pages)
    BY <1>20 DEF InsertTasks
  <2>2. PlacedToo(k, n, "InsertTasks") /\ StageAt(k, n, todo)
    BY <1>3, <2>1
  <2>3. n = 3 /\ k \in Starts /\ n < Lengths(k) /\ Lengths(k) \in Nat
    BY <2>2 DEF PlacedToo, AtStart, AtStop, AtRemoval, Starts, Lengths
  <2>4. there /\ run # "CANCEL" /\ InChargeAt(k, 2)
    BY <2>2, <2>3 DEF StageAt, InChargeAt, Starts
  <2>5. PICK new : new = ({runs'} \X Pages) \ ({runs'} \X req[c].reuse)
    BY Zenon
  <2>6. req'[c].kind = k /\ Len(req'[c].rest) = 2 /\ req'[c].todo = new
    <3>1. Len(req[c].rest) = 3 /\ req[c].kind = k
      BY <1>2, <2>3, Zenon
    <3>2. Len(req[c].rest) # 1 /\ Len(req[c].rest) - 1 = 2
      BY <3>1
    <3> QED
      BY <1>0, <1>20, <2>5, <3>1, <3>2, InsertTasksGoes, Zenon
  <2>7. new \subseteq rows'
    BY <2>1, <2>5
  <2>8. StageAt(k, 2, new)'
    BY <2>1, <2>3, <2>4, <2>7 DEF StageAt
  <2>9. Len(<<>>) # 2
    OBVIOUS
  <2>10. Held(c)'
    BY <2>4, <2>6, <2>8, <2>9, NewStage, Zenon
  <2>11. InSight'
    BY <1>0, <1>1, <2>1 DEF InSight, MayStore
  <2> QED
    BY <2>10, <2>11
<1>21. CASE Publish(c)
  <2>1. UNCHANGED <<there, run, rows, store, cancelKey, orphaned>> /\ At(c, "Publish")
    BY <1>21 DEF Publish
  <2>2. PlacedToo(k, n, "Publish") /\ StageAt(k, n, todo)
    BY <1>3, <2>1
  <2>3. n = 1 /\ k \in Starts /\ n < Lengths(k) /\ InChargeAt(k, n)
    BY <2>2 DEF PlacedToo, AtStart, AtStop, AtRemoval, Starts, Lengths, InChargeAt
  <2>4. there /\ run # "CANCEL" /\ todo \subseteq rows
    BY <2>2, <2>3 DEF StageAt
  <2>5. CASE Steps(c, req[c]) /\ UNCHANGED queueVars
    <3>1. ~Abandoned'
      BY <2>1, <2>4 DEF Abandoned
    <3> QED
      BY <1>5, <1>8, <2>1, <2>3, <2>5, <3>1
  <2>6. ASSUME NEW t \in todo, req'[c].kind = req[c].kind, req'[c].rest = req[c].rest,
               req'[c].todo = todo \ {t}, Queue!Publish(t)
        PROVE  Held(c)' /\ InSight'
    <3> DEFINE left == todo \ {t}
    <3>1. StageAt(k, 1, left)' /\ InChargeAt(k, 1)
      BY <2>1, <2>3, <2>4 DEF StageAt
    <3>2. req[c].rest # <<>> /\ req'[c].todo = left
      BY <2>1, <2>6 DEF At, Busy
    <3> HIDE DEF left
    <3>3. PICK l : l = left
      BY Zenon
    <3>4. StageAt(k, 1, l)'
      BY <3>1, <3>3, Zenon
    <3>5. Len(req[c].rest) = 1 /\ req[c].kind = k
      BY <1>2, <2>3, Zenon
    <3>6. Held(c)'
      BY <2>6, <3>1, <3>2, <3>3, <3>4, <3>5, NewStage, Zenon
    <3>7. \A u \in Tasks : MayStore(u)' => MayStore(u) \/ u \in rows
      BY <1>0, <1>1, <2>4, <2>6 DEF MayStore, Queue!Publish, Queue!Move, IInv, WorkOK, Queue!LifecycleTypeOK
    <3>8. InSight'
      BY <1>0, <2>1, <3>7 DEF InSight
    <3> QED
      BY <3>6, <3>8
  <2>7. \/ Steps(c, req[c]) /\ UNCHANGED queueVars
        \/ \E t \in todo : /\ req'[c].kind = req[c].kind /\ req'[c].rest = req[c].rest
                           /\ req'[c].todo = todo \ {t}
                           /\ Queue!Publish(t)
    BY <1>0, <1>2, <1>21, OneFlagged
  <2> QED
    BY <2>5, <2>6, <2>7
<1> QED
  BY <1>10, <1>11, <1>12, <1>13, <1>14, <1>15, <1>16, <1>17, <1>18, <1>19, <1>20, <1>21 DEF Client

LEMMA WorkLeaves ==
    ASSUME LeftInv, NEW t \in Tasks, Work(t)
    PROVE  /\ UNCHANGED <<there, run, rows, req, cancelKey, aborts, crashes, orphaned>>
           /\ \A u \in Tasks : MayStore(u)' => MayStore(u)
           /\ Cleared => Cleared'
<1>0. pc \in [Tasks -> PC] /\ status \in [Tasks -> Queue!Status]
      /\ (\A u \in Tasks : pc[u] # "none" <=> status[u] = "running")
  BY DEF LeftInv, RInv, IInv, WorkOK, Queue!LifecycleTypeOK
<1>1. UNCHANGED <<there, run, rows, req, cancelKey, aborts, crashes, orphaned>>
  <2> USE DEF docVars, taskVars, clientVars, boundVars
  <2> QED
    BY DEF Work, Collect, Build, CheckBeforeInsert, InsertChunks, CheckAfterInsert, CheckBeforeCount,
         CountDoc, CountKb, CheckBeforeDone, TaskDone, Finally, Wipe, Ack
<1>2. /\ pc' = pc \/ \E label \in PC : pc' = [pc EXCEPT ![t] = label]
      /\ \A u \in Tasks : status'[u] = "pending" => status[u] = "pending"
  <2>1. CASE Collect(t)
    BY <1>0, <2>1 DEF Collect, DropUnknown, Abandon, DropCancelled, StartTask, Move, PC, Queue!Drop,
                      Queue!Start, Queue!Move
  <2>2. CASE Ack(t)
    BY <1>0, <2>2 DEF Ack, Move, PC, Queue!Settle, Queue!Move
  <2>3. CASE Build(t) \/ CheckBeforeInsert(t) \/ InsertChunks(t) \/ CheckAfterInsert(t)
    BY <2>3 DEF Build, BuildCancelled, BuildFails, NoChunks, Embed, CheckBeforeInsert, InsertChunks,
                CheckAfterInsert, Move, PC, queueVars
  <2>4. CASE CheckBeforeCount(t) \/ CountDoc(t) \/ CountKb(t) \/ CheckBeforeDone(t) \/ TaskDone(t)
             \/ Finally(t) \/ Wipe(t)
    BY <2>4 DEF CheckBeforeCount, CountDoc, CountKb, CheckBeforeDone, TaskDone, Finally, Wipe, Move, PC,
                queueVars
  <2> QED
    BY <2>1, <2>2, <2>3, <2>4 DEF Work
<1>3. \A u \in Tasks \ {t} : pc'[u] = pc[u]
  BY <1>0, <1>2
<1>4. MayStore(t)' => MayStore(t)
  <2>1. CASE Collect(t)
    BY <2>1 DEF Collect, MayStore
  <2>2. CASE pc[t] \in {"build", "check", "insert"}
    BY <2>2 DEF MayStore
  <2>3. CASE pc[t] \notin {"build", "check", "insert"} /\ ~Collect(t)
    BY <1>0, <1>2, <2>3 DEF MayStore, Work, Build, CheckBeforeInsert, InsertChunks, CheckAfterInsert,
         CheckBeforeCount, CountDoc, CountKb, CheckBeforeDone, TaskDone, Finally, Wipe, Ack, Move
  <2> QED
    BY <2>1, <2>2, <2>3
<1>5. \A u \in Tasks : MayStore(u)' => MayStore(u)
  BY <1>2, <1>3, <1>4 DEF MayStore
<1>6. ASSUME Cleared PROVE store' = {} \/ \E u \in cancelKey : Cleaning(u)'
  <2>1. CASE InsertChunks(t)
    <3>1. pc'[t] \in {"inserted", "broken"} /\ MayStore(t)
      BY <1>0, <2>1 DEF InsertChunks, Move, MayStore
    <3> QED
      BY <1>6, <3>1 DEF Cleared, Cleaning
  <2>2. CASE Wipe(t)
    BY <2>2 DEF Wipe
  <2>3. CASE ~InsertChunks(t) /\ ~Wipe(t)
    <3>1. store' = store
      BY <2>3 DEF Work, Collect, Build, CheckBeforeInsert, CheckAfterInsert, CheckBeforeCount,
         CountDoc, CountKb, CheckBeforeDone, TaskDone, Finally, Ack
    <3>2. ASSUME NEW u \in cancelKey, Cleaning(u) PROVE Cleaning(u)'
      <4>1. u \in Tasks
        BY DEF LeftInv, RInv, IInv, FlagOK
      <4>2. CASE u # t
        BY <1>3, <3>2, <4>1, <4>2 DEF Cleaning
      <4>3. CASE u = t
        <5>1. CASE Collect(t)
          BY <1>0, <3>2, <4>3, <5>1 DEF Collect, Cleaning
        <5>2. CASE CheckAfterInsert(t) \/ CheckBeforeCount(t) \/ CheckBeforeDone(t)
          BY <1>0, <4>3, <5>2 DEF CheckAfterInsert, CheckBeforeCount, CheckBeforeDone, Canceled, Move, Cleaning
        <5>3. CASE CountDoc(t) \/ CountKb(t) \/ TaskDone(t) \/ Finally(t)
          BY <1>0, <4>3, <5>3 DEF CountDoc, CountKb, TaskDone, Finally, Canceled, Move, Cleaning
        <5>4. ~(Build(t) \/ CheckBeforeInsert(t) \/ Ack(t))
          BY <3>2, <4>3 DEF Build, CheckBeforeInsert, Ack, Cleaning
        <5> QED
          BY <2>3, <5>1, <5>2, <5>3, <5>4 DEF Work
      <4> QED
        BY <4>2, <4>3
    <3> QED
      BY <1>6, <3>1, <3>2 DEF Cleared
  <2> QED
    BY <2>1, <2>2, <2>3
<1> QED
  BY <1>1, <1>5, <1>6 DEF Cleared

LEMMA NextLeaves ==
    ASSUME LeftInv, [Next]_vars, OneClient, NeverCancels, NoFaults
    PROVE  LeftInv'
<1>0. RInv' /\ IInv /\ ReqOK /\ OnScript
  BY NextRInv DEF LeftInv, RInv, IInv
<1>1. ASSUME NEW c \in Clients, Held(c)', InSight', aborts' \in Nat, crashes' \in Nat PROVE LeftInv'
  BY <1>0, <1>1 DEF LeftInv, Held, OneClient
\* Steps of others than the client.
<1>2. ASSUME UNCHANGED <<there, rows, req, cancelKey, aborts, crashes, orphaned>>,
             run' = "CANCEL" => run = "CANCEL",
             \A u \in Tasks : MayStore(u)' => MayStore(u), Cleared => Cleared'
      PROVE  LeftInv'
  <2>1. InSight'
    BY <1>2 DEF LeftInv, InSight
  <2>2. ASSUME NEW q, Stage(q) PROVE Stage(q)'
    BY <1>2, <2>2 DEF Stage, StageAt
  <2>3. Abandoned' => Abandoned
    BY <1>2 DEF Abandoned
  <2>4. ASSUME NEW c \in Clients PROVE Held(c)'
    <3>1. PICK q : q = req[c]
      BY Zenon
    <3>2. Stage(q)' /\ req'[c] = q
      BY <1>2, <2>2, <3>1 DEF LeftInv
    <3>3. Stage(req[c])'
      BY <3>2 DEF Stage
    <3>4. InCharge(req[c])' <=> InCharge(req[c])
      BY <1>2 DEF InCharge
    <3> QED
      BY <1>2, <2>3, <3>3, <3>4 DEF Held, LeftInv
  <2> QED
    BY <1>0, <1>2, <2>1, <2>4 DEF LeftInv, Held
<1>3. CASE UNCHANGED vars
  <2>1. UNCHANGED <<there, run, rows, req, cancelKey, aborts, crashes, orphaned, status, pc, store>>
    BY <1>3 DEF vars, docVars, taskVars, queueVars, clientVars, boundVars
  <2> QED
    BY <1>2, <2>1 DEF MayStore, Cleared, Cleaning
<1>4. ASSUME NEW c \in Clients, Client(c) PROVE LeftInv'
  BY <1>1, <1>4, ClientLeaves DEF LeftInv
<1>5. ASSUME NEW c \in Clients, NEW k \in Kinds, Request(c, k) PROVE LeftInv'
  <2>1. req'[c].kind = k /\ Len(req'[c].rest) = Lengths(k) /\ req'[c].todo = {}
    BY <1>0, <1>5, Asks
  <2>2. UNCHANGED <<there, run, rows, cancelKey, aborts, crashes, orphaned, status, pc, store>> /\ ~Busy(c)
    BY <1>5 DEF Request, docVars, taskVars, queueVars
  <2>3. k \in {"run", "keep", "redo", "parse", "stop", "remove", "rm"}
    BY ParseAssumption, Zenon DEF NeverCancels
  <2>4. ~InChargeAt(k, Lengths(k)) /\ Lengths(k) \in Nat \ {0}
    BY <2>3 DEF InChargeAt, Lengths
  <2>5. StageAt(k, Lengths(k), {})'
    BY <2>4 DEF StageAt
  <2>6. Abandoned => Cleared
    BY <2>2 DEF LeftInv, InCharge, Busy
  <2>7. (Abandoned => Cleared)'
    BY <2>2, <2>6 DEF Abandoned, Cleared, MayStore, Cleaning
  <2>8. Len(<<>>) # Lengths(k)
    BY <2>4
  <2>9. Held(c)'
    BY <2>1, <2>4, <2>5, <2>7, <2>8, NewStage, Zenon
  <2>10. InSight'
    BY <2>2 DEF LeftInv, InSight, MayStore
  <2> QED
    BY <1>1, <2>2, <2>9, <2>10 DEF LeftInv
<1>6. ASSUME NEW t \in Tasks, Work(t) PROVE LeftInv'
  BY <1>2, <1>6, WorkLeaves
<1>7. ASSUME NEW s \in Syncers, Sync(s) PROVE LeftInv'
  <2>1. /\ UNCHANGED <<there, rows, req, cancelKey, aborts, crashes, orphaned, status, store>>
        /\ pc' = pc \/ (s \in Tasks /\ pc[s] = "record" /\ pc' = [pc EXCEPT ![s] = "ack"])
    <3>1. s \notin Watchers => s \in Tasks
      BY DEF Syncers
    <3>2. s \notin Watchers /\ sync[s].at # "idle" => pc[s] = "record"
      BY <1>0, <3>1 DEF IInv, SyncOK
    <3> USE DEF docVars, taskVars, queueVars, clientVars, boundVars
    <3>3. CASE SyncTasks(s)
      BY <3>1, <3>3 DEF SyncTasks, Leave
    <3>4. CASE SyncDoc(s)
      BY <3>1, <3>2, <3>4 DEF SyncDoc, Leave
    <3>5. CASE SyncWrite(s)
      BY <3>1, <3>2, <3>5 DEF SyncWrite, Leave
    <3> QED
      BY <1>7, <3>3, <3>4, <3>5 DEF Sync
  <2>2. run' = "CANCEL" => run = "CANCEL"
    <3>1. sync[s].run # "CANCEL"
      BY <1>0 DEF IInv, SyncOK, SyncType
    <3> QED
      BY <1>7, <3>1 DEF Sync, SyncTasks, SyncDoc, SyncWrite, docVars
  <2>3. \A u \in Tasks : (MayStore(u)' => MayStore(u)) /\ (Cleaning(u) => Cleaning(u)')
    BY <1>0, <2>1 DEF MayStore, Cleaning, IInv, WorkOK
  <2>4. Cleared => Cleared'
    BY <1>0, <2>1, <2>3 DEF Cleared, IInv, FlagOK
  <2> QED
    BY <1>2, <2>1, <2>2, <2>3, <2>4
<1>8. \A c \in Clients : ~Abort(c)
  BY DEF Abort, NoFaults, LeftInv
<1>9. (\A t \in Tasks : ~ExpireKey(t)) /\ \A S \in SUBSET Tasks : ~Crash(S)
  BY DEF ExpireKey, Crash, NoFaults, LeftInv
<1> QED
  BY <1>3, <1>4, <1>5, <1>6, <1>7, <1>8, <1>9 DEF Next

LEMMA InitLeaves == Init => LeftInv
<1> SUFFICES ASSUME Init PROVE LeftInv
  OBVIOUS
<1>1. /\ \A c \in Clients : req[c] = NoRequest
      /\ \A t \in Tasks : ~MayStore(t)
      /\ store = {} /\ aborts = 0 /\ crashes = 0
  BY DEF Init, MayStore, Queue!Init
<1>2. \A c \in Clients : Stage(req[c])
  BY <1>1 DEF Stage, NoRequest
<1> QED
  BY <1>1, <1>2, InitRInv DEF LeftInv, InSight, Cleared

\* When executors and requests are done with a document that was stopped or removed,
\* the document store holds nothing of it: for any pages, any number of parses, stops
\* and removals and wherever the executors and progress threads are when they come.
THEOREM NothingLeft ==
    ASSUME OneClient, NeverCancels, NoFaults
    PROVE  Spec => []NoLeftovers
<1>1. ASSUME LeftInv, Calm, Abandoned PROVE store = {}
  <2>1. Cleared
    BY <1>1 DEF LeftInv, Calm, Busy, InCharge, OneClient
  <2>2. Cleared => store = {}
    BY <1>1 DEF Cleared, Calm, Cleaning, LeftInv, RInv, IInv, FlagOK
  <2> QED
    BY <2>1, <2>2
<1>2. LeftInv => NoLeftovers
  BY <1>1 DEF NoLeftovers, Abandoned
<1>3. LeftInv /\ [Next]_vars => LeftInv'
  BY NextLeaves
<1> QED
  BY <1>2, <1>3, InitLeaves, PTL DEF Spec
=============================================================================
