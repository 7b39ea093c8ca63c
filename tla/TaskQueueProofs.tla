--------------------------- MODULE TaskQueueProofs ---------------------------
(***************************************************************************)
(* Proofs about TaskQueue, for every set of tasks, executors and           *)
(* coroutines, any number of streams and any bounds.                       *)
(*                                                                         *)
(* The argument.  A message is held by a coroutine only while it is in the *)
(* PEL of that coroutine's process, PELs are disjoint, and within one      *)
(* process the backlog iterator separates what was handed out since the    *)
(* process started (Passed) from what was not.  DeliveryInv says this; it  *)
(* is inductive with TypeOK and implies ExclusiveDelivery.                 *)
(* While no reply of XADD is lost a task has one message and one holder;   *)
(* the count in its row, or in the hands of that holder between SELECT and *)
(* UPDATE, is above the attempts made (AttemptInv).  With both invariants  *)
(* every step is one of TaskLifecycle, or none (Implements).               *)
(***************************************************************************)
EXTENDS TaskQueue, TLAPS

USE DEF Queues, Messages, NoMsg

StreamInv ==
    /\ \A q \in Queues : delivered[q] <= Len(log[q])
    /\ \A w \in Workers : \A m \in pel[w] : m[2] <= delivered[m[1]]
    /\ \A w, v \in Workers : w # v => pel[w] \cap pel[v] = {}

HandInv ==
    \A w \in Workers : \A s \in Slots :
        /\ msg[w][s] = NoMsg <=> pc[w][s] \in {"idle", "poll"}
        /\ msg[w][s] # NoMsg =>
              /\ msg[w][s] \in pel[w]
              /\ Passed(w, msg[w][s])
              /\ \A r \in Slots : r # s => msg[w][r] # msg[w][s]

DownInv ==
    \A w \in Workers : ~up[w] => /\ backlog[w] = Fresh
                                 /\ \A s \in Slots : pc[w][s] = "idle"

DeliveryInv == StreamInv /\ HandInv /\ DownInv

-----------------------------------------------------------------------------
(* What an action leaves alone it does not disturb. *)
LEMMA TableFrame == TableTypeOK /\ UNCHANGED <<rowVars, attempts>> => TableTypeOK'
  BY DEF TableTypeOK, rowVars

LEMMA ServerFrame == ServerTypeOK /\ UNCHANGED pubVars => ServerTypeOK'
  BY DEF ServerTypeOK, pubVars

LEMMA ExecFrame == ExecTypeOK /\ UNCHANGED execVars => ExecTypeOK'
  BY DEF ExecTypeOK, execVars, slotVars

LEMMA RedisFrame == RedisTypeOK /\ UNCHANGED redisVars => RedisTypeOK'
  BY DEF RedisTypeOK, redisVars

LEMMA BoundFrame == BoundTypeOK /\ UNCHANGED boundVars => BoundTypeOK'
  BY DEF BoundTypeOK, boundVars

LEMMA FaultType == ASSUME BoundTypeOK, NEW k, Fault(k)
                   PROVE  BoundTypeOK'
  BY DEF BoundTypeOK, Fault

LEMMA Labels == {"idle", "poll", "got", "selected", "fetched", "drop", "running", "ended"} \subseteq PC
  BY DEF PC, CollectPC

LEMMA GotoType ==
  ASSUME ExecTypeOK, NEW w \in Workers, NEW s \in Slots, NEW label \in PC, Goto(w, s, label)
  PROVE  pc' \in [Workers -> [Slots -> PC]]
  BY DEF ExecTypeOK, Goto

LEMMA ClearType ==
  ASSUME ExecTypeOK, NEW w \in Workers, NEW s \in Slots, Clear(w, s)
  PROVE  /\ pc' \in [Workers -> [Slots -> PC]]
         /\ msg' \in [Workers -> [Slots -> Messages \cup {NoMsg}]]
         /\ seen' \in [Workers -> [Slots -> Nat]]
<1>1. pc' \in [Workers -> [Slots -> PC]]
  BY GotoType, Labels DEF Clear
<1>2. [msg EXCEPT ![w][s] = NoMsg] \in [Workers -> [Slots -> Messages \cup {NoMsg}]]
  BY DEF ExecTypeOK
<1>3. [seen EXCEPT ![w][s] = 0] \in [Workers -> [Slots -> Nat]]
  BY DEF ExecTypeOK
<1>4. QED
  BY <1>1, <1>2, <1>3 DEF Clear

LEMMA TakeType ==
  ASSUME ExecTypeOK, NEW w \in Workers, NEW s \in Slots, NEW m \in Messages, Take(w, s, m)
  PROVE  /\ pc' \in [Workers -> [Slots -> PC]]
         /\ msg' \in [Workers -> [Slots -> Messages \cup {NoMsg}]]
         /\ seen' \in [Workers -> [Slots -> Nat]]
<1>1. pc' \in [Workers -> [Slots -> PC]]
  BY GotoType, Labels DEF Take
<1>2. [msg EXCEPT ![w][s] = m] \in [Workers -> [Slots -> Messages \cup {NoMsg}]]
  BY DEF ExecTypeOK
<1>3. QED
  BY <1>1, <1>2 DEF Take, ExecTypeOK

-----------------------------------------------------------------------------
(* Type correctness: every action of the queue keeps the shape of the state. *)
LEMMA TypeInit == Init => TypeOK
  BY QueueAssumption
  DEF Init, TypeOK, RedisTypeOK, TableTypeOK, ServerTypeOK, ExecTypeOK, BoundTypeOK,
      PC, CollectPC, Fresh, Position

LEMMA TypeServer ==
  ASSUME TypeOK, NEW t \in Tasks, Server(t)
  PROVE  TypeOK'
<1> USE DEF TypeOK
<1>1. CASE InsertRow(t) \/ DeleteRow(t)
  <2>1. TableTypeOK'
    BY <1>1 DEF InsertRow, DeleteRow, TableTypeOK
  <2>2. QED
    BY <1>1, <2>1, RedisFrame, ServerFrame, ExecFrame, BoundFrame DEF InsertRow, DeleteRow
<1>2. CASE SetCancel(t) \/ ExpireCancel(t)
  <2>1. RedisTypeOK'
    BY <1>2 DEF SetCancel, ExpireCancel, RedisTypeOK
  <2>2. QED
    BY <1>2, <2>1, TableFrame, ServerFrame, ExecFrame, BoundFrame DEF SetCancel, ExpireCancel
<1>3. ASSUME NEW q \in Queues, Publish(t, q) \/ PublishFault(t, q)
      PROVE  TypeOK'
  <2>1. RedisTypeOK'
    <3>1. Append(log[q], t) \in Seq(Tasks)
      BY DEF RedisTypeOK
    <3>2. log' \in [Queues -> Seq(Tasks)]
      BY <1>3, <3>1 DEF Publish, PublishFault, Xadd, RedisTypeOK
    <3>3. UNCHANGED <<delivered, pel, cancelKey>>
      BY <1>3 DEF Publish, PublishFault
    <3>4. QED
      BY <3>2, <3>3 DEF RedisTypeOK
  <2>2. ServerTypeOK'
    BY <1>3 DEF Publish, PublishFault, ServerTypeOK
  <2>3. BoundTypeOK'
    BY <1>3, FaultType, BoundFrame DEF Publish, PublishFault
  <2>4. QED
    BY <1>3, <2>1, <2>2, <2>3, TableFrame, ExecFrame DEF Publish, PublishFault
<1>4. QED
  BY <1>1, <1>2, <1>3 DEF Server

LEMMA TypeProcess ==
  ASSUME TypeOK, NEW w \in Workers, Crash(w) \/ Restart(w)
  PROVE  TypeOK'
<1> USE DEF TypeOK
<1>1. ExecTypeOK'
  <2>1. CASE Crash(w)
    <3>1. Fresh \in Position
      BY QueueAssumption DEF Fresh, Position
    <3>2. [s \in Slots |-> "idle"] \in [Slots -> PC]
      BY DEF PC
    <3>3. [s \in Slots |-> NoMsg] \in [Slots -> Messages \cup {NoMsg}]
      OBVIOUS
    <3>4. 1 \in Queues
      BY QueueAssumption
    <3>5. QED
      BY <2>1, <3>1, <3>2, <3>3, <3>4 DEF Crash, ExecTypeOK
  <2>2. CASE Restart(w)
    BY <2>2 DEF Restart, ExecTypeOK, slotVars
  <2>3. QED
    BY <2>1, <2>2
<1>2. BoundTypeOK'
  BY DEF Crash, Restart, BoundTypeOK, boundVars
<1>3. QED
  BY <1>1, <1>2, RedisFrame, TableFrame, ServerFrame DEF Crash, Restart

LEMMA TypeCollect ==
  ASSUME TypeOK, NEW w \in Workers, NEW s \in Slots,
         \/ StartCollect(w, s) \/ RecoverMessage(w, s) \/ RecoverNextQueue(w, s)
         \/ RecoverFault(w, s) \/ PollMessage(w, s) \/ PollFault(w, s) \/ PollMiss(w, s)
  PROVE  TypeOK'
<1> USE DEF TypeOK
<1>1. CASE StartCollect(w, s) \/ PollMiss(w, s)
  <2>1. ExecTypeOK'
    <3>1. CASE StartCollect(w, s)
      <4>1. pc' \in [Workers -> [Slots -> PC]]
        BY <3>1, GotoType, Labels DEF StartCollect
      <4>2. QED
        BY <3>1, <4>1 DEF StartCollect, ExecTypeOK
    <3>2. CASE PollMiss(w, s)
      <4>1. polled[w] + 1 \in Queues \/ polled[w] >= NQueues
        BY <3>2, QueueAssumption DEF PollMiss
      <4>2. 1 \in Queues
        BY QueueAssumption
      <4>3. polled' \in [Workers -> Queues]
        BY <3>2, <4>1, <4>2, QueueAssumption DEF PollMiss, ExecTypeOK
      <4>4. pc' \in [Workers -> [Slots -> PC]]
        BY <3>2, GotoType, Labels DEF PollMiss, ExecTypeOK
      <4>5. UNCHANGED <<up, backlog, msg, seen>>
        BY <3>2 DEF PollMiss
      <4>6. QED
        BY <4>3, <4>4, <4>5 DEF ExecTypeOK
    <3>3. QED
      BY <1>1, <3>1, <3>2
  <2>2. QED
    BY <1>1, <2>1, RedisFrame, TableFrame, ServerFrame, BoundFrame DEF StartCollect, PollMiss
<1>2. CASE RecoverMessage(w, s)
  <2>1. ExecTypeOK'
    <3>1. PICK i \in Ahead(w) : /\ Take(w, s, <<backlog[w].q, i>>)
                               /\ backlog' = [backlog EXCEPT ![w].min = i]
      BY <1>2 DEF RecoverMessage
    <3>2. i \in Nat /\ <<backlog[w].q, i>> \in Messages
      <4>1. backlog[w].q \in Queues
        BY <1>2, QueueAssumption DEF RecoverMessage, Exhausted, ExecTypeOK, Position
      <4>2. delivered[backlog[w].q] \in Nat /\ pel[w] \subseteq Messages
        BY <4>1 DEF RedisTypeOK
      <4> QED
        BY <3>1, <4>2 DEF Ahead
    <3>3. backlog' \in [Workers -> Position]
      BY <3>1, <3>2 DEF ExecTypeOK, Position
    <3>4. UNCHANGED <<up, polled>>
      BY <1>2 DEF RecoverMessage
    <3>5. QED
      BY <3>1, <3>2, <3>3, <3>4, TakeType DEF ExecTypeOK
  <2>2. QED
    BY <1>2, <2>1, RedisFrame, TableFrame, ServerFrame, BoundFrame DEF RecoverMessage
<1>3. CASE RecoverNextQueue(w, s) \/ RecoverFault(w, s)
  <2>1. \A k \in {backlog[w].q + 1, NQueues + 1} :
           ~Exhausted(w) => [q |-> k, min |-> 0] \in Position
    <3>1. backlog[w].q \in Queues \cup {NQueues + 1} /\ NQueues \in Nat \ {0}
      BY QueueAssumption DEF ExecTypeOK, Position
    <3>2. \A k \in {backlog[w].q + 1, NQueues + 1} :
             ~Exhausted(w) => k \in Queues \cup {NQueues + 1}
      BY <3>1 DEF Exhausted
    <3>3. QED
      BY <3>2 DEF Position
  <2>2. ExecTypeOK'
    <3>1. backlog' \in [Workers -> Position]
      BY <1>3, <2>1 DEF RecoverNextQueue, RecoverFault, ExecTypeOK
    <3>2. UNCHANGED <<up, polled, pc, msg, seen>>
      BY <1>3 DEF RecoverNextQueue, RecoverFault, slotVars
    <3>3. QED
      BY <3>1, <3>2 DEF ExecTypeOK
  <2>3. BoundTypeOK'
    BY <1>3, FaultType, BoundFrame DEF RecoverNextQueue, RecoverFault
  <2>4. QED
    BY <1>3, <2>2, <2>3, RedisFrame, TableFrame, ServerFrame DEF RecoverNextQueue, RecoverFault
<1>4. CASE PollMessage(w, s) \/ PollFault(w, s)
  <2>1. RedisTypeOK'
    BY <1>4 DEF PollMessage, PollFault, Deliver, RedisTypeOK
  <2>2. ExecTypeOK'
    <3>1. CASE PollMessage(w, s)
      <4>1. <<polled[w], delivered[polled[w]] + 1>> \in Messages
        BY <3>1 DEF PollMessage, RedisTypeOK
      <4>2. 1 \in Queues
        BY QueueAssumption
      <4>3. polled' \in [Workers -> Queues] /\ UNCHANGED <<up, backlog>>
        BY <3>1, <4>2 DEF PollMessage, ExecTypeOK
      <4>4. QED
        BY <3>1, <4>1, <4>3, TakeType DEF PollMessage, ExecTypeOK
    <3>2. CASE PollFault(w, s)
      BY <3>2, ExecFrame DEF PollFault
    <3>3. QED
      BY <1>4, <3>1, <3>2
  <2>3. BoundTypeOK'
    BY <1>4, FaultType, BoundFrame DEF PollMessage, PollFault
  <2>4. QED
    BY <1>4, <2>1, <2>2, <2>3, TableFrame, ServerFrame DEF PollMessage, PollFault
<1>5. QED
  BY <1>1, <1>2, <1>3, <1>4

\* The message in hand is in the stream, so it names a task.
LEMMA HeldTask ==
  ASSUME TypeOK, DeliveryInv, NEW w \in Workers, NEW s \in Slots, msg[w][s] # NoMsg
  PROVE  /\ msg[w][s] \in pel[w]
         /\ msg[w][s] \in Appended
         /\ TaskOf(msg[w][s]) \in Tasks
<1>1. msg[w][s] \in Messages /\ msg[w][s] \in pel[w]
  BY DEF TypeOK, ExecTypeOK, DeliveryInv, HandInv
<1> DEFINE q == msg[w][s][1]
           i == msg[w][s][2]
<1>2. q \in Queues /\ i \in Nat \ {0} /\ msg[w][s] = <<q, i>>
  BY <1>1
<1>3. log[q] \in Seq(Tasks) /\ Len(log[q]) \in Nat /\ DOMAIN log[q] = 1 .. Len(log[q])
  BY <1>2 DEF TypeOK, RedisTypeOK
<1>4. i <= Len(log[q])
  BY <1>1, <1>2, <1>3 DEF DeliveryInv, StreamInv, TypeOK, RedisTypeOK
<1>5. log[q][i] \in Tasks
  BY <1>2, <1>3, <1>4
<1>6. QED
  BY <1>1, <1>2, <1>3, <1>4, <1>5 DEF Appended, TaskOf

LEMMA WriteBackType ==
  ASSUME TableTypeOK, NEW t, NEW n \in Nat, WriteBack(t, n)
  PROVE  retryCount' \in [Tasks -> Nat]
<1>1. retryCount \in [Tasks -> Nat] /\ n + 1 \in Nat
  BY DEF TableTypeOK
<1>2. [retryCount EXCEPT ![t] = n + 1] \in [Tasks -> Nat]
  BY <1>1
<1>3. QED
  BY <1>1, <1>2 DEF WriteBack

LEMMA TypeRun ==
  ASSUME TypeOK, DeliveryInv, NEW w \in Workers, NEW s \in Slots,
         \/ SelectTask(w, s) \/ CountAttempt(w, s) \/ GetTaskFault(w, s)
         \/ FetchUncounted(w, s) \/ StartRun(w, s) \/ SkipCancelled(w, s) \/ FinishRun(w, s)
         \/ Ack(w, s) \/ AckFault(w, s)
  PROVE  TypeOK'
<1> USE DEF TypeOK
<1>1. CASE SelectTask(w, s)
  <2>1. TaskOf(msg[w][s]) \in Tasks
    BY <1>1, HeldTask DEF SelectTask, DeliveryInv, HandInv
  <2>2. pc' \in [Workers -> [Slots -> PC]]
    BY <1>1, GotoType, Labels DEF SelectTask
  <2>3. seen' \in [Workers -> [Slots -> Nat]]
    <3>1. retryCount[TaskOf(msg[w][s])] \in Nat
      BY <2>1 DEF TableTypeOK
    <3>2. \/ seen' = [seen EXCEPT ![w][s] = retryCount[TaskOf(msg[w][s])]]
          \/ UNCHANGED seen
      BY <1>1 DEF SelectTask
    <3>3. \A n \in Nat : [seen EXCEPT ![w][s] = n] \in [Workers -> [Slots -> Nat]]
      BY DEF ExecTypeOK
    <3>4. seen \in [Workers -> [Slots -> Nat]]
      BY DEF ExecTypeOK
    <3>5. CASE UNCHANGED seen
      BY <3>4, <3>5
    <3>6. CASE ~UNCHANGED seen
      BY <3>1, <3>2, <3>3, <3>6
    <3>7. QED
      BY <3>5, <3>6
  <2>4. UNCHANGED <<up, backlog, polled, msg>>
    BY <1>1 DEF SelectTask
  <2>5. ExecTypeOK'
    BY <2>2, <2>3, <2>4 DEF ExecTypeOK
  <2>6. QED
    BY <1>1, <2>5, RedisFrame, TableFrame, ServerFrame, BoundFrame DEF SelectTask
<1>2. CASE CountAttempt(w, s) \/ GetTaskFault(w, s)
  <2>1. \A n \in Nat : WriteBack(TaskOf(msg[w][s]), n) => retryCount' \in [Tasks -> Nat]
    BY WriteBackType
  <2>2. TableTypeOK'
    <3>1. seen[w][s] \in Nat
      BY DEF ExecTypeOK
    <3>2. retryCount' \in [Tasks -> Nat]
      BY <1>2, <2>1, <3>1 DEF CountAttempt, GetTaskFault, TableTypeOK
    <3>3. UNCHANGED <<row, attempts>>
      BY <1>2 DEF CountAttempt, GetTaskFault
    <3>4. QED
      BY <3>2, <3>3 DEF TableTypeOK
  <2>3. ExecTypeOK'
    <3>1. CASE CountAttempt(w, s)
      <4>1. pc' \in [Workers -> [Slots -> PC]]
        BY <3>1, GotoType, Labels DEF CountAttempt
      <4>2. UNCHANGED <<up, backlog, polled, msg, seen>>
        BY <3>1 DEF CountAttempt
      <4>3. QED
        BY <4>1, <4>2 DEF ExecTypeOK
    <3>2. CASE GetTaskFault(w, s)
      BY <3>2, ClearType DEF GetTaskFault, ExecTypeOK
    <3>3. QED
      BY <1>2, <3>1, <3>2
  <2>4. BoundTypeOK'
    BY <1>2, FaultType, BoundFrame DEF CountAttempt, GetTaskFault
  <2>5. QED
    BY <1>2, <2>2, <2>3, <2>4, RedisFrame, ServerFrame DEF CountAttempt, GetTaskFault
<1>3. CASE FetchUncounted(w, s) \/ StartRun(w, s) \/ SkipCancelled(w, s) \/ FinishRun(w, s)
  <2>1. pc' \in [Workers -> [Slots -> PC]]
    BY <1>3, GotoType, Labels DEF FetchUncounted, StartRun, SkipCancelled, FinishRun
  <2>2. UNCHANGED <<up, backlog, polled, msg, seen>>
    BY <1>3 DEF FetchUncounted, StartRun, SkipCancelled, FinishRun
  <2>3. ExecTypeOK'
    BY <2>1, <2>2 DEF ExecTypeOK
  <2>4. TableTypeOK'
    BY <1>3 DEF FetchUncounted, StartRun, SkipCancelled, FinishRun, TableTypeOK, rowVars
  <2>5. QED
    BY <1>3, <2>3, <2>4, RedisFrame, ServerFrame, BoundFrame
    DEF FetchUncounted, StartRun, SkipCancelled, FinishRun
<1>4. CASE Ack(w, s) \/ AckFault(w, s)
  <2>1. RedisTypeOK'
    BY <1>4 DEF Ack, AckFault, RedisTypeOK, redisVars
  <2>2. ExecTypeOK'
    <3>1. Clear(w, s) /\ UNCHANGED <<up, backlog, polled>>
      BY <1>4 DEF Ack, AckFault
    <3>2. QED
      BY <3>1, ClearType DEF ExecTypeOK
  <2>3. BoundTypeOK'
    BY <1>4, FaultType, BoundFrame DEF Ack, AckFault
  <2>4. QED
    BY <1>4, <2>1, <2>2, <2>3, TableFrame, ServerFrame DEF Ack, AckFault
<1>5. QED
  BY <1>1, <1>2, <1>3, <1>4

-----------------------------------------------------------------------------
(* The delivery invariant. *)
LEMMA DeliveryInit == Init => DeliveryInv
<1> SUFFICES ASSUME Init PROVE DeliveryInv
  OBVIOUS
<1>1. StreamInv
  BY DEF Init, StreamInv
<1>2. HandInv
  BY DEF Init, HandInv
<1>3. DownInv
  BY DEF Init, DownInv
<1>4. QED
  BY <1>1, <1>2, <1>3 DEF DeliveryInv

LEMMA StreamFrame == StreamInv /\ UNCHANGED <<log, delivered, pel>> => StreamInv'
  BY DEF StreamInv

LEMMA HandFrame == HandInv /\ UNCHANGED <<pel, backlog, pc, msg>> => HandInv'
  BY DEF HandInv, Passed

LEMMA DownFrame == DownInv /\ UNCHANGED <<up, backlog, pc>> => DownInv'
  BY DEF DownInv

\* A stream only grows.
LEMMA StreamGrows ==
  ASSUME TypeOK, StreamInv, NEW t \in Tasks, NEW q \in Queues, Xadd(q, t) \/ UNCHANGED log,
         UNCHANGED <<delivered, pel>>
  PROVE  StreamInv'
<1>1. \A p \in Queues : Len(log'[p]) \in Nat /\ Len(log[p]) <= Len(log'[p])
  <2>1. \A p \in Queues : log[p] \in Seq(Tasks) /\ Len(log[p]) \in Nat
    BY DEF TypeOK, RedisTypeOK
  <2>2. \A p \in Queues : Len(Append(log[p], t)) = Len(log[p]) + 1
    BY <2>1
  <2>3. CASE UNCHANGED log
    BY <2>1, <2>3
  <2>4. CASE Xadd(q, t)
    <3>1. log' = [log EXCEPT ![q] = Append(log[q], t)]
      BY <2>4 DEF Xadd
    <3>2. \A p \in Queues : log'[p] = IF p = q THEN Append(log[p], t) ELSE log[p]
      BY <3>1 DEF TypeOK, RedisTypeOK
    <3>3. TAKE p \in Queues
    <3>4. Len(log[p]) \in Nat /\ Len(Append(log[p], t)) = Len(log[p]) + 1
      BY <2>1, <2>2
    <3>5. log'[p] = Append(log[p], t) \/ log'[p] = log[p]
      BY <3>2
    <3>6. QED
      BY <3>4, <3>5
  <2>5. QED
    BY <2>3, <2>4
<1>2. \A p \in Queues : delivered'[p] <= Len(log'[p])
  BY <1>1 DEF StreamInv, TypeOK, RedisTypeOK
<1>3. QED
  BY <1>2 DEF StreamInv

LEMMA DeliveryServer ==
  ASSUME TypeOK, DeliveryInv, NEW t \in Tasks, Server(t)
  PROVE  DeliveryInv'
<1>1. UNCHANGED <<delivered, pel, up, backlog, pc, msg>>
  BY DEF Server, InsertRow, DeleteRow, SetCancel, ExpireCancel, Publish, PublishFault,
         redisVars, execVars, slotVars
<1>2. UNCHANGED log \/ \E q \in Queues : Xadd(q, t)
  BY DEF Server, InsertRow, DeleteRow, SetCancel, ExpireCancel, Publish, PublishFault,
         redisVars
<1>3. StreamInv'
  BY <1>1, <1>2, StreamGrows, StreamFrame DEF DeliveryInv
<1>4. QED
  BY <1>1, <1>3, HandFrame, DownFrame DEF DeliveryInv

\* A coroutine moves on with the message it has, or without one.
LEMMA DeliveryGoto ==
  ASSUME TypeOK, DeliveryInv, NEW w \in Workers, NEW s \in Slots, up[w],
         NEW label \in PC, Goto(w, s, label),
         pc[w][s] \in {"idle", "poll"} <=> label \in {"idle", "poll"},
         UNCHANGED <<log, delivered, pel, up, backlog, msg>>
  PROVE  DeliveryInv'
<1>1. \A v \in Workers : \A r \in Slots :
         pc'[v][r] = IF v = w /\ r = s THEN label ELSE pc[v][r]
  BY DEF Goto, TypeOK, ExecTypeOK
<1>2. HandInv'
  <2>1. \A v \in Workers : \A r \in Slots :
           pc'[v][r] \in {"idle", "poll"} <=> pc[v][r] \in {"idle", "poll"}
    BY <1>1
  <2>2. QED
    BY <2>1 DEF DeliveryInv, HandInv, Passed
<1>3. DownInv'
  BY <1>1 DEF DeliveryInv, DownInv
<1>4. QED
  BY <1>2, <1>3, StreamFrame DEF DeliveryInv

LEMMA DeliveryMove ==
  ASSUME TypeOK, DeliveryInv, NEW w \in Workers, NEW s \in Slots,
         \/ StartCollect(w, s) \/ PollMiss(w, s) \/ SelectTask(w, s) \/ CountAttempt(w, s)
         \/ FetchUncounted(w, s) \/ StartRun(w, s) \/ SkipCancelled(w, s) \/ FinishRun(w, s)
  PROVE  DeliveryInv'
<1>1. up[w] /\ UNCHANGED <<log, delivered, pel, up, backlog, msg>>
  BY DEF StartCollect, PollMiss, SelectTask, CountAttempt, FetchUncounted, StartRun,
         SkipCancelled, FinishRun, HasLoop, redisVars
<1>2. \/ UNCHANGED pc
      \/ \E label \in PC : /\ Goto(w, s, label)
                           /\ pc[w][s] \in {"idle", "poll"} <=> label \in {"idle", "poll"}
  <2>1. CASE StartCollect(w, s)
    BY <2>1, Labels DEF StartCollect
  <2>2. CASE PollMiss(w, s)
    BY <2>2, Labels DEF PollMiss
  <2>3. CASE SelectTask(w, s)
    BY <2>3, Labels DEF SelectTask
  <2>4. CASE CountAttempt(w, s)
    BY <2>4, Labels DEF CountAttempt
  <2>5. CASE FetchUncounted(w, s) \/ StartRun(w, s) \/ SkipCancelled(w, s) \/ FinishRun(w, s)
    BY <2>5, Labels DEF FetchUncounted, StartRun, SkipCancelled, FinishRun
  <2>6. QED
    BY <2>1, <2>2, <2>3, <2>4, <2>5
<1>3. CASE UNCHANGED pc
  BY <1>1, <1>3, StreamFrame, HandFrame, DownFrame DEF DeliveryInv
<1>4. CASE ~UNCHANGED pc
  BY <1>1, <1>2, <1>4, DeliveryGoto
<1>5. QED
  BY <1>3, <1>4

\* The iterator goes forward: what it passed stays passed.
LEMMA DeliverySkip ==
  ASSUME TypeOK, DeliveryInv, NEW w \in Workers, NEW s \in Slots,
         RecoverNextQueue(w, s) \/ RecoverFault(w, s)
  PROVE  DeliveryInv'
<1>1. up[w] /\ UNCHANGED <<log, delivered, pel, up, pc, msg>>
  BY DEF RecoverNextQueue, RecoverFault, HasLoop, redisVars, slotVars
<1>2. PICK k \in {backlog[w].q + 1, NQueues + 1} :
         backlog' = [backlog EXCEPT ![w] = [q |-> k, min |-> 0]]
  BY DEF RecoverNextQueue, RecoverFault
<1>3. backlog[w].q \in Nat /\ k \in Nat /\ backlog[w].q < k
  BY QueueAssumption DEF RecoverNextQueue, RecoverFault, Exhausted, TypeOK, ExecTypeOK, Position
<1>4. \A v \in Workers : backlog'[v] = IF v = w THEN [q |-> k, min |-> 0] ELSE backlog[v]
  BY <1>2 DEF TypeOK, ExecTypeOK
<1>5. HandInv'
  <2>1. \A v \in Workers, r \in Slots :
           msg[v][r] # NoMsg /\ Passed(v, msg[v][r]) => Passed(v, msg[v][r])'
    <3>1. SUFFICES ASSUME NEW v \in Workers, NEW r \in Slots,
                          msg[v][r] # NoMsg, Passed(v, msg[v][r])
                   PROVE  Passed(v, msg[v][r])'
      OBVIOUS
    <3>2. msg[v][r] \in Messages
      BY <3>1 DEF TypeOK, ExecTypeOK
    <3>3. CASE v = w
      <4>1. msg[w][r][1] \in Nat /\ backlog'[w].q = k
        BY <3>2, <3>3, <1>4
      <4>2. msg[w][r][1] <= backlog[w].q
        BY <3>1, <3>3, <4>1, <1>3 DEF Passed
      <4>3. msg[w][r][1] < k
        BY <4>1, <4>2, <1>3
      <4>4. QED
        BY <4>1, <4>3, <3>3, <1>1 DEF Passed
    <3>4. CASE v # w
      BY <3>1, <3>4, <1>1, <1>4 DEF Passed
    <3>5. QED
      BY <3>3, <3>4
  <2>2. QED
    BY <1>1, <2>1 DEF DeliveryInv, HandInv
<1>6. DownInv'
  BY <1>1, <1>4 DEF DeliveryInv, DownInv
<1>7. QED
  BY <1>1, <1>5, <1>6, StreamFrame DEF DeliveryInv

\* Take gives s a message that is now in the PEL of w, is now passed, and was in
\* no other hand of w.
LEMMA DeliveryTake ==
  ASSUME TypeOK, DeliveryInv, NEW w \in Workers, NEW s \in Slots, NEW m \in Messages,
         up[w], pc[w][s] = "poll", Take(w, s, m), UNCHANGED up,
         StreamInv',
         \A v \in Workers : pel[v] \subseteq pel'[v],
         m \in pel'[w],
         \A r \in Slots : msg[w][r] # m,
         \A v \in Workers \ {w} : backlog'[v] = backlog[v],
         \A n \in Messages : Passed(w, n) => Passed(w, n)',
         Passed(w, m)'
  PROVE  DeliveryInv'
<1>1. \A v \in Workers, r \in Slots :
         /\ msg'[v][r] = IF v = w /\ r = s THEN m ELSE msg[v][r]
         /\ pc'[v][r] = IF v = w /\ r = s THEN "got" ELSE pc[v][r]
  BY DEF Take, Goto, TypeOK, ExecTypeOK
<1>2. m # NoMsg
  OBVIOUS
<1>3. HandInv'
  <2>1. SUFFICES ASSUME NEW v \in Workers, NEW r \in Slots
                 PROVE  /\ msg'[v][r] = NoMsg <=> pc'[v][r] \in {"idle", "poll"}
                        /\ msg'[v][r] # NoMsg =>
                              /\ msg'[v][r] \in pel'[v]
                              /\ Passed(v, msg[v][r])'
                              /\ \A u \in Slots : u # r => msg'[v][u] # msg'[v][r]
    BY DEF HandInv
  <2>2. CASE v = w /\ r = s
    <3>1. msg'[w][s] = m /\ pc'[w][s] = "got"
      BY <1>1
    <3>2. \A u \in Slots : u # s => msg'[w][u] # m
      BY <1>1
    <3>3. Passed(w, msg[w][s])'
      BY <3>1 DEF Passed
    <3>4. QED
      BY <2>2, <3>1, <3>2, <3>3, <1>2
  <2>3. CASE v = w /\ r # s
    <3>1. msg'[w][r] = msg[w][r] /\ pc'[w][r] = pc[w][r]
      BY <1>1, <2>3
    <3>2. msg[w][r] # NoMsg => msg[w][r] \in Messages
      BY DEF TypeOK, ExecTypeOK
    <3>3. msg[w][r] # NoMsg => Passed(w, msg[w][r])'
      BY <2>3, <3>1, <3>2 DEF DeliveryInv, HandInv, Passed
    <3>4. \A u \in Slots : u # r /\ msg[w][r] # NoMsg => msg'[w][u] # msg'[w][r]
      BY <1>1, <2>3, <3>1 DEF DeliveryInv, HandInv
    <3>5. QED
      BY <2>3, <3>1, <3>3, <3>4 DEF DeliveryInv, HandInv
  <2>4. CASE v # w
    <3>1. /\ msg'[v][r] = msg[v][r] /\ pc'[v][r] = pc[v][r] /\ backlog'[v] = backlog[v]
          /\ \A u \in Slots : msg'[v][u] = msg[v][u]
      BY <1>1, <2>4
    <3>2. QED
      BY <3>1 DEF DeliveryInv, HandInv, Passed
  <2>5. QED
    BY <2>2, <2>3, <2>4
<1>4. DownInv'
  BY <1>1 DEF DeliveryInv, DownInv
<1>5. QED
  BY <1>3, <1>4 DEF DeliveryInv

LEMMA DeliveryRecover ==
  ASSUME TypeOK, DeliveryInv, NEW w \in Workers, NEW s \in Slots, RecoverMessage(w, s)
  PROVE  DeliveryInv'
<1>1. PICK i \in Ahead(w) : /\ \A j \in Ahead(w) : i <= j
                            /\ Take(w, s, <<backlog[w].q, i>>)
                            /\ backlog' = [backlog EXCEPT ![w].min = i]
  BY DEF RecoverMessage
<1>2. up[w] /\ pc[w][s] = "poll" /\ UNCHANGED <<log, delivered, pel, up>>
  BY DEF RecoverMessage, HasLoop, redisVars
<1>3. <<backlog[w].q, i>> \in Messages /\ <<backlog[w].q, i>> \in pel[w]
  BY <1>1 DEF RecoverMessage, Ahead, Exhausted, TypeOK, ExecTypeOK, RedisTypeOK, Position
<1>4. PICK m \in Messages : m = <<backlog[w].q, i>>
  BY <1>3
<1>5. backlog[w] \in Position /\ i \in Nat /\ i > backlog[w].min
  BY <1>1, <1>3 DEF TypeOK, ExecTypeOK, Ahead
<1>6. \A v \in Workers : backlog'[v] = IF v = w THEN [q |-> backlog[w].q, min |-> i]
                                       ELSE backlog[v]
  BY <1>1, <1>5 DEF TypeOK, ExecTypeOK, Position
<1>7. \A r \in Slots : msg[w][r] # m
  <2>1. ~Passed(w, m)
    BY <1>4, <1>5 DEF Passed, Position
  <2>2. m # NoMsg
    BY <1>4
  <2>3. QED
    BY <2>1, <2>2 DEF DeliveryInv, HandInv
<1>8. Passed(w, m)' /\ \A n \in Messages : Passed(w, n) => Passed(w, n)'
  BY <1>4, <1>5, <1>6 DEF Passed, Position
<1>9. StreamInv'
  BY <1>2, StreamFrame DEF DeliveryInv
<1>10. Take(w, s, m) /\ m \in pel'[w]
  BY <1>1, <1>2, <1>3, <1>4
<1>11. QED
  BY <1>2, <1>6, <1>7, <1>8, <1>9, <1>10, DeliveryTake

\* What XREADGROUP > delivers was in nobody's PEL.
LEMMA StreamDeliver ==
  ASSUME TypeOK, StreamInv, NEW w \in Workers, NEW q \in Queues, Deliver(w, q), UNCHANGED log
  PROVE  /\ StreamInv'
         /\ \A v \in Workers : pel[v] \subseteq pel'[v]
         /\ <<q, delivered[q] + 1>> \in Messages
         /\ <<q, delivered[q] + 1>> \in pel'[w]
         /\ \A v \in Workers : <<q, delivered[q] + 1>> \notin pel[v]
<1> DEFINE m == <<q, delivered[q] + 1>>
<1>1. delivered[q] \in Nat /\ m \in Messages
  BY DEF TypeOK, RedisTypeOK
<1>2. \A v \in Workers : m \notin pel[v]
  BY <1>1 DEF StreamInv
<1>3. \A p \in Queues : delivered'[p] = IF p = q THEN delivered[q] + 1 ELSE delivered[p]
  BY DEF Deliver, TypeOK, RedisTypeOK
<1>4. \A v \in Workers : pel'[v] = IF v = w THEN pel[w] \cup {m} ELSE pel[v]
  BY DEF Deliver, TypeOK, RedisTypeOK
<1>5. \A p \in Queues : delivered'[p] <= Len(log'[p])
  <2>1. \A p \in Queues : Len(log[p]) \in Nat /\ delivered[p] \in Nat
    BY DEF TypeOK, RedisTypeOK
  <2>2. QED
    BY <1>3, <2>1 DEF StreamInv, Deliver, Undelivered
<1>6. \A v \in Workers : \A n \in pel'[v] : n[2] <= delivered'[n[1]]
  <2>1. SUFFICES ASSUME NEW v \in Workers, NEW n \in pel'[v]
                 PROVE  n[2] <= delivered'[n[1]]
    OBVIOUS
  <2>2. CASE n = m
    BY <2>2, <1>1, <1>3
  <2>3. CASE n # m
    <3>1. n \in pel[v] /\ n \in Messages
      BY <2>1, <2>3, <1>4 DEF TypeOK, RedisTypeOK
    <3>2. n[2] <= delivered[n[1]] /\ n[1] \in Queues /\ n[2] \in Nat /\ delivered[n[1]] \in Nat
      BY <3>1 DEF StreamInv, TypeOK, RedisTypeOK
    <3>3. QED
      BY <3>2, <1>1, <1>3
  <2>4. QED
    BY <2>2, <2>3
<1>7. \A v, u \in Workers : v # u => pel'[v] \cap pel'[u] = {}
  BY <1>2, <1>4 DEF StreamInv
<1>8. StreamInv'
  BY <1>5, <1>6, <1>7 DEF StreamInv
<1>9. QED
  BY <1>1, <1>2, <1>4, <1>8

LEMMA DeliveryPoll ==
  ASSUME TypeOK, DeliveryInv, NEW w \in Workers, NEW s \in Slots,
         PollMessage(w, s) \/ PollFault(w, s)
  PROVE  DeliveryInv'
<1>1. PICK q \in Queues : q = polled[w]
  BY DEF PollMessage, PollFault
<1>2. /\ Deliver(w, q) /\ UNCHANGED <<log, up, backlog>>
      /\ up[w] /\ pc[w][s] = "poll" /\ Exhausted(w)
  BY <1>1 DEF PollMessage, PollFault, HasLoop, execVars
<1>3. PICK m \in Messages : m = <<q, delivered[q] + 1>>
  BY <1>2, StreamDeliver DEF DeliveryInv
<1>4. /\ StreamInv' /\ m \in pel'[w]
      /\ \A v \in Workers : pel[v] \subseteq pel'[v] /\ m \notin pel[v]
  BY <1>2, <1>3, StreamDeliver DEF DeliveryInv
<1>5. CASE PollMessage(w, s)
  <2>1. Take(w, s, m)
    BY <1>1, <1>3, <1>5 DEF PollMessage
  <2>2. m # NoMsg
    OBVIOUS
  <2>3. \A r \in Slots : msg[w][r] # m
    BY <1>4, <2>2 DEF DeliveryInv, HandInv
  <2>4. \A n \in Messages : Passed(w, n)'
    <3>1. backlog[w] \in Position /\ NQueues \in Nat
      BY QueueAssumption DEF TypeOK, ExecTypeOK
    <3>2. backlog'[w].q \in Nat /\ backlog'[w].q > NQueues
      BY <1>2, <3>1 DEF Exhausted, Position
    <3>3. \A n \in Messages : n[1] \in Nat /\ n[1] <= NQueues
      BY <3>1
    <3>4. QED
      BY <3>1, <3>2, <3>3 DEF Passed
  <2>5. QED
    BY <1>2, <1>4, <2>1, <2>3, <2>4, DeliveryTake
<1>6. CASE PollFault(w, s)
  <2>1. UNCHANGED <<up, backlog, pc, msg>>
    BY <1>6 DEF PollFault, execVars, slotVars
  <2>2. HandInv'
    BY <1>4, <2>1 DEF DeliveryInv, HandInv, Passed
  <2>3. QED
    BY <1>4, <2>1, <2>2, DownFrame DEF DeliveryInv
<1>7. QED
  BY <1>5, <1>6

\* A coroutine lets go of its message, which stays in the PEL or, on the ack,
\* leaves it: no other coroutine holds it.
LEMMA DeliveryClear ==
  ASSUME TypeOK, DeliveryInv, NEW w \in Workers, NEW s \in Slots,
         GetTaskFault(w, s) \/ Ack(w, s) \/ AckFault(w, s)
  PROVE  DeliveryInv'
<1>1. /\ Clear(w, s) /\ UNCHANGED <<log, delivered, up, backlog>>
      /\ pel' = [pel EXCEPT ![w] = @ \ {msg[w][s]}] \/ UNCHANGED pel
  BY DEF GetTaskFault, Ack, AckFault, redisVars
<1>2. \A v \in Workers, r \in Slots :
         /\ msg'[v][r] = IF v = w /\ r = s THEN NoMsg ELSE msg[v][r]
         /\ pc'[v][r] = IF v = w /\ r = s THEN "idle" ELSE pc[v][r]
  BY <1>1 DEF Clear, Goto, TypeOK, ExecTypeOK
<1>3. \A v \in Workers : /\ pel'[v] \subseteq pel[v]
                         /\ pel[v] \subseteq pel'[v] \cup {msg[w][s]}
                         /\ v # w => pel'[v] = pel[v]
  BY <1>1 DEF TypeOK, RedisTypeOK
<1>4. StreamInv'
  BY <1>1, <1>3 DEF DeliveryInv, StreamInv
<1>5. HandInv'
  <2>1. SUFFICES ASSUME NEW v \in Workers, NEW r \in Slots
                 PROVE  /\ msg'[v][r] = NoMsg <=> pc'[v][r] \in {"idle", "poll"}
                        /\ msg'[v][r] # NoMsg =>
                              /\ msg'[v][r] \in pel'[v]
                              /\ Passed(v, msg[v][r])'
                              /\ \A u \in Slots : u # r => msg'[v][u] # msg'[v][r]
    BY DEF HandInv
  <2>2. CASE v = w /\ r = s
    BY <1>2, <2>2
  <2>3. CASE ~(v = w /\ r = s)
    <3>1. msg'[v][r] = msg[v][r] /\ pc'[v][r] = pc[v][r]
      BY <1>2, <2>3
    <3>2. msg[v][r] # NoMsg => msg[v][r] \in pel'[v]
      BY <1>3, <2>3 DEF DeliveryInv, HandInv
    <3>3. msg[v][r] # NoMsg => Passed(v, msg[v][r])'
      BY <1>1, <3>1 DEF DeliveryInv, HandInv, Passed
    <3>4. msg[v][r] # NoMsg => \A u \in Slots : u # r => msg'[v][u] # msg'[v][r]
      BY <1>2, <3>1 DEF DeliveryInv, HandInv
    <3>5. QED
      BY <3>1, <3>2, <3>3, <3>4 DEF DeliveryInv, HandInv
  <2>4. QED
    BY <2>2, <2>3
<1>6. DownInv'
  BY <1>1, <1>2 DEF DeliveryInv, DownInv
<1>7. QED
  BY <1>4, <1>5, <1>6 DEF DeliveryInv

LEMMA DeliveryProcess ==
  ASSUME TypeOK, DeliveryInv, NEW w \in Workers, Crash(w) \/ Restart(w)
  PROVE  DeliveryInv'
<1>1. StreamInv'
  BY StreamFrame DEF Crash, Restart, redisVars, DeliveryInv
<1>2. CASE Crash(w)
  <2>1. \A v \in Workers : backlog'[v] = IF v = w THEN Fresh ELSE backlog[v]
    BY <1>2 DEF Crash, TypeOK, ExecTypeOK
  <2>2. \A v \in Workers, r \in Slots :
           /\ msg'[v][r] = IF v = w THEN NoMsg ELSE msg[v][r]
           /\ pc'[v][r] = IF v = w THEN "idle" ELSE pc[v][r]
    BY <1>2 DEF Crash, TypeOK, ExecTypeOK
  <2>3. UNCHANGED pel /\ \A v \in Workers : v # w => up'[v] = up[v]
    BY <1>2 DEF Crash, redisVars, TypeOK, ExecTypeOK
  <2>4. HandInv'
    <3>1. SUFFICES ASSUME NEW v \in Workers, NEW r \in Slots
                   PROVE  /\ msg'[v][r] = NoMsg <=> pc'[v][r] \in {"idle", "poll"}
                          /\ msg'[v][r] # NoMsg =>
                                /\ msg'[v][r] \in pel'[v]
                                /\ Passed(v, msg[v][r])'
                                /\ \A u \in Slots : u # r => msg'[v][u] # msg'[v][r]
      BY DEF HandInv
    <3>2. CASE v = w
      BY <2>2, <3>2
    <3>3. CASE v # w
      <4>1. /\ msg'[v][r] = msg[v][r] /\ pc'[v][r] = pc[v][r] /\ backlog'[v] = backlog[v]
            /\ \A u \in Slots : msg'[v][u] = msg[v][u]
        BY <2>1, <2>2, <3>3
      <4>2. QED
        BY <4>1, <2>3 DEF DeliveryInv, HandInv, Passed
    <3>4. QED
      BY <3>2, <3>3
  <2>5. DownInv'
    BY <2>1, <2>2, <2>3 DEF DeliveryInv, DownInv
  <2>6. QED
    BY <1>1, <2>4, <2>5 DEF DeliveryInv
<1>3. CASE Restart(w)
  <2>1. UNCHANGED <<pel, backlog, pc, msg>> /\ \A v \in Workers : ~up'[v] => ~up[v]
    BY <1>3 DEF Restart, redisVars, slotVars, TypeOK, ExecTypeOK
  <2>2. DownInv'
    BY <2>1 DEF DeliveryInv, DownInv
  <2>3. QED
    BY <1>1, <2>1, <2>2, HandFrame DEF DeliveryInv
<1>4. QED
  BY <1>2, <1>3

-----------------------------------------------------------------------------
(* Types and the delivery invariant together are inductive. *)
LEMMA QueueStep == TypeOK /\ DeliveryInv /\ [Next]_vars => TypeOK' /\ DeliveryInv'
<1> SUFFICES ASSUME TypeOK, DeliveryInv, [Next]_vars
             PROVE  TypeOK' /\ DeliveryInv'
  OBVIOUS
<1>1. CASE UNCHANGED vars
  <2>1. UNCHANGED <<redisVars, rowVars, pubVars, execVars, attempts, boundVars>>
    BY <1>1 DEF vars
  <2>2. UNCHANGED <<log, delivered, pel, up, backlog, pc, msg>>
    BY <2>1 DEF redisVars, execVars, slotVars
  <2>3. TypeOK'
    BY <2>1, RedisFrame, TableFrame, ServerFrame, ExecFrame, BoundFrame DEF TypeOK
  <2>4. QED
    BY <2>2, <2>3, StreamFrame, HandFrame, DownFrame DEF DeliveryInv
<1>2. ASSUME NEW t \in Tasks, Server(t)
      PROVE  TypeOK' /\ DeliveryInv'
  BY <1>2, TypeServer, DeliveryServer
<1>3. ASSUME NEW w \in Workers, Crash(w) \/ Restart(w)
      PROVE  TypeOK' /\ DeliveryInv'
  BY <1>3, TypeProcess, DeliveryProcess
<1>4. ASSUME NEW w \in Workers, NEW s \in Slots, Step(w, s) \/ StepFault(w, s)
      PROVE  TypeOK' /\ DeliveryInv'
  <2>1. TypeOK'
    BY <1>4, TypeCollect, TypeRun DEF Step, StepFault
  <2>2. DeliveryInv'
    BY <1>4, DeliveryMove, DeliverySkip, DeliveryRecover, DeliveryPoll, DeliveryClear
    DEF Step, StepFault
  <2>3. QED
    BY <2>1, <2>2
<1>5. QED
  BY <1>1, <1>2, <1>3, <1>4 DEF Next

LEMMA QueueInvariant == Spec => [](TypeOK /\ DeliveryInv)
<1>1. Init => TypeOK /\ DeliveryInv
  BY TypeInit, DeliveryInit
<1>2. QED
  BY <1>1, QueueStep, PTL DEF Spec

(* The variables of the queue always have their declared types. *)
THEOREM TypeCorrect == Spec => []TypeOK
  BY QueueInvariant, PTL

(* No message of a stream is ever in the hands of two coroutines, of one        *)
(* executor or of two: not across deaths, restarts, the re-reading of the       *)
(* backlog and failed calls, for any number of each.                            *)
THEOREM Exclusive == Spec => []ExclusiveDelivery
<1>1. TypeOK /\ DeliveryInv => ExclusiveDelivery
  <2> SUFFICES ASSUME DeliveryInv, NEW w \in Workers, NEW v \in Workers,
                      NEW s \in Slots, NEW r \in Slots,
                      msg[w][s] = msg[v][r], msg[w][s] # NoMsg
               PROVE  w = v /\ s = r
    BY DEF ExclusiveDelivery
  <2>1. msg[w][s] \in pel[w] \cap pel[v]
    BY DEF DeliveryInv, HandInv
  <2>2. w = v
    BY <2>1 DEF DeliveryInv, StreamInv
  <2>3. s = r
    BY <2>2 DEF DeliveryInv, HandInv
  <2>4. QED
    BY <2>2, <2>3
<1>2. QED
  BY <1>1, QueueInvariant, PTL

-----------------------------------------------------------------------------
(* Without a failed call nothing is stranded. *)
LEMMA NoStrandingFrame ==
  ASSUME NoStranding, UNCHANGED <<pel, up, backlog, msg>>, faults' = 0 => faults = 0
  PROVE  NoStranding'
  BY DEF NoStranding, Stranded, Passed

LEMMA NoStrandingRecover ==
  ASSUME TypeOK, DeliveryInv, NoStranding, NEW w \in Workers, NEW s \in Slots,
         RecoverMessage(w, s) \/ RecoverNextQueue(w, s)
  PROVE  NoStranding'
<1> SUFFICES ASSUME faults' = 0, NEW v \in Workers, NEW m \in pel'[v], Stranded(v, m)'
             PROVE  FALSE
  BY DEF NoStranding
<1>1. /\ faults = 0 /\ UNCHANGED <<pel, up, delivered>> /\ pc[w][s] = "poll"
  BY DEF RecoverMessage, RecoverNextQueue, redisVars, boundVars
<1>2. /\ m \in pel[v] /\ m \in Messages /\ up[v]
      /\ m[1] \in Queues /\ m[2] \in Nat \ {0} /\ m = <<m[1], m[2]>>
      /\ m[2] <= delivered[m[1]] /\ delivered[m[1]] \in Nat
  BY <1>1 DEF Stranded, TypeOK, RedisTypeOK, DeliveryInv, StreamInv
<1>3. msg[w][s] = NoMsg /\ backlog[w] \in Position
  BY <1>1 DEF DeliveryInv, HandInv, TypeOK, ExecTypeOK
<1>4. \A r \in Slots : msg[v][r] # m
  <2>1. \A r \in Slots : msg'[v][r] = msg[v][r] \/ (v = w /\ r = s)
    BY DEF RecoverMessage, RecoverNextQueue, Take, slotVars, TypeOK, ExecTypeOK
  <2>2. m # NoMsg
    BY <1>2
  <2>3. QED
    BY <2>1, <2>2, <1>3 DEF Stranded
<1>5. ~Passed(v, m)
  BY <1>1, <1>2, <1>4 DEF NoStranding, Stranded
<1>6. v = w
  <2>1. v # w => backlog'[v] = backlog[v]
    BY DEF RecoverMessage, RecoverNextQueue, TypeOK, ExecTypeOK
  <2>2. QED
    BY <2>1, <1>5 DEF Stranded, Passed
<1>7. CASE RecoverMessage(w, s)
  <2>1. PICK i \in Ahead(w) : /\ \A j \in Ahead(w) : i <= j
                              /\ Take(w, s, <<backlog[w].q, i>>)
                              /\ backlog' = [backlog EXCEPT ![w].min = i]
    BY <1>7 DEF RecoverMessage
  <2>2. i \in Nat /\ backlog'[w] = [q |-> backlog[w].q, min |-> i]
    <3>1. i \in Nat
      BY <2>1, <1>3, <1>7
      DEF RecoverMessage, Ahead, Exhausted, Position, TypeOK, RedisTypeOK
    <3>2. backlog \in [Workers -> Position]
      BY DEF TypeOK, ExecTypeOK
    <3>3. QED
      BY <2>1, <3>1, <3>2, <1>3 DEF Position
  <2>3. msg'[w][s] = <<backlog[w].q, i>>
    BY <2>1 DEF Take, TypeOK, ExecTypeOK
  <2>4. m[1] = backlog[w].q /\ m[2] <= i /\ m[2] > backlog[w].min
    BY <1>2, <1>3, <1>5, <1>6, <2>2 DEF Stranded, Passed, Position
  <2>5. m[2] \in Ahead(w)
    BY <1>2, <1>6, <2>4 DEF Ahead
  <2>6. m[2] = i
    BY <2>1, <2>2, <2>4, <2>5, <1>2
  <2>7. QED
    BY <1>2, <1>6, <2>3, <2>4, <2>6 DEF Stranded
<1>8. CASE RecoverNextQueue(w, s)
  <2>1. Ahead(w) = {} /\ backlog'[w] = [q |-> backlog[w].q + 1, min |-> 0]
    BY <1>8 DEF RecoverNextQueue, TypeOK, ExecTypeOK
  <2>2. m[1] = backlog[w].q /\ m[2] > backlog[w].min
    <3>1. backlog[w].q \in Nat /\ backlog[w].min \in Nat /\ m[1] \in Nat
      BY <1>2, <1>3, QueueAssumption DEF Position
    <3>2. m[1] < backlog[w].q + 1 \/ m[2] <= 0
      BY <1>6, <2>1 DEF Stranded, Passed
    <3>3. m[1] <= backlog[w].q
      BY <1>2, <3>1, <3>2
    <3>4. QED
      BY <1>2, <1>5, <1>6, <3>1, <3>3 DEF Passed
  <2>3. m[2] \in Ahead(w)
    BY <1>2, <1>6, <2>2 DEF Ahead
  <2>4. QED
    BY <2>1, <2>3
<1>9. QED
  BY <1>7, <1>8

LEMMA NoStrandingPoll ==
  ASSUME TypeOK, DeliveryInv, NoStranding, NEW w \in Workers, NEW s \in Slots, PollMessage(w, s)
  PROVE  NoStranding'
<1> SUFFICES ASSUME faults' = 0, NEW v \in Workers, NEW m \in pel'[v], Stranded(v, m)'
             PROVE  FALSE
  BY DEF NoStranding
<1>1. faults = 0 /\ UNCHANGED <<up, backlog>> /\ pc[w][s] = "poll"
  BY DEF PollMessage, boundVars
<1>2. PICK n \in Messages : n = <<polled[w], delivered[polled[w]] + 1>>
  BY DEF PollMessage, TypeOK, RedisTypeOK
<1>3. pel'[v] = IF v = w THEN pel[v] \cup {n} ELSE pel[v]
  BY <1>2 DEF PollMessage, Deliver, TypeOK, RedisTypeOK
<1>4. \A r \in Slots : msg'[v][r] = IF v = w /\ r = s THEN n ELSE msg[v][r]
  BY <1>2 DEF PollMessage, Take, TypeOK, ExecTypeOK
<1>5. m \in pel[v]
  BY <1>3, <1>4 DEF Stranded
<1>6. m # NoMsg /\ msg[w][s] = NoMsg
  BY <1>1, <1>5 DEF DeliveryInv, HandInv, TypeOK, RedisTypeOK
<1>7. Stranded(v, m)
  BY <1>1, <1>4, <1>5, <1>6 DEF Stranded, Passed
<1>8. QED
  BY <1>1, <1>5, <1>7 DEF NoStranding

LEMMA NoStrandingAck ==
  ASSUME TypeOK, DeliveryInv, NoStranding, NEW w \in Workers, NEW s \in Slots, Ack(w, s)
  PROVE  NoStranding'
<1> SUFFICES ASSUME faults' = 0, NEW v \in Workers, NEW m \in pel'[v], Stranded(v, m)'
             PROVE  FALSE
  BY DEF NoStranding
<1>1. faults = 0 /\ UNCHANGED <<up, backlog>>
  BY DEF Ack, boundVars
<1>2. pel'[v] = IF v = w THEN pel[v] \ {msg[w][s]} ELSE pel[v]
  BY DEF Ack, TypeOK, RedisTypeOK
<1>3. \A r \in Slots : msg'[v][r] = IF v = w /\ r = s THEN NoMsg ELSE msg[v][r]
  BY DEF Ack, Clear, TypeOK, ExecTypeOK
<1>4. Stranded(v, m)
  BY <1>1, <1>2, <1>3 DEF Stranded, Passed
<1>5. QED
  BY <1>1, <1>2, <1>4 DEF NoStranding

LEMMA NoStrandingProcess ==
  ASSUME TypeOK, DeliveryInv, NoStranding, NEW w \in Workers, Crash(w) \/ Restart(w)
  PROVE  NoStranding'
<1> SUFFICES ASSUME faults' = 0, NEW v \in Workers, NEW m \in pel'[v], Stranded(v, m)'
             PROVE  FALSE
  BY DEF NoStranding
<1>1. faults = 0 /\ UNCHANGED pel
  BY DEF Crash, Restart, redisVars, boundVars
<1>2. CASE v = w /\ Crash(w)
  BY <1>2 DEF Crash, Stranded, TypeOK, ExecTypeOK
<1>3. CASE v = w /\ Restart(w)
  <2>1. backlog'[v] = Fresh
    BY <1>3 DEF Restart, DeliveryInv, DownInv
  <2>2. m \in Messages
    BY <1>1 DEF TypeOK, RedisTypeOK
  <2>3. m[1] \in Nat /\ m[1] >= 1 /\ m[2] \in Nat /\ m[2] > 0
    BY <2>2
  <2>4. QED
    BY <2>1, <2>3 DEF Stranded, Passed, Fresh
<1>4. CASE v # w
  <2>1. up'[v] = up[v] /\ backlog'[v] = backlog[v] /\ \A r \in Slots : msg'[v][r] = msg[v][r]
    BY <1>4 DEF Crash, Restart, slotVars, TypeOK, ExecTypeOK
  <2>2. Stranded(v, m)
    BY <1>1, <2>1 DEF Stranded, Passed
  <2>3. QED
    BY <1>1, <2>2 DEF NoStranding
<1>5. QED
  BY <1>2, <1>3, <1>4

(* While no call to Redis or the database fails, every message an executor has *)
(* in its PEL is in one of its coroutines' hands or still ahead in its backlog: *)
(* nothing delivered waits for a restart.                                      *)
THEOREM NothingStranded == Spec => []NoStranding
<1>1. Init => NoStranding
  BY DEF Init, NoStranding
<1>2. TypeOK /\ DeliveryInv /\ NoStranding /\ [Next]_vars => NoStranding'
  <2> SUFFICES ASSUME TypeOK, DeliveryInv, NoStranding, [Next]_vars
               PROVE  NoStranding'
    OBVIOUS
  <2>1. CASE UNCHANGED vars
    BY <2>1, NoStrandingFrame DEF vars, redisVars, execVars, slotVars, boundVars
  <2>2. ASSUME NEW t \in Tasks, Server(t)
        PROVE  NoStranding'
    <3>1. UNCHANGED <<pel, up, backlog, msg>>
      BY <2>2 DEF Server, InsertRow, DeleteRow, SetCancel, ExpireCancel, Publish,
                  PublishFault, redisVars, execVars, slotVars
    <3>2. faults' = faults \/ faults' = faults + 1
      BY <2>2 DEF Server, InsertRow, DeleteRow, SetCancel, ExpireCancel, Publish,
                  PublishFault, Fault, boundVars
    <3>3. QED
      BY <3>1, <3>2, NoStrandingFrame DEF TypeOK, BoundTypeOK
  <2>3. ASSUME NEW w \in Workers, Crash(w) \/ Restart(w)
        PROVE  NoStranding'
    BY <2>3, NoStrandingProcess
  <2>4. ASSUME NEW w \in Workers, NEW s \in Slots, StepFault(w, s)
        PROVE  NoStranding'
    <3>1. faults' # 0
      BY <2>4 DEF StepFault, RecoverFault, PollFault, GetTaskFault, AckFault, Fault,
                  TypeOK, BoundTypeOK
    <3>2. QED
      BY <3>1 DEF NoStranding
  <2>5. ASSUME NEW w \in Workers, NEW s \in Slots, Step(w, s)
        PROVE  NoStranding'
    <3>1. CASE RecoverMessage(w, s) \/ RecoverNextQueue(w, s)
      BY <3>1, NoStrandingRecover
    <3>2. CASE PollMessage(w, s)
      BY <3>2, NoStrandingPoll
    <3>3. CASE Ack(w, s)
      BY <3>3, NoStrandingAck
    <3>4. CASE \/ StartCollect(w, s) \/ PollMiss(w, s) \/ SelectTask(w, s) \/ CountAttempt(w, s)
               \/ FetchUncounted(w, s) \/ StartRun(w, s) \/ SkipCancelled(w, s)
               \/ FinishRun(w, s)
      <4>1. UNCHANGED <<pel, up, backlog, msg, faults>>
        BY <3>4 DEF StartCollect, PollMiss, SelectTask, CountAttempt, FetchUncounted,
                    StartRun, SkipCancelled, FinishRun, redisVars, boundVars
      <4>2. QED
        BY <4>1, NoStrandingFrame
    <3>5. QED
      BY <2>5, <3>1, <3>2, <3>3, <3>4 DEF Step
  <2>6. QED
    BY <2>1, <2>2, <2>3, <2>4, <2>5 DEF Next
<1>3. QED
  BY <1>1, <1>2, QueueInvariant, PTL DEF Spec

-----------------------------------------------------------------------------
(* The attempts.  While no reply of XADD is lost a task has one message, so one *)
(* coroutine at a time is between the SELECT of get_task and the run; the count *)
(* it writes back is then above every attempt made.                             *)
OnceInv ==
    /\ \A t \in Tasks : pub[t] = "sent" => row[t] # "none"
    /\ \A m \in Appended : TaskOf(m) \in Tasks /\ pub[TaskOf(m)] = "sent"
    /\ \A m, n \in Appended : TaskOf(m) = TaskOf(n) => m = n

\* What the row says of the attempts so far, and what a coroutine between the
\* two statements of get_task, or past them, may still add to them.
CountInv ==
    \A t \in Tasks \ Uncounted : /\ attempts[t] <= MaxAttempts
                                 /\ row[t] = "none" => attempts[t] = 0
                                 /\ row[t] = "present" => attempts[t] <= retryCount[t]

SlotInv(w, s) ==
    TaskOf(msg[w][s]) \notin Uncounted =>
        /\ pc[w][s] = "selected" => attempts[TaskOf(msg[w][s])] <= seen[w][s]
        /\ pc[w][s] = "fetched" =>
              /\ attempts[TaskOf(msg[w][s])] < MaxAttempts
              /\ row[TaskOf(msg[w][s])] = "present" =>
                    attempts[TaskOf(msg[w][s])] < retryCount[TaskOf(msg[w][s])]

AttemptInv == OnceInv /\ CountInv /\ \A w \in Workers : \A s \in Slots : SlotInv(w, s)

LEMMA OneHolder ==
  ASSUME TypeOK, DeliveryInv, OnceInv, NEW w \in Workers, NEW v \in Workers,
         NEW s \in Slots, NEW r \in Slots, msg[w][s] # NoMsg, msg[v][r] # NoMsg,
         TaskOf(msg[w][s]) = TaskOf(msg[v][r])
  PROVE  w = v /\ s = r
<1>1. msg[w][s] = msg[v][r] /\ msg[w][s] \in pel[w] \cap pel[v]
  BY HeldTask DEF OnceInv
<1>2. w = v
  BY <1>1 DEF DeliveryInv, StreamInv
<1>3. QED
  BY <1>1, <1>2 DEF DeliveryInv, HandInv

LEMMA OnceFrame ==
  ASSUME OnceInv, UNCHANGED <<log, row, pub>>
  PROVE  OnceInv'
  BY DEF OnceInv, Appended, TaskOf

\* One more entry at the end of one stream; the others keep their places.
LEMMA XaddAppends ==
  ASSUME TypeOK, NEW t \in Tasks, NEW q \in Queues, Xadd(q, t), NEW n, n = <<q, Len(log[q]) + 1>>
  PROVE  /\ Appended' = Appended \cup {n} /\ n \notin Appended
         /\ \A m \in Appended : TaskOf(m)' = TaskOf(m)
         /\ TaskOf(n)' = t
<1>1. log[q] \in Seq(Tasks) /\ Len(log[q]) \in Nat
  BY DEF TypeOK, RedisTypeOK
<1>2. \A p \in Queues : log'[p] = IF p = q THEN Append(log[q], t) ELSE log[p]
  BY DEF Xadd, TypeOK, RedisTypeOK
<1>3. \A m \in Appended : m[1] \in Queues /\ m[2] \in 1 .. Len(log[m[1]]) /\ m = <<m[1], m[2]>>
  BY DEF Appended
<1>4. \A m \in Appended : log'[m[1]][m[2]] = log[m[1]][m[2]]
  <2> DEFINE a == Append(log[q], t)
  <2>0. \A i \in 1 .. Len(log[q]) : a[i] = log[q][i]
    BY <1>1
  <2> HIDE DEF a
  <2>1. TAKE m \in Appended
  <2>2. m[2] \in 1 .. Len(log[m[1]]) /\ m[1] \in Queues
    BY <1>3
  <2>3. CASE m[1] = q
    <3>1. log'[m[1]] = a
      BY <1>2, <2>3 DEF a
    <3>2. QED
      BY <3>1, <2>0, <2>2, <2>3
  <2>4. CASE m[1] # q
    BY <1>2, <2>2, <2>4
  <2>5. QED
    BY <2>3, <2>4
<1>5. \A m \in Appended : TaskOf(m)' = TaskOf(m)
  BY <1>4 DEF TaskOf
<1>6. \A m \in Appended' : m \in Appended \/ m = n
  <2>1. Len(Append(log[q], t)) = Len(log[q]) + 1
    BY <1>1
  <2>2. SUFFICES ASSUME NEW m \in Appended' PROVE m \in Appended \/ m = n
    OBVIOUS
  <2>3. PICK p \in Queues : m \in {p} \X (1 .. Len(log'[p]))
    BY <2>2 DEF Appended
  <2>4. m = <<p, m[2]>> /\ m[2] \in 1 .. Len(log'[p])
    BY <2>3
  <2>5. CASE p = q
    <3>1. m[2] \in 1 .. Len(log[q]) \/ m[2] = Len(log[q]) + 1
      <4>1. log'[p] = Append(log[q], t)
        BY <1>2, <2>5
      <4>2. m[2] \in 1 .. (Len(log[q]) + 1)
        BY <2>1, <2>4, <4>1
      <4>3. QED
        BY <1>1, <4>2
    <3>2. CASE m[2] \in 1 .. Len(log[q])
      <4>1. m \in {q} \X (1 .. Len(log[q]))
        BY <2>3, <2>5, <3>2
      <4>2. QED
        BY <4>1 DEF Appended
    <3>3. CASE m[2] = Len(log[q]) + 1
      BY <2>4, <2>5, <3>3
    <3>4. QED
      BY <3>1, <3>2, <3>3
  <2>6. CASE p # q
    BY <1>2, <2>4, <2>6 DEF Appended
  <2>7. QED
    BY <2>5, <2>6
<1>7. TaskOf(n)' = t
  <2>1. n[1] = q /\ n[2] = Len(log[q]) + 1
    OBVIOUS
  <2>2. Append(log[q], t)[Len(log[q]) + 1] = t
    BY <1>1
  <2>3. log'[q] = Append(log[q], t)
    BY <1>2
  <2>4. QED
    BY <2>1, <2>2, <2>3 DEF TaskOf
<1>8. n \notin Appended
  BY <1>1, <1>3
<1>9. \A m \in Appended : m \in Appended'
  <2>1. \A p \in Queues : Len(log[p]) \in Nat
    BY DEF TypeOK, RedisTypeOK
  <2>2. Len(Append(log[q], t)) = Len(log[q]) + 1
    BY <1>1
  <2>3. ASSUME NEW p \in Queues
        PROVE  Len(log'[p]) \in Nat /\ Len(log[p]) <= Len(log'[p])
    <3>1. CASE p = q
      <4>1. log'[p] = Append(log[q], t)
        BY <1>2, <3>1
      <4>2. Len(log'[p]) = Len(log[q]) + 1
        BY <2>2, <4>1
      <4>3. QED
        BY <1>1, <3>1, <4>2
    <3>2. CASE p # q
      <4>1. log'[p] = log[p]
        BY <1>2, <3>2
      <4>2. QED
        BY <2>1, <4>1
    <3>3. QED
      BY <3>1, <3>2
  <2>4. SUFFICES ASSUME NEW m \in Appended PROVE m \in Appended'
    OBVIOUS
  <2>5. PICK p \in Queues : m \in {p} \X (1 .. Len(log[p]))
    BY DEF Appended
  <2>6. m \in {p} \X (1 .. Len(log'[p]))
    BY <2>1, <2>3, <2>5
  <2>7. QED
    BY <2>6 DEF Appended
<1>10. n \in Appended'
  <2>1. Len(Append(log[q], t)) = Len(log[q]) + 1
    BY <1>1
  <2>2. Len(log'[q]) = Len(log[q]) + 1
    BY <1>2, <2>1
  <2>3. n \in {q} \X (1 .. Len(log'[q]))
    BY <1>1, <2>2
  <2>4. QED
    BY <2>3 DEF Appended
<1>11. QED
  BY <1>5, <1>6, <1>7, <1>8, <1>9, <1>10

LEMMA OnceServer ==
  ASSUME TypeOK, OnceInv, "reply" \notin FaultKinds, NEW t \in Tasks, Server(t)
  PROVE  /\ OnceInv'
         /\ \A m \in Appended : TaskOf(m)' = TaskOf(m)
<1>1. CASE SetCancel(t) \/ ExpireCancel(t)
  <2>1. UNCHANGED <<log, row, pub>>
    BY <1>1 DEF SetCancel, ExpireCancel, rowVars, pubVars
  <2>2. QED
    BY <2>1, OnceFrame DEF TaskOf
<1>2. CASE InsertRow(t) \/ DeleteRow(t)
  <2>1. UNCHANGED <<log, pub>>
    BY <1>2 DEF InsertRow, DeleteRow, redisVars, pubVars
  <2>2. \A u \in Tasks : row[u] # "none" => row'[u] # "none"
    BY <1>2 DEF InsertRow, DeleteRow, TypeOK, TableTypeOK
  <2>3. QED
    BY <2>1, <2>2 DEF OnceInv, Appended, TaskOf
<1>3. ASSUME NEW q \in Queues, Publish(t, q)
      PROVE  OnceInv' /\ \A m \in Appended : TaskOf(m)' = TaskOf(m)
  <2>1. PICK n : n = <<q, Len(log[q]) + 1>>
    OBVIOUS
  <2>2. pub[t] # "sent" /\ row[t] # "none" /\ UNCHANGED row
    BY <1>3 DEF Publish, rowVars
  <2>3. \A u \in Tasks : pub'[u] = IF u = t THEN "sent" ELSE pub[u]
    BY <1>3 DEF Publish, TypeOK, ServerTypeOK
  <2>4. \A m \in Appended : TaskOf(m)' = TaskOf(m)
    BY <1>3, <2>1, XaddAppends DEF Publish
  <2>5. \A m \in Appended' : m \in Appended \/ m = n
    BY <1>3, <2>1, XaddAppends DEF Publish
  <2>6. TaskOf(n)' = t
    BY <1>3, <2>1, XaddAppends DEF Publish
  <2>7. \A m \in Appended : TaskOf(m) # t
    BY <2>2 DEF OnceInv
  <2>8. \A m \in Appended' : TaskOf(m)' \in Tasks /\ pub'[TaskOf(m)'] = "sent"
    BY <2>3, <2>4, <2>5, <2>6 DEF OnceInv
  <2>9. \A m, k \in Appended' : TaskOf(m)' = TaskOf(k)' => m = k
    BY <2>4, <2>5, <2>6, <2>7 DEF OnceInv
  <2>10. \A u \in Tasks : pub'[u] = "sent" => row'[u] # "none"
    BY <2>2, <2>3 DEF OnceInv
  <2>11. QED
    BY <2>4, <2>8, <2>9, <2>10 DEF OnceInv
<1>4. ASSUME NEW q \in Queues, PublishFault(t, q)
      PROVE  OnceInv' /\ \A m \in Appended : TaskOf(m)' = TaskOf(m)
  <2>1. UNCHANGED log /\ row' = row /\ pub[t] # "sent"
    BY <1>4 DEF PublishFault, Fault, rowVars
  <2>2. \A u \in Tasks : pub'[u] = "sent" <=> pub[u] = "sent"
    BY <1>4, <2>1 DEF PublishFault, TypeOK, ServerTypeOK
  <2>3. QED
    BY <2>1, <2>2 DEF OnceInv, Appended, TaskOf
<1>5. QED
  BY <1>1, <1>2, <1>3, <1>4 DEF Server

LEMMA OnceStep ==
  ASSUME TypeOK, OnceInv, "reply" \notin FaultKinds, [Next]_vars
  PROVE  OnceInv'
<1>1. CASE UNCHANGED vars
  BY <1>1, OnceFrame DEF vars, redisVars, rowVars, pubVars
<1>2. ASSUME NEW t \in Tasks, Server(t) PROVE OnceInv'
  BY <1>2, OnceServer
<1>3. ASSUME NEW w \in Workers, Crash(w) \/ Restart(w) PROVE OnceInv'
  BY <1>3, OnceFrame DEF Crash, Restart, redisVars, rowVars, pubVars
<1>4. ASSUME NEW w \in Workers, NEW s \in Slots, Step(w, s) \/ StepFault(w, s)
      PROVE  OnceInv'
  <2>1. UNCHANGED <<log, row, pub>>
    BY <1>4 DEF Step, StepFault, StartCollect, RecoverMessage, RecoverNextQueue, RecoverFault,
        PollMessage, PollFault, PollMiss, SelectTask, CountAttempt, GetTaskFault, StartRun,
        FetchUncounted, SkipCancelled, FinishRun, Ack, AckFault, redisVars, rowVars, pubVars
  <2>2. QED
    BY <2>1, OnceFrame
<1>5. QED
  BY <1>1, <1>2, <1>3, <1>4 DEF Next

\* The count and the slots when neither the table nor the streams change: only
\* the coroutines whose own state changes need a look.
LEMMA SlotFrame ==
  ASSUME NEW w \in Workers, NEW s \in Slots, SlotInv(w, s),
         UNCHANGED <<log, row, retryCount, attempts>>,
         \/ pc'[w][s] \notin {"selected", "fetched"}
         \/ pc'[w][s] = pc[w][s] /\ msg'[w][s] = msg[w][s] /\ seen'[w][s] = seen[w][s]
  PROVE  SlotInv(w, s)'
  BY DEF SlotInv, TaskOf

LEMMA CountFrame ==
  ASSUME CountInv, UNCHANGED <<row, retryCount, attempts>>
  PROVE  CountInv'
  BY DEF CountInv

LEMMA AttemptServer ==
  ASSUME TypeOK, DeliveryInv, AttemptInv, "reply" \notin FaultKinds, NEW t \in Tasks, Server(t)
  PROVE  CountInv' /\ \A w \in Workers : \A s \in Slots : SlotInv(w, s)'
<1>1. UNCHANGED <<pc, msg, seen, retryCount, attempts>>
  BY DEF Server, InsertRow, DeleteRow, SetCancel, ExpireCancel, Publish, PublishFault,
         rowVars, execVars, slotVars
<1>2. /\ \A u \in Tasks : row'[u] = row[u] \/ (row[u] = "none" /\ u = t) \/ row'[u] = "deleted"
      /\ row' # row => row'[t] # "none"
  BY DEF Server, InsertRow, DeleteRow, SetCancel, ExpireCancel, Publish, PublishFault,
         rowVars, TypeOK, TableTypeOK
<1>3. CountInv'
  BY <1>1, <1>2 DEF AttemptInv, CountInv, TypeOK, TableTypeOK
<1>4. ASSUME NEW w \in Workers, NEW s \in Slots
      PROVE  SlotInv(w, s)'
  <2>1. CASE msg[w][s] = NoMsg
    <3>1. pc[w][s] \in {"idle", "poll"}
      BY <2>1 DEF DeliveryInv, HandInv
    <3>2. QED
      BY <3>1, <1>1 DEF SlotInv
  <2>2. CASE msg[w][s] # NoMsg
    <3>1. msg[w][s] \in Appended
      BY <2>2, HeldTask
    <3>2. PICK u \in Tasks : u = TaskOf(msg[w][s]) /\ row[u] # "none"
      BY <3>1 DEF AttemptInv, OnceInv
    <3>3. TaskOf(msg[w][s])' = u
      <4>1. \A m \in Appended : TaskOf(m)' = TaskOf(m)
        BY OnceServer DEF AttemptInv
      <4>2. msg'[w][s] = msg[w][s]
        BY <1>1
      <4>3. PICK m \in Appended : m = msg[w][s]
        BY <3>1
      <4>4. TaskOf(m)' = u /\ m = msg'[w][s]
        BY <3>2, <4>1, <4>2, <4>3
      <4>5. QED
        BY <4>4 DEF TaskOf
    <3>4. row'[u] = "present" => row[u] = "present"
      BY <3>2, <1>2
    <3>5. SlotInv(w, s)
      BY DEF AttemptInv
    <3>6. QED
      BY <1>1, <3>2, <3>3, <3>4, <3>5 DEF SlotInv
  <2>3. QED
    BY <2>1, <2>2
<1>5. QED
  BY <1>3, <1>4

\* The steps of collect and of the run that leave the task table alone.
LEMMA AttemptQuiet ==
  ASSUME TypeOK, AttemptInv, NEW w \in Workers, NEW s \in Slots,
         UNCHANGED <<log, row, retryCount, attempts>>,
         \A v \in Workers, r \in Slots :
            \/ v = w /\ r = s
            \/ pc'[v][r] = pc[v][r] /\ msg'[v][r] = msg[v][r] /\ seen'[v][r] = seen[v][r],
         \/ pc'[w][s] \notin {"selected", "fetched"}
         \/ pc'[w][s] = pc[w][s] /\ msg'[w][s] = msg[w][s] /\ seen'[w][s] = seen[w][s]
  PROVE  CountInv' /\ \A v \in Workers : \A r \in Slots : SlotInv(v, r)'
<1>1. CountInv'
  BY CountFrame DEF AttemptInv
<1>2. ASSUME NEW v \in Workers, NEW r \in Slots PROVE SlotInv(v, r)'
  BY SlotFrame DEF AttemptInv
<1>3. QED
  BY <1>1, <1>2

LEMMA AttemptQuietSteps ==
  ASSUME TypeOK, AttemptInv, NEW w \in Workers, NEW s \in Slots,
         \/ StartCollect(w, s) \/ RecoverMessage(w, s) \/ RecoverNextQueue(w, s)
         \/ RecoverFault(w, s) \/ PollMessage(w, s) \/ PollFault(w, s) \/ PollMiss(w, s)
         \/ SkipCancelled(w, s) \/ FinishRun(w, s) \/ Ack(w, s) \/ AckFault(w, s)
  PROVE  CountInv' /\ \A v \in Workers : \A r \in Slots : SlotInv(v, r)'
<1>1. UNCHANGED <<log, row, retryCount, attempts>>
  BY DEF StartCollect, RecoverMessage, RecoverNextQueue, RecoverFault, PollMessage, PollFault,
         PollMiss, SkipCancelled, FinishRun, Ack, AckFault, redisVars, rowVars
<1>2. \/ UNCHANGED <<pc, msg, seen>>
      \/ \E label \in PC \ {"selected", "fetched"} :
            /\ Goto(w, s, label)
            /\ \E m : msg' = [msg EXCEPT ![w][s] = m] \/ UNCHANGED msg
            /\ seen' = [seen EXCEPT ![w][s] = 0] \/ UNCHANGED seen
  <2>1. CASE StartCollect(w, s) \/ FinishRun(w, s) \/ SkipCancelled(w, s) \/ PollMiss(w, s)
    BY <2>1, Labels DEF StartCollect, FinishRun, SkipCancelled, PollMiss
  <2>2. CASE RecoverMessage(w, s)
    <3>1. \E i \in Ahead(w) : Take(w, s, <<backlog[w].q, i>>)
      BY <2>2 DEF RecoverMessage
    <3>2. QED
      BY <3>1, Labels DEF Take
  <2>3. CASE PollMessage(w, s)
    BY <2>3, Labels DEF PollMessage, Take
  <2>4. CASE RecoverNextQueue(w, s) \/ RecoverFault(w, s) \/ PollFault(w, s)
    BY <2>4 DEF RecoverNextQueue, RecoverFault, PollFault, execVars, slotVars
  <2>5. CASE Ack(w, s) \/ AckFault(w, s)
    BY <2>5, Labels DEF Ack, AckFault, Clear
  <2>6. QED
    BY <2>1, <2>2, <2>3, <2>4, <2>5
<1>3. CASE UNCHANGED <<pc, msg, seen>>
  BY <1>1, <1>3, AttemptQuiet
<1>4. CASE ~UNCHANGED <<pc, msg, seen>>
  <2>1. PICK label \in PC \ {"selected", "fetched"} :
            /\ Goto(w, s, label)
            /\ \E m : msg' = [msg EXCEPT ![w][s] = m] \/ UNCHANGED msg
            /\ seen' = [seen EXCEPT ![w][s] = 0] \/ UNCHANGED seen
    BY <1>2, <1>4
  <2>2. pc'[w][s] \notin {"selected", "fetched"}
    BY <2>1 DEF Goto, TypeOK, ExecTypeOK
  <2>3. \A v \in Workers, r \in Slots :
            \/ v = w /\ r = s
            \/ pc'[v][r] = pc[v][r] /\ msg'[v][r] = msg[v][r] /\ seen'[v][r] = seen[v][r]
    BY <2>1 DEF Goto, TypeOK, ExecTypeOK
  <2>4. QED
    BY <1>1, <2>2, <2>3, AttemptQuiet
<1>5. QED
  BY <1>3, <1>4

LEMMA AttemptProcess ==
  ASSUME TypeOK, AttemptInv, NEW w \in Workers, Crash(w) \/ Restart(w)
  PROVE  CountInv' /\ \A v \in Workers : \A r \in Slots : SlotInv(v, r)'
<1>1. UNCHANGED <<log, row, retryCount, attempts>>
  BY DEF Crash, Restart, redisVars, rowVars
<1>2. CountInv'
  BY <1>1, CountFrame DEF AttemptInv
<1>3. \A v \in Workers, r \in Slots :
         \/ pc'[v][r] \notin {"selected", "fetched"}
         \/ pc'[v][r] = pc[v][r] /\ msg'[v][r] = msg[v][r] /\ seen'[v][r] = seen[v][r]
  <2>1. CASE Crash(w)
    <3>1. \A v \in Workers, r \in Slots : v = w => pc'[v][r] = "idle"
      BY <2>1 DEF Crash, TypeOK, ExecTypeOK
    <3>2. \A v \in Workers : v # w => pc'[v] = pc[v] /\ msg'[v] = msg[v] /\ seen'[v] = seen[v]
      BY <2>1 DEF Crash, TypeOK, ExecTypeOK
    <3>3. QED
      BY <3>1, <3>2
  <2>2. CASE Restart(w)
    BY <2>2 DEF Restart, slotVars
  <2>3. QED
    BY <2>1, <2>2
<1>4. ASSUME NEW v \in Workers, NEW r \in Slots PROVE SlotInv(v, r)'
  BY <1>1, <1>3, SlotFrame DEF AttemptInv
<1>5. QED
  BY <1>2, <1>4

\* The steps that read or write the count.  t is the task in hand; nobody else
\* has it (OneHolder), so the others' parts are untouched.
LEMMA AttemptCount ==
  ASSUME TypeOK, DeliveryInv, AttemptInv, NEW w \in Workers, NEW s \in Slots,
         \/ SelectTask(w, s) \/ CountAttempt(w, s) \/ GetTaskFault(w, s)
         \/ FetchUncounted(w, s) \/ StartRun(w, s)
  PROVE  CountInv' /\ \A v \in Workers : \A r \in Slots : SlotInv(v, r)'
<1>1. msg[w][s] # NoMsg
  BY DEF SelectTask, CountAttempt, GetTaskFault, FetchUncounted, StartRun, DeliveryInv, HandInv
<1>2. PICK t \in Tasks : t = TaskOf(msg[w][s]) /\ row[t] # "none"
  BY <1>1, HeldTask DEF AttemptInv, OnceInv
<1>3. UNCHANGED <<log, row>>
  BY DEF SelectTask, CountAttempt, GetTaskFault, FetchUncounted, StartRun, redisVars, rowVars
<1>4. /\ retryCount[t] \in Nat /\ attempts[t] \in Nat /\ seen[w][s] \in Nat
      /\ MaxAttempts \in Nat
  BY <1>2, QueueAssumption DEF TypeOK, TableTypeOK, ExecTypeOK
<1>5. SlotInv(w, s) /\ CountInv
  BY DEF AttemptInv
<1>6. \A u \in Tasks : u # t => retryCount'[u] = retryCount[u] /\ attempts'[u] = attempts[u]
  BY <1>2 DEF SelectTask, CountAttempt, GetTaskFault, FetchUncounted, StartRun, WriteBack, rowVars,
              TypeOK, TableTypeOK
<1>7. \A v \in Workers, r \in Slots : ~(v = w /\ r = s) =>
         pc'[v][r] = pc[v][r] /\ msg'[v][r] = msg[v][r] /\ seen'[v][r] = seen[v][r]
  <2>1. /\ \E l : pc' = [pc EXCEPT ![w][s] = l]
        /\ UNCHANGED msg \/ msg' = [msg EXCEPT ![w][s] = NoMsg]
        /\ UNCHANGED seen \/ \E n : seen' = [seen EXCEPT ![w][s] = n]
    BY DEF SelectTask, CountAttempt, GetTaskFault, FetchUncounted, StartRun, Clear, Goto
  <2>2. QED
    BY <2>1 DEF TypeOK, ExecTypeOK
<1>8. ASSUME NEW v \in Workers, NEW r \in Slots, ~(v = w /\ r = s)
      PROVE  SlotInv(v, r)'
  <2>1. CASE msg[v][r] = NoMsg
    <3>1. pc'[v][r] \in {"idle", "poll"}
      BY <1>7, <1>8, <2>1 DEF DeliveryInv, HandInv
    <3>2. QED
      BY <3>1 DEF SlotInv
  <2>2. CASE msg[v][r] # NoMsg
    <3>1. PICK u \in Tasks : u = TaskOf(msg[v][r])
      BY <2>2, HeldTask
    <3>2. u # t
      BY <1>1, <1>2, <1>8, <2>2, <3>1, OneHolder DEF AttemptInv
    <3>3. TaskOf(msg[v][r])' = u
      BY <1>3, <1>7, <1>8, <3>1 DEF TaskOf
    <3>4. SlotInv(v, r)
      BY DEF AttemptInv
    <3>5. QED
      BY <1>3, <1>6, <1>7, <1>8, <3>1, <3>2, <3>3, <3>4 DEF SlotInv
  <2>3. QED
    BY <2>1, <2>2
<1>9. (msg'[w][s] = msg[w][s]) => TaskOf(msg[w][s])' = t
  BY <1>2, <1>3 DEF TaskOf
<1>10. CASE SelectTask(w, s)
  <2>1. UNCHANGED <<retryCount, attempts, msg>>
    BY <1>10 DEF SelectTask, rowVars
  <2>2. \/ pc'[w][s] = "drop"
        \/ pc'[w][s] = "selected" /\ row[t] = "present" /\ seen'[w][s] = retryCount[t]
    BY <1>2, <1>10 DEF SelectTask, Goto, TypeOK, ExecTypeOK
  <2>3. SlotInv(w, s)'
    BY <1>2, <1>5, <1>9, <2>1, <2>2 DEF SlotInv, CountInv
  <2>4. QED
    BY <1>3, <1>8, <2>1, <2>3, CountFrame DEF AttemptInv
<1>11. CASE CountAttempt(w, s)
  <2>1. UNCHANGED <<attempts, msg>> /\ pc[w][s] = "selected"
    BY <1>11 DEF CountAttempt
  <2>2. t \notin Uncounted => attempts[t] <= seen[w][s]
    BY <1>2, <1>5, <2>1 DEF SlotInv
  <2>3. retryCount'[t] = IF row[t] = "present" THEN seen[w][s] + 1 ELSE retryCount[t]
    BY <1>2, <1>11 DEF CountAttempt, WriteBack, TypeOK, TableTypeOK
  <2>4. \/ pc'[w][s] = "drop"
        \/ pc'[w][s] = "fetched" /\ ~(seen[w][s] >= MaxAttempts)
    BY <1>11 DEF CountAttempt, Goto, TypeOK, ExecTypeOK
  <2>5. CountInv'
    BY <1>3, <1>4, <1>5, <1>6, <2>1, <2>2, <2>3 DEF CountInv
  <2>6. SlotInv(w, s)'
    BY <1>3, <1>4, <1>9, <2>1, <2>2, <2>3, <2>4 DEF SlotInv
  <2>7. QED
    BY <1>8, <2>5, <2>6
<1>12. CASE GetTaskFault(w, s)
  <2>1. UNCHANGED attempts /\ pc'[w][s] = "idle"
    BY <1>12 DEF GetTaskFault, Clear, Goto, TypeOK, ExecTypeOK
  <2>2. \/ retryCount'[t] = retryCount[t]
        \/ pc[w][s] = "selected" /\ retryCount'[t] = seen[w][s] + 1
    BY <1>2, <1>12 DEF GetTaskFault, WriteBack, TypeOK, TableTypeOK
  <2>3. pc[w][s] = "selected" /\ t \notin Uncounted => attempts[t] <= seen[w][s]
    BY <1>2, <1>5 DEF SlotInv
  <2>4. CountInv'
    BY <1>3, <1>4, <1>5, <1>6, <2>1, <2>2, <2>3 DEF CountInv
  <2>5. SlotInv(w, s)'
    BY <2>1 DEF SlotInv
  <2>6. QED
    BY <1>8, <2>4, <2>5
<1>13. CASE StartRun(w, s)
  <2>1. UNCHANGED retryCount /\ pc[w][s] = "fetched" /\ pc'[w][s] = "running"
    BY <1>13 DEF StartRun, Goto, rowVars, TypeOK, ExecTypeOK
  <2>2. attempts'[t] = attempts[t] + 1
    BY <1>2, <1>13 DEF StartRun, TypeOK, TableTypeOK
  <2>3. t \notin Uncounted =>
           attempts[t] < MaxAttempts /\ (row[t] = "present" => attempts[t] < retryCount[t])
    BY <1>2, <1>5, <2>1 DEF SlotInv
  <2>4. CountInv'
    BY <1>2, <1>3, <1>4, <1>5, <1>6, <2>1, <2>2, <2>3 DEF CountInv
  <2>5. SlotInv(w, s)'
    BY <2>1 DEF SlotInv
  <2>6. QED
    BY <1>8, <2>4, <2>5
<1>14. CASE FetchUncounted(w, s)
  <2>1. UNCHANGED <<retryCount, attempts, msg>> /\ t \in Uncounted
    BY <1>2, <1>14 DEF FetchUncounted, rowVars
  <2>2. SlotInv(w, s)'
    BY <1>9, <2>1 DEF SlotInv
  <2>3. QED
    BY <1>3, <1>8, <2>1, <2>2, CountFrame DEF AttemptInv
<1>15. QED
  BY <1>10, <1>11, <1>12, <1>13, <1>14

LEMMA AttemptInvariant ==
  ASSUME "reply" \notin FaultKinds
  PROVE  Spec => [](TypeOK /\ DeliveryInv /\ AttemptInv)
<1>1. Init => AttemptInv
  <2> SUFFICES ASSUME Init PROVE AttemptInv
    OBVIOUS
  <2>1. Appended = {}
    BY DEF Init, Appended
  <2>2. OnceInv
    BY <2>1 DEF Init, OnceInv
  <2>3. CountInv
    BY QueueAssumption DEF Init, CountInv
  <2>4. \A w \in Workers : \A s \in Slots : SlotInv(w, s)
    BY DEF Init, SlotInv
  <2>5. QED
    BY <2>2, <2>3, <2>4 DEF AttemptInv
<1>2. TypeOK /\ DeliveryInv /\ AttemptInv /\ [Next]_vars => AttemptInv'
  <2> SUFFICES ASSUME TypeOK, DeliveryInv, AttemptInv, [Next]_vars
               PROVE  AttemptInv'
    OBVIOUS
  <2>1. OnceInv'
    BY OnceStep DEF AttemptInv
  <2> DEFINE Rest == CountInv /\ \A w \in Workers : \A s \in Slots : SlotInv(w, s)
  <2>2. CASE UNCHANGED vars
    <3>1. UNCHANGED <<log, row, retryCount, attempts, pc, msg, seen>>
      BY <2>2 DEF vars, redisVars, rowVars, execVars, slotVars
    <3>2. QED
      BY <2>1, <3>1, SlotFrame, CountFrame DEF AttemptInv
  <2>3. ASSUME NEW t \in Tasks, Server(t) PROVE Rest'
    BY <2>3, AttemptServer
  <2>4. ASSUME NEW w \in Workers, Crash(w) \/ Restart(w) PROVE Rest'
    BY <2>4, AttemptProcess
  <2>5. ASSUME NEW w \in Workers, NEW s \in Slots, Step(w, s) \/ StepFault(w, s)
        PROVE  Rest'
    BY <2>5, AttemptCount, AttemptQuietSteps DEF Step, StepFault
  <2>6. QED
    BY <2>1, <2>2, <2>3, <2>4, <2>5 DEF Next, AttemptInv
<1>3. QED
  BY <1>1, <1>2, QueueInvariant, PTL DEF Spec

(* get_task gives a task to run at most MaxAttempts times, whatever dies and     *)
(* whichever call fails, provided no reply of XADD is lost: then a task has one  *)
(* message, and its retry count is read and written by one executor at a time.   *)
(* The tasks it is not asked for (Uncounted) have no such bound.                 *)
THEOREM Attempts == ASSUME "reply" \notin FaultKinds
                    PROVE  Spec => []AttemptsBounded
<1>1. AttemptInv => AttemptsBounded
  BY DEF AttemptInv, CountInv, AttemptsBounded
<1>2. QED
  BY <1>1, AttemptInvariant, PTL

-----------------------------------------------------------------------------
(* The queue implements TaskLifecycle.  What statusOf says of a task rests on  *)
(* three observations: a message of it exists, a coroutine runs it, all its    *)
(* messages are acknowledged.  Each action moves one of them, of one task (or, *)
(* when a process dies, of those it ran), or none.                             *)
Runs(w, s, t) == pc[w][s] \in {"running", "ended"} /\ TaskOf(msg[w][s]) = t
AllAcked(t) == \A m \in MessagesOf(t) : Acked(m)

LEMMA StatusReads ==
  ASSUME NEW t \in Tasks
  PROVE  /\ statusOf[t] = IF MessagesOf(t) = {} THEN "absent"
                          ELSE IF \E w \in Workers, s \in Slots : Runs(w, s, t) THEN "running"
                          ELSE IF AllAcked(t) THEN "settled" ELSE "pending"
         /\ statusOf'[t] = IF MessagesOf(t)' = {} THEN "absent"
                           ELSE IF \E w \in Workers, s \in Slots : Runs(w, s, t)' THEN "running"
                           ELSE IF AllAcked(t)' THEN "settled" ELSE "pending"
  BY DEF statusOf, RunningNow, Runs, AllAcked

\* One task moves, and the others stay where they are.
LEMMA OneMoves ==
  ASSUME NEW t \in Tasks, NEW from, NEW to, statusOf[t] = from, statusOf'[t] = to,
         \A u \in Tasks \ {t} : statusOf'[u] = statusOf[u]
  PROVE  Lifecycle!Move(t, from, to)
<1>1. statusOf = [u \in Tasks |-> statusOf[u]] /\ statusOf' = [u \in Tasks |-> statusOf'[u]]
  BY DEF statusOf
<1>2. QED
  BY <1>1 DEF Lifecycle!Move

LEMMA NoneMoves ==
  ASSUME \A u \in Tasks : statusOf'[u] = statusOf[u]
  PROVE  statusOf' = statusOf
<1>1. statusOf = [u \in Tasks |-> statusOf[u]] /\ statusOf' = [u \in Tasks |-> statusOf'[u]]
  BY DEF statusOf
<1>2. QED
  BY <1>1

\* A task whose messages and runs stay as they are.
LEMMA StatusStays ==
  ASSUME NEW t \in Tasks, MessagesOf(t)' = MessagesOf(t),
         \A m \in MessagesOf(t) : Acked(m)' = Acked(m),
         \A w \in Workers, s \in Slots : Runs(w, s, t)' = Runs(w, s, t)
  PROVE  statusOf'[t] = statusOf[t]
<1>1. AllAcked(t)' = AllAcked(t)
  BY DEF AllAcked
<1>2. QED
  BY <1>1, StatusReads

LEMMA MessagesStay ==
  ASSUME log' = log, NEW t
  PROVE  MessagesOf(t)' = MessagesOf(t)
  BY DEF MessagesOf, Appended, TaskOf

LEMMA AckedStay ==
  ASSUME UNCHANGED <<log, delivered, pel>>, NEW m
  PROVE  Acked(m)' = Acked(m)
  BY DEF Acked, Appended

LEMMA RunStays ==
  ASSUME log' = log, NEW w, NEW s, NEW t,
         \/ pc'[w][s] = pc[w][s] /\ msg'[w][s] = msg[w][s]
         \/ pc[w][s] \notin {"running", "ended"} /\ pc'[w][s] \notin {"running", "ended"}
         \/ pc[w][s] \in {"running", "ended"} /\ pc'[w][s] \in {"running", "ended"} /\ msg'[w][s] = msg[w][s]
  PROVE  Runs(w, s, t)' = Runs(w, s, t)
  BY DEF Runs, TaskOf

\* The one message of a task in a coroutine's hand.
LEMMA HeldMessage ==
  ASSUME TypeOK, DeliveryInv, OnceInv, NEW w \in Workers, NEW s \in Slots, msg[w][s] # NoMsg
  PROVE  /\ MessagesOf(TaskOf(msg[w][s])) = {msg[w][s]}
         /\ TaskOf(msg[w][s]) \in Tasks /\ msg[w][s] \in pel[w]
         /\ ~AllAcked(TaskOf(msg[w][s]))
<1>1. msg[w][s] \in Appended /\ msg[w][s] \in pel[w] /\ TaskOf(msg[w][s]) \in Tasks
  BY HeldTask DEF DeliveryInv, HandInv
<1>2. MessagesOf(TaskOf(msg[w][s])) = {msg[w][s]}
  BY <1>1 DEF OnceInv, MessagesOf
<1>3. ~Acked(msg[w][s])
  BY <1>1 DEF Acked
<1>4. QED
  BY <1>1, <1>2, <1>3 DEF AllAcked

\* A task with a coroutine that runs it; a task that has no message is not run.
LEMMA RunningStatus ==
  ASSUME TypeOK, DeliveryInv, OnceInv, NEW w \in Workers, NEW s \in Slots,
         pc[w][s] \in {"running", "ended"}
  PROVE  msg[w][s] # NoMsg /\ statusOf[TaskOf(msg[w][s])] = "running"
<1>1. msg[w][s] # NoMsg
  BY DEF DeliveryInv, HandInv
<1>2. TaskOf(msg[w][s]) \in Tasks /\ MessagesOf(TaskOf(msg[w][s])) # {}
  BY <1>1, HeldMessage
<1>3. Runs(w, s, TaskOf(msg[w][s]))
  BY DEF Runs
<1>4. QED
  BY <1>1, <1>2, <1>3, StatusReads

\* A coroutine that holds a task and does not run it: the task is pending.
LEMMA PendingStatus ==
  ASSUME TypeOK, DeliveryInv, OnceInv, NEW w \in Workers, NEW s \in Slots,
         msg[w][s] # NoMsg, pc[w][s] \notin {"running", "ended"}
  PROVE  statusOf[TaskOf(msg[w][s])] = "pending"
<1> DEFINE t == TaskOf(msg[w][s])
<1>1. t \in Tasks /\ MessagesOf(t) # {} /\ ~AllAcked(t)
  BY HeldMessage
<1>2. ASSUME NEW v \in Workers, NEW r \in Slots, Runs(v, r, t)
      PROVE  FALSE
  <2>1. msg[v][r] # NoMsg
    BY <1>2 DEF Runs, DeliveryInv, HandInv
  <2>2. v = w /\ r = s
    BY <1>2, <2>1, OneHolder DEF Runs
  <2>3. QED
    BY <1>2, <2>2 DEF Runs
<1> HIDE DEF t
<1>3. statusOf[t] = "pending"
  BY <1>1, <1>2, StatusReads
<1>4. QED
  BY <1>3 DEF t

\* A coroutine's step leaves the other coroutines alone.
LEMMA OtherSlots ==
  ASSUME TypeOK, NEW w \in Workers, NEW s \in Slots, Step(w, s) \/ StepFault(w, s)
  PROVE  \A v \in Workers, r \in Slots : ~(v = w /\ r = s) =>
            pc'[v][r] = pc[v][r] /\ msg'[v][r] = msg[v][r]
<1>1. UNCHANGED pc \/ \E l : pc' = [pc EXCEPT ![w][s] = l]
  BY DEF Step, StepFault, StartCollect, RecoverMessage, RecoverNextQueue, RecoverFault,
         PollMessage, PollFault, PollMiss, SelectTask, CountAttempt, GetTaskFault, StartRun,
         FetchUncounted, SkipCancelled, FinishRun, Ack, AckFault, Take, Clear, Goto, execVars, slotVars
<1>2. UNCHANGED msg \/ \E m : msg' = [msg EXCEPT ![w][s] = m]
  BY DEF Step, StepFault, StartCollect, RecoverMessage, RecoverNextQueue, RecoverFault,
         PollMessage, PollFault, PollMiss, SelectTask, CountAttempt, GetTaskFault, StartRun,
         FetchUncounted, SkipCancelled, FinishRun, Ack, AckFault, Take, Clear, Goto, execVars, slotVars
<1>3. QED
  BY <1>1, <1>2 DEF TypeOK, ExecTypeOK

\* The status of every task but the one a coroutine has in hand stays, and that
\* of every task when the coroutine does not run one.
LEMMA OtherTasksStay ==
  ASSUME TypeOK, NEW w \in Workers, NEW s \in Slots, Step(w, s) \/ StepFault(w, s),
         log' = log, NEW u \in Tasks, \A m \in MessagesOf(u) : Acked(m)' = Acked(m),
         \/ \A l \in {"running", "ended"} : pc[w][s] # l /\ pc'[w][s] # l
         \/ /\ pc[w][s] \in {"running", "ended"} /\ pc'[w][s] \in {"running", "ended"}
            /\ msg'[w][s] = msg[w][s]
         \/ /\ u # TaskOf(msg[w][s])
            /\ pc'[w][s] \notin {"running", "ended"} \/ msg'[w][s] = msg[w][s]
  PROVE  statusOf'[u] = statusOf[u]
<1>1. ASSUME NEW v \in Workers, NEW r \in Slots, ~(v = w /\ r = s)
      PROVE  Runs(v, r, u)' = Runs(v, r, u)
  BY <1>1, OtherSlots, RunStays
<1>2. Runs(w, s, u)' = Runs(w, s, u)
  BY DEF Runs, TaskOf
<1>3. QED
  BY <1>1, <1>2, MessagesStay, StatusStays

\* The steps that neither start nor end a run nor touch Redis.
LEMMA QuietStep ==
  ASSUME TypeOK, NEW w \in Workers, NEW s \in Slots,
         \/ StartCollect(w, s) \/ RecoverMessage(w, s) \/ RecoverNextQueue(w, s)
         \/ RecoverFault(w, s) \/ PollMiss(w, s) \/ SelectTask(w, s) \/ CountAttempt(w, s)
         \/ GetTaskFault(w, s) \/ FetchUncounted(w, s) \/ SkipCancelled(w, s) \/ FinishRun(w, s)
         \/ AckFault(w, s) /\ pc[w][s] = "drop"
  PROVE  statusOf' = statusOf /\ attempts' = attempts
<1>1. UNCHANGED <<log, delivered, pel, attempts>>
  BY DEF StartCollect, RecoverMessage, RecoverNextQueue, RecoverFault, PollMiss, SelectTask,
         CountAttempt, GetTaskFault, FetchUncounted, SkipCancelled, FinishRun, AckFault, redisVars
<1>2. Step(w, s) \/ StepFault(w, s)
  BY DEF Step, StepFault
<1>3. CASE FinishRun(w, s)
  <2>1. pc[w][s] = "running" /\ pc'[w][s] = "ended" /\ msg'[w][s] = msg[w][s]
    BY <1>3 DEF FinishRun, Goto, TypeOK, ExecTypeOK
  <2>2. QED
    BY <1>1, <1>2, <2>1, AckedStay, OtherTasksStay, NoneMoves
<1>4. CASE ~FinishRun(w, s)
  <2>1. /\ pc[w][s] \in {"idle", "poll", "got", "selected", "fetched", "drop"}
        /\ pc' = pc \/ \E l \in {"idle", "poll", "got", "selected", "fetched", "drop"} :
                          pc' = [pc EXCEPT ![w][s] = l]
    BY <1>4 DEF StartCollect, RecoverMessage, RecoverNextQueue, RecoverFault, PollMiss,
           SelectTask, CountAttempt, GetTaskFault, FetchUncounted, SkipCancelled, AckFault,
           Goto, Take, Clear, slotVars
  <2>2. pc'[w][s] \in {"idle", "poll", "got", "selected", "fetched", "drop"}
    BY <2>1 DEF TypeOK, ExecTypeOK
  <2>3. \A l \in {"running", "ended"} : pc[w][s] # l /\ pc'[w][s] # l
    BY <2>1, <2>2
  <2>4. QED
    BY <1>1, <1>2, <2>3, AckedStay, OtherTasksStay, NoneMoves
<1>5. QED
  BY <1>3, <1>4

\* A delivery moves an entry from "not delivered" to a PEL: acknowledged it is
\* neither before nor after.
LEMMA DeliverStep ==
  ASSUME TypeOK, DeliveryInv, NEW w \in Workers, NEW s \in Slots,
         PollMessage(w, s) \/ PollFault(w, s)
  PROVE  statusOf' = statusOf /\ attempts' = attempts
<1>1. PICK q \in Queues : q = polled[w] /\ Deliver(w, q)
  BY DEF PollMessage, PollFault
<1>2. UNCHANGED <<log, attempts>> /\ (Step(w, s) \/ StepFault(w, s))
  BY DEF PollMessage, PollFault, Step, StepFault
<1>3. \A l \in {"running", "ended"} : pc[w][s] # l /\ pc'[w][s] # l
  BY DEF PollMessage, PollFault, Take, Goto, execVars, slotVars, TypeOK, ExecTypeOK
<1>4. ASSUME NEW m \in Appended PROVE Acked(m)' = Acked(m)
  <2>1. m[1] \in Queues /\ m[2] \in Nat /\ m = <<m[1], m[2]>> /\ m \in Appended'
    BY <1>2 DEF Appended, TypeOK, RedisTypeOK
  <2>2. \A p \in Queues : /\ delivered[p] \in Nat
                          /\ delivered'[p] = IF p = q THEN delivered[q] + 1 ELSE delivered[p]
    BY <1>1 DEF Deliver, TypeOK, RedisTypeOK
  <2>3. \A v \in Workers : pel'[v] = IF v = w THEN pel[w] \cup {<<q, delivered[q] + 1>>} ELSE pel[v]
    BY <1>1 DEF Deliver, TypeOK, RedisTypeOK
  <2>4. CASE m = <<q, delivered[q] + 1>>
    <3>1. ~(m[2] <= delivered[m[1]])
      BY <2>2, <2>4
    <3>2. m \in pel'[w]
      BY <2>3, <2>4
    <3>3. QED
      BY <3>1, <3>2 DEF Acked
  <2>5. CASE m # <<q, delivered[q] + 1>>
    <3>1. m[1] = q => m[2] # delivered[q] + 1
      BY <2>1, <2>5
    <3>2. m[2] <= delivered'[m[1]] <=> m[2] <= delivered[m[1]]
      BY <2>1, <2>2, <3>1
    <3>3. \A v \in Workers : m \in pel'[v] <=> m \in pel[v]
      BY <2>3, <2>5
    <3>4. QED
      BY <2>1, <3>2, <3>3 DEF Acked
  <2>6. QED
    BY <2>4, <2>5
<1>5. ASSUME NEW u \in Tasks PROVE statusOf'[u] = statusOf[u]
  <2>1. \A m \in MessagesOf(u) : Acked(m)' = Acked(m)
    BY <1>4 DEF MessagesOf
  <2>2. QED
    BY <1>2, <1>3, <2>1, OtherTasksStay
<1>6. QED
  BY <1>2, <1>5, NoneMoves


\* XADD answers: the task has its message, and it waits.
LEMMA PublishStep ==
  ASSUME TypeOK, DeliveryInv, OnceInv, NEW t \in Tasks, NEW q \in Queues, Publish(t, q)
  PROVE  Lifecycle!Publish(t)
<1>1. PICK n : n = <<q, Len(log[q]) + 1>>
  OBVIOUS
<1>2. /\ Appended' = Appended \cup {n} /\ n \notin Appended
      /\ \A m \in Appended : TaskOf(m)' = TaskOf(m)
      /\ TaskOf(n)' = t
  BY <1>1, XaddAppends DEF Publish
<1>3. UNCHANGED <<delivered, pel, pc, msg, attempts>> /\ pub[t] # "sent"
  BY DEF Publish, execVars, slotVars
<1>4. MessagesOf(t) = {}
  BY <1>3 DEF OnceInv, MessagesOf
<1>5. MessagesOf(t)' = {n} /\ \A u \in Tasks \ {t} : MessagesOf(u)' = MessagesOf(u)
  BY <1>2, <1>4 DEF MessagesOf
<1>6. \A m \in Appended : Acked(m)' = Acked(m)
  BY <1>2, <1>3 DEF Acked
<1>7. ~Acked(n)'
  <2>1. delivered[q] <= Len(log[q]) /\ delivered[q] \in Nat /\ Len(log[q]) \in Nat
    BY DEF DeliveryInv, StreamInv, TypeOK, RedisTypeOK
  <2>2. ~(n[2] <= delivered'[n[1]])
    BY <1>1, <1>3, <2>1
  <2>3. QED
    BY <2>2 DEF Acked
<1>8. ASSUME NEW v \in Workers, NEW r \in Slots, NEW u \in Tasks
      PROVE  Runs(v, r, u)' = Runs(v, r, u)
  <2>1. CASE pc[v][r] \in {"running", "ended"}
    <3>1. msg[v][r] \in Appended
      BY <2>1, HeldTask DEF DeliveryInv, HandInv
    <3>2. TaskOf(msg[v][r])' = TaskOf(msg[v][r])
      BY <1>2, <1>3, <3>1 DEF TaskOf
    <3>3. QED
      BY <1>3, <3>2 DEF Runs
  <2>2. CASE pc[v][r] \notin {"running", "ended"}
    BY <1>3, <2>2 DEF Runs
  <2>3. QED
    BY <2>1, <2>2
<1>9. ASSUME NEW u \in Tasks \ {t} PROVE statusOf'[u] = statusOf[u]
  <2>1. \A m \in MessagesOf(u) : Acked(m)' = Acked(m)
    BY <1>6 DEF MessagesOf
  <2>2. QED
    BY <1>5, <1>8, <2>1, StatusStays
<1>10. \A v \in Workers, r \in Slots : ~Runs(v, r, t)
  <2>1. ASSUME NEW v \in Workers, NEW r \in Slots, Runs(v, r, t) PROVE FALSE
    <3>1. pc[v][r] \in {"running", "ended"} /\ TaskOf(msg[v][r]) = t
      BY <2>1 DEF Runs
    <3>2. msg[v][r] \in Appended
      BY <3>1, HeldTask DEF DeliveryInv, HandInv
    <3>3. QED
      BY <1>4, <3>1, <3>2 DEF MessagesOf
  <2>2. QED
    BY <2>1
<1>11. statusOf[t] = "absent"
  BY <1>4, StatusReads
<1>12. ~AllAcked(t)'
  BY <1>5, <1>7 DEF AllAcked
<1>13. statusOf'[t] = "pending"
  BY <1>5, <1>8, <1>10, <1>12, StatusReads
<1>14. QED
  BY <1>3, <1>9, <1>11, <1>13, OneMoves DEF Lifecycle!Publish

\* collect hands the task to its coroutine: it was pending and its attempts were
\* below the bound (SlotInv).
LEMMA StartStep ==
  ASSUME TypeOK, DeliveryInv, AttemptInv, NEW w \in Workers, NEW s \in Slots, StartRun(w, s)
  PROVE  \E t \in Tasks : Lifecycle!Start(t)
<1>1. /\ pc[w][s] = "fetched" /\ pc'[w][s] = "running" /\ msg'[w][s] = msg[w][s]
      /\ UNCHANGED <<log, delivered, pel>> /\ (Step(w, s) \/ StepFault(w, s))
  BY DEF StartRun, Goto, redisVars, Step, TypeOK, ExecTypeOK
<1>2. msg[w][s] # NoMsg /\ OnceInv
  BY <1>1 DEF DeliveryInv, HandInv, AttemptInv
<1>3. PICK t \in Tasks : t = TaskOf(msg[w][s]) /\ MessagesOf(t) # {}
  BY <1>2, HeldMessage
<1>4. (t \in Uncounted \/ attempts[t] < MaxAttempts) /\ attempts' = [attempts EXCEPT ![t] = attempts[t] + 1]
  BY <1>1, <1>3 DEF AttemptInv, SlotInv, StartRun
<1>5. statusOf[t] = "pending"
  BY <1>1, <1>2, <1>3, PendingStatus
<1>6. \A u \in Tasks \ {t} : statusOf'[u] = statusOf[u]
  BY <1>1, <1>3, AckedStay, OtherTasksStay
<1>7. MessagesOf(t)' # {}
  BY <1>1, <1>3, MessagesStay
<1>8. Runs(w, s, t)'
  BY <1>1, <1>3 DEF Runs, TaskOf
<1>9. statusOf'[t] = "running"
  BY <1>7, <1>8, StatusReads
<1>10. QED
  BY <1>4, <1>5, <1>6, <1>9, OneMoves DEF Lifecycle!Start

\* The coroutine lets go of the task in hand; whether the message left the PEL
\* decides where the task goes.
LEMMA LetGo ==
  ASSUME TypeOK, DeliveryInv, OnceInv, NEW w \in Workers, NEW s \in Slots,
         Ack(w, s) \/ AckFault(w, s), NEW t, t = TaskOf(msg[w][s])
  PROVE  /\ t \in Tasks /\ attempts' = attempts
         /\ \A u \in Tasks \ {t} : statusOf'[u] = statusOf[u]
         /\ statusOf[t] = IF pc[w][s] = "drop" THEN "pending" ELSE "running"
         /\ Ack(w, s) => statusOf'[t] = "settled"
         /\ AckFault(w, s) => statusOf'[t] = "pending"
<1>1. /\ pc[w][s] \in {"drop", "ended"} /\ pc'[w][s] = "idle"
      /\ UNCHANGED <<log, delivered, attempts>> /\ (Step(w, s) \/ StepFault(w, s))
  BY DEF Ack, AckFault, Clear, Goto, redisVars, Step, StepFault, TypeOK, ExecTypeOK
<1>2. msg[w][s] # NoMsg
  BY <1>1 DEF DeliveryInv, HandInv
<1>3. /\ t \in Tasks /\ MessagesOf(t) = {msg[w][s]} /\ msg[w][s] \in pel[w]
      /\ msg[w][s] \in Appended
  BY <1>2, HeldMessage, HeldTask
<1>4. statusOf[t] = IF pc[w][s] = "drop" THEN "pending" ELSE "running"
  BY <1>1, <1>2, RunningStatus, PendingStatus
<1>5. /\ Ack(w, s) => \A v \in Workers : pel'[v] = IF v = w THEN pel[w] \ {msg[w][s]} ELSE pel[v]
      /\ AckFault(w, s) => pel' = pel
  BY DEF Ack, AckFault, redisVars, TypeOK, RedisTypeOK
<1>6. ASSUME NEW m \in Appended, m # msg[w][s] PROVE Acked(m)' = Acked(m)
  <2>1. \A v \in Workers : m \in pel'[v] <=> m \in pel[v]
    BY <1>5, <1>6
  <2>2. Appended' = Appended
    BY <1>1 DEF Appended
  <2>3. QED
    BY <1>1, <2>1, <2>2 DEF Acked
<1>7. ASSUME NEW u \in Tasks \ {t} PROVE statusOf'[u] = statusOf[u]
  <2>1. \A m \in MessagesOf(u) : Acked(m)' = Acked(m)
    BY <1>3, <1>6, <1>7 DEF MessagesOf
  <2>2. QED
    BY <1>1, <1>7, <2>1, OtherTasksStay
<1>8. MessagesOf(t)' = {msg[w][s]}
  BY <1>1, <1>3, MessagesStay
<1>9. ASSUME NEW v \in Workers, NEW r \in Slots, Runs(v, r, t)' PROVE FALSE
  <2>1. ~(v = w /\ r = s)
    BY <1>1, <1>9 DEF Runs
  <2>2. pc[v][r] \in {"running", "ended"} /\ TaskOf(msg[v][r]) = t
    BY <1>1, <1>9, <2>1, OtherSlots DEF Runs, TaskOf
  <2>3. msg[v][r] # NoMsg
    BY <2>2 DEF DeliveryInv, HandInv
  <2>4. QED
    BY <1>2, <2>1, <2>2, <2>3, OneHolder
<1>10. ASSUME Ack(w, s) PROVE statusOf'[t] = "settled"
  <2>1. msg[w][s][2] <= delivered[msg[w][s][1]]
    BY <1>3 DEF DeliveryInv, StreamInv
  <2>2. \A v \in Workers : msg[w][s] \notin pel'[v]
    BY <1>3, <1>5, <1>10 DEF DeliveryInv, StreamInv
  <2>3. \A m \in {msg[w][s]} : Acked(m)'
    BY <1>1, <1>3, <2>1, <2>2 DEF Acked, Appended
  <2>4. AllAcked(t)'
    BY <1>8, <2>3 DEF AllAcked
  <2>5. QED
    BY <1>3, <1>8, <1>9, <2>4, StatusReads
<1>11. ASSUME AckFault(w, s) PROVE statusOf'[t] = "pending"
  <2>1. \A m \in {msg[w][s]} : ~Acked(m)'
    BY <1>3, <1>5, <1>11 DEF Acked
  <2>2. ~AllAcked(t)'
    BY <1>8, <2>1 DEF AllAcked
  <2>3. QED
    BY <1>3, <1>8, <1>9, <2>2, StatusReads
<1>12. QED
  BY <1>1, <1>3, <1>4, <1>7, <1>10, <1>11


\* A process dies with what it runs: those tasks, and no others, wait again.
LEMMA CrashStep ==
  ASSUME TypeOK, DeliveryInv, OnceInv, NEW w \in Workers, Crash(w)
  PROVE  /\ attempts' = attempts
         /\ statusOf' = statusOf \/ \E S \in SUBSET Tasks : Lifecycle!Requeue(S)
<1> DEFINE S == {t \in Tasks : \E s \in Slots : Runs(w, s, t)}
<1>1. UNCHANGED <<log, delivered, pel, attempts>>
  BY DEF Crash, redisVars
<1>2. \A v \in Workers, r \in Slots :
         IF v = w THEN pc'[v][r] = "idle" ELSE pc'[v][r] = pc[v][r] /\ msg'[v][r] = msg[v][r]
  BY DEF Crash, TypeOK, ExecTypeOK
<1>3. \A u \in Tasks, v \in Workers, r \in Slots :
         Runs(v, r, u)' = IF v = w THEN FALSE ELSE Runs(v, r, u)
  BY <1>1, <1>2 DEF Runs, TaskOf
<1>4. ASSUME NEW u \in Tasks PROVE MessagesOf(u)' = MessagesOf(u) /\ AllAcked(u)' = AllAcked(u)
  BY <1>1, AckedStay, MessagesStay DEF AllAcked
<1>5. ASSUME NEW u \in S PROVE statusOf[u] = "running" /\ statusOf'[u] = "pending"
  <2>1. PICK s \in Slots : Runs(w, s, u)
    OBVIOUS
  <2>2. pc[w][s] \in {"running", "ended"} /\ TaskOf(msg[w][s]) = u
    BY <2>1 DEF Runs
  <2>3. msg[w][s] # NoMsg /\ statusOf[u] = "running"
    BY <2>2, RunningStatus
  <2>4. MessagesOf(u) # {} /\ ~AllAcked(u)
    BY <2>2, <2>3, HeldMessage
  <2>5. ASSUME NEW v \in Workers, NEW r \in Slots, Runs(v, r, u)' PROVE FALSE
    <3>1. v # w /\ Runs(v, r, u)
      BY <1>3, <2>5
    <3>2. msg[v][r] # NoMsg /\ TaskOf(msg[v][r]) = u
      BY <3>1 DEF Runs, DeliveryInv, HandInv
    <3>3. QED
      BY <2>2, <2>3, <3>1, <3>2, OneHolder
  <2>6. statusOf'[u] = "pending"
    BY <1>4, <2>4, <2>5, StatusReads
  <2>7. QED
    BY <2>3, <2>6
<1>6. ASSUME NEW u \in Tasks \ S PROVE statusOf'[u] = statusOf[u]
  <2>1. \A r \in Slots : ~Runs(w, r, u)
    BY <1>6
  <2>2. \A v \in Workers, r \in Slots : Runs(v, r, u)' \in BOOLEAN /\ Runs(v, r, u) \in BOOLEAN
    BY DEF Runs
  <2>3. ASSUME NEW v \in Workers, NEW r \in Slots PROVE Runs(v, r, u)' = Runs(v, r, u)
    BY <1>3, <2>1, <2>2
  <2>4. \A m \in MessagesOf(u) : Acked(m)' = Acked(m)
    BY <1>1, AckedStay
  <2>5. QED
    BY <1>4, <2>3, <2>4, StatusStays
<1> HIDE DEF S
<1>7. CASE S = {}
  BY <1>1, <1>6, <1>7, NoneMoves
<1>8. CASE S # {}
  <2>1. statusOf' = [u \in Tasks |-> statusOf'[u]]
    BY DEF statusOf
  <2>2. statusOf' = [u \in Tasks |-> IF u \in S THEN "pending" ELSE statusOf[u]]
    BY <1>5, <1>6, <2>1
  <2>3. S \in SUBSET Tasks /\ \A u \in S : statusOf[u] = "running"
    BY <1>5 DEF S
  <2>4. Lifecycle!Requeue(S)
    BY <1>1, <1>8, <2>2, <2>3 DEF Lifecycle!Requeue
  <2>5. QED
    BY <1>1, <2>3, <2>4
<1>9. QED
  BY <1>7, <1>8

\* Nothing about the streams, the PELs or the coroutines' work changes.
LEMMA IdleStep ==
  ASSUME UNCHANGED <<log, delivered, pel, pc, msg, attempts>>
  PROVE  statusOf' = statusOf /\ attempts' = attempts
<1>1. ASSUME NEW u \in Tasks PROVE statusOf'[u] = statusOf[u]
  BY AckedStay, MessagesStay, RunStays, StatusStays
<1>2. QED
  BY <1>1, NoneMoves

(* The queue keeps the promise of TaskLifecycle for every number of tasks,      *)
(* executors, coroutines, queues, deaths and failed calls, while no reply of    *)
(* XADD is lost: a task is started only while it waits, at most MaxAttempts     *)
(* times when get_task fetches it, one coroutine at a time, and a settled task  *)
(* is never given to anybody again.                                             *)
THEOREM Implements == ASSUME "reply" \notin FaultKinds
                      PROVE  Spec => KeepsLifecycle
<1>1. Init => Lifecycle!Init
  <2> SUFFICES ASSUME Init PROVE Lifecycle!Init
    OBVIOUS
  <2>1. \A t \in Tasks : MessagesOf(t) = {}
    BY DEF Init, MessagesOf, Appended
  <2>2. statusOf = [t \in Tasks |-> "absent"]
    BY <2>1 DEF statusOf
  <2>3. QED
    BY <2>2 DEF Init, Lifecycle!Init
<1>2. TypeOK /\ DeliveryInv /\ AttemptInv /\ [Next]_vars
         => [Lifecycle!Next]_(Lifecycle!lifecycleVars)
  <2> SUFFICES ASSUME TypeOK, DeliveryInv, AttemptInv, [Next]_vars,
                      ~(statusOf' = statusOf /\ attempts' = attempts)
               PROVE  Lifecycle!Next
    BY DEF Lifecycle!lifecycleVars
  <2>1. OnceInv
    BY DEF AttemptInv
  <2>2. ~UNCHANGED vars
    BY IdleStep DEF vars, redisVars, execVars, slotVars
  <2>3. ASSUME NEW t \in Tasks, Server(t) PROVE Lifecycle!Next
    <3>1. PICK q \in Queues : Publish(t, q)
      <4>1. ~(InsertRow(t) \/ DeleteRow(t) \/ SetCancel(t) \/ ExpireCancel(t))
        BY IdleStep DEF InsertRow, DeleteRow, SetCancel, ExpireCancel, redisVars, execVars, slotVars
      <4>2. \A q \in Queues : ~PublishFault(t, q)
        BY IdleStep DEF PublishFault, Fault, execVars, slotVars
      <4>3. QED
        BY <2>3, <4>1, <4>2 DEF Server
    <3>2. QED
      BY <2>1, <3>1, PublishStep DEF Lifecycle!Next
  <2>4. ASSUME NEW w \in Workers, Crash(w) \/ Restart(w) PROVE Lifecycle!Next
    <3>1. ~Restart(w)
      BY IdleStep DEF Restart, redisVars, slotVars
    <3>2. QED
      BY <2>1, <2>4, <3>1, CrashStep DEF Lifecycle!Next
  <2>5. ASSUME NEW w \in Workers, NEW s \in Slots, Step(w, s) \/ StepFault(w, s)
        PROVE  Lifecycle!Next
    <3>1. \/ StartRun(w, s) \/ Ack(w, s)
          \/ AckFault(w, s) /\ pc[w][s] = "ended"
      BY <2>5, QuietStep, DeliverStep DEF Step, StepFault, AckFault
    <3>2. CASE StartRun(w, s)
      BY <3>2, StartStep DEF Lifecycle!Next
    <3>3. CASE Ack(w, s)
      <4>1. PICK t : t = TaskOf(msg[w][s])
        OBVIOUS
      <4>2. t \in Tasks /\ (Lifecycle!Settle(t) \/ Lifecycle!Drop(t))
        BY <2>1, <3>3, <4>1, LetGo, OneMoves DEF Lifecycle!Settle, Lifecycle!Drop
      <4>3. QED
        BY <4>2 DEF Lifecycle!Next
    <3>4. CASE AckFault(w, s) /\ pc[w][s] = "ended"
      <4>1. PICK t : t = TaskOf(msg[w][s])
        OBVIOUS
      <4>2. /\ t \in Tasks /\ attempts' = attempts /\ statusOf[t] = "running"
            /\ \A u \in Tasks : statusOf'[u] = IF u = t THEN "pending" ELSE statusOf[u]
        BY <2>1, <3>4, <4>1, LetGo
      <4>3. statusOf' = [u \in Tasks |-> statusOf'[u]]
        BY DEF statusOf
      <4>4. statusOf' = [u \in Tasks |-> IF u \in {t} THEN "pending" ELSE statusOf[u]]
        BY <4>2, <4>3
      <4>5. Lifecycle!Requeue({t})
        BY <4>2, <4>4 DEF Lifecycle!Requeue
      <4>6. QED
        BY <4>2, <4>5 DEF Lifecycle!Next
    <3>5. QED
      BY <3>1, <3>2, <3>3, <3>4
  <2>6. QED
    BY <2>2, <2>3, <2>4, <2>5 DEF Next
<1>3. QED
  BY <1>1, <1>2, AttemptInvariant, PTL DEF Spec, KeepsLifecycle, Lifecycle!Spec
=============================================================================
