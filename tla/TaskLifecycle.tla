---------------------------- MODULE TaskLifecycle ----------------------------
(***************************************************************************)
(* What the ingestion queue of RAGFlow promises about one parsing task:    *)
(* it is handed to one worker at a time, it is started again only while    *)
(* it is unsettled, at most MaxAttempts times when it is fetched through   *)
(* get_task, and once it is settled (acknowledged to Redis) no worker ever *)
(* sees it again.                                                          *)
(* TaskQueue implements this; DocumentParse builds on it.                  *)
(***************************************************************************)
EXTENDS Naturals

CONSTANTS Tasks,        \* task ids
          Uncounted,    \* those that are fetched without get_task
          MaxAttempts   \* the bound of TaskService.get_task: 3

VARIABLES status,    \* per task: where it stands
          attempts   \* per task: how often a worker was given it

lifecycleVars == <<status, attempts>>

Status == {"absent", "pending", "running", "settled"}

LifecycleTypeOK == /\ status \in [Tasks -> Status]
                   /\ attempts \in [Tasks -> Nat]
                   /\ \A t \in Tasks \ Uncounted : attempts[t] <= MaxAttempts

Init == /\ status = [t \in Tasks |-> "absent"]
        /\ attempts = [t \in Tasks |-> 0]

Move(t, from, to) == /\ status[t] = from
                     /\ status' = [status EXCEPT ![t] = to]

\* queue_product put the message into the stream.
Publish(t) == Move(t, "absent", "pending") /\ UNCHANGED attempts

\* collect handed the task to a coroutine that runs it.
Start(t) == /\ Move(t, "pending", "running")
            /\ t \in Uncounted \/ attempts[t] < MaxAttempts
            /\ attempts' = [attempts EXCEPT ![t] = @ + 1]

\* The worker died with what it was running, or an acknowledgement was lost: the
\* messages will come again.
Requeue(S) == /\ S # {} /\ \A t \in S : status[t] = "running"
              /\ status' = [t \in Tasks |-> IF t \in S THEN "pending" ELSE status[t]]
              /\ UNCHANGED attempts

\* The worker ran the task to its end, well or badly, and acknowledged it.
Settle(t) == Move(t, "running", "settled") /\ UNCHANGED attempts

\* collect acknowledged a task it does not run: unknown, cancelled, exhausted.
Drop(t) == Move(t, "pending", "settled") /\ UNCHANGED attempts

Next == \/ \E t \in Tasks : Publish(t) \/ Start(t) \/ Settle(t) \/ Drop(t)
        \/ \E S \in SUBSET Tasks : Requeue(S)

Spec == Init /\ [][Next]_lifecycleVars
=============================================================================
