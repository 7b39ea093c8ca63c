----------------------------- MODULE McpSession -----------------------------
(* A session with an MCP server (MCPToolCallSession,                        *)
(* common/mcp_tool_call_conn.py).  Threads call tool_call or get_tools and  *)
(* block on a future; a thread of the session runs an event loop with their *)
(* coroutines and one task that takes requests from a queue and talks to    *)
(* the server; close_multiple_mcp_toolcall_sessions closes it from outside. *)
EXTENDS Naturals, Sequences, FiniteSets, SequencesExt

CONSTANTS
    Requests,   \* calls of tool_call or get_tools, each from its own thread
    Closers,    \* calls of close
    MaxBreaks,  \* bound: connections that break
    NoRequest

ASSUME SessionAssumption ==
    IsFiniteSet(Requests) /\ IsFiniteSet(Closers) /\ MaxBreaks \in Nat
    /\ NoRequest \notin Requests

ASSUME SessionNames == {"none", "exception", "cancelled"} \cap Requests = {}

VARIABLES
    caller,    \* the thread of a call: where it is, what it is told
    routine,   \* the coroutine of a call on the session's loop
    results,   \* the result queue of a call: whose result it holds
    requestQueue,     \* requests for the server task
    serverTask,    \* the server task: "connect", "serve", "refuse", "over"
    listening, \* the server task is in queue.get()
    atWork,    \* the request the server task waits for
    executed,  \* requests that reached the MCP server
    closed,    \* _close
    loop,      \* the event loop: "runs", "stops", "stopped"
    closer,    \* where a call of close is
    breaks
sessionVars == <<caller, routine, results, requestQueue, serverTask, listening, atWork, executed,
                 closed, loop, closer, breaks>>

Told == {"result", "wrong", "error", "timeout", "closed"}
None == "none"

SessionInit ==
    /\ caller = [r \in Requests |-> "idle"]
    /\ routine = [r \in Requests |-> "none"]
    /\ results = [r \in Requests |-> None]
    /\ requestQueue = <<>> /\ serverTask = "connect"
    /\ listening = FALSE /\ atWork = NoRequest
    /\ executed = {} /\ closed = FALSE /\ loop = "runs"
    /\ closer = [c \in Closers |-> "idle"] /\ breaks = 0

-----------------------------------------------------------------------------
(* The calling threads.                                                     *)

\* tool_call looks at _close, then submits the coroutine.
Call(r) ==
    /\ caller[r] = "idle"
    /\ caller' = [caller EXCEPT ![r] = IF closed THEN "closed" ELSE "checked"]
    /\ UNCHANGED <<routine, results, requestQueue, serverTask, listening, atWork, executed, closed,
                   loop, closer, breaks>>

Submit(r) ==
    /\ caller[r] = "checked"
    /\ caller' = [caller EXCEPT ![r] = "blocked"]
    /\ routine' = [routine EXCEPT ![r] = "scheduled"]
    /\ UNCHANGED <<results, requestQueue, serverTask, listening, atWork, executed, closed, loop,
                   closer, breaks>>

\* Mutant: the thread waits for its coroutine without a timeout of its own.
TimesOutIfRuns(r) ==
    /\ caller[r] = "blocked" /\ loop = "runs"
    /\ caller' = [caller EXCEPT ![r] = "timeout"]
    /\ UNCHANGED <<routine, results, requestQueue, serverTask, listening, atWork, executed, closed,
                   loop, closer, breaks>>

\* future.result(timeout): the call goes on without its thread.
TimesOut(r) ==
    /\ caller[r] = "blocked"
    /\ caller' = [caller EXCEPT ![r] = "timeout"]
    /\ UNCHANGED <<routine, results, requestQueue, serverTask, listening, atWork, executed, closed,
                   loop, closer, breaks>>

-----------------------------------------------------------------------------
(* The coroutines of the calls, on the loop of the session.                 *)

\* The coroutine is over; its thread, if it still waits, is told.
Over(r, what) ==
    /\ routine' = [routine EXCEPT ![r] = "over"]
    /\ caller' = [caller EXCEPT ![r] = IF @ = "blocked" THEN what ELSE @]

\* _call_mcp_server: _close once more, which another thread may set before
\* the request is put.
Recheck(r) ==
    /\ loop # "stopped" /\ routine[r] = "scheduled"
    /\ IF closed THEN Over(r, "error")
                 ELSE routine' = [routine EXCEPT ![r] = "puts"] /\ UNCHANGED caller
    /\ UNCHANGED <<results, requestQueue, serverTask, listening, atWork, executed, closed,
                   loop, closer, breaks>>

PutRequest(r) ==
    /\ loop # "stopped" /\ routine[r] = "puts"
    /\ requestQueue' = Append(requestQueue, r)
    /\ routine' = [routine EXCEPT ![r] = "waits"]
    /\ UNCHANGED <<caller, results, serverTask, listening, atWork, executed, closed,
                   loop, closer, breaks>>

\* results.get(): an exception is raised; the CancelledError a closing
\* session puts is none, and fails where an attribute of it is read.
GetResult(r) ==
    /\ loop # "stopped" /\ routine[r] = "waits" /\ results[r] # None
    /\ Over(r, CASE results[r] = r -> "result"
                 [] results[r] \in Requests \ {r} -> "wrong"
                 [] OTHER -> "error")
    /\ results' = [results EXCEPT ![r] = None]
    /\ UNCHANGED <<requestQueue, serverTask, listening, atWork, executed, closed, loop, closer, breaks>>

\* asyncio.wait_for(results.get(), timeout).
WaitTimesOut(r) ==
    /\ loop # "stopped" /\ routine[r] = "waits"
    /\ Over(r, "timeout")
    /\ UNCHANGED <<results, requestQueue, serverTask, listening, atWork, executed, closed, loop,
                   closer, breaks>>

-----------------------------------------------------------------------------
(* The server task: _mcp_server_loop and _process_mcp_tasks.                *)

Connect ==
    /\ loop # "stopped" /\ serverTask = "connect"
    /\ serverTask' \in {"serve", "refuse"}
    /\ UNCHANGED <<caller, routine, results, requestQueue, listening, atWork, executed, closed,
                   loop, closer, breaks>>

\* Mutant: one queue of results for all calls.
AnswerToFirst(r, what) ==
    LET waiting == {x \in Requests : routine[x] = "waits" /\ results[x] = None}
    IN  IF waiting = {} THEN UNCHANGED results
        ELSE results' = [results EXCEPT ![CHOOSE x \in waiting : TRUE] = what]

\* Every request brings its own queue for the result.
AnswerTo(r, what) == results' = [results EXCEPT ![r] = what]

\* while not self._close: queue.get(), a second at a time.
Listen ==
    /\ loop # "stopped" /\ serverTask \in {"serve", "refuse"} /\ atWork = NoRequest
    /\ listening' = ~listening /\ (closed => listening)
    /\ UNCHANGED <<caller, routine, results, requestQueue, serverTask, atWork, executed,
                   closed, loop, closer, breaks>>

\* Mutant: the next request is taken while this one is at work.
TakeRequestAndListen ==
    /\ loop # "stopped" /\ listening /\ requestQueue # <<>> /\ serverTask = "serve"
    /\ requestQueue' = Tail(requestQueue)
    /\ atWork' = Head(requestQueue)
    /\ executed' = executed \cup {Head(requestQueue)}
    /\ UNCHANGED <<caller, routine, results, serverTask, listening, closed, loop, closer,
                   breaks>>

\* _process_mcp_tasks: a request is refused or carried out, one at a time.
TakeRequest ==
    /\ loop # "stopped" /\ listening /\ requestQueue # <<>>
    /\ listening' = FALSE /\ requestQueue' = Tail(requestQueue)
    /\ \/ /\ serverTask = "refuse"
          /\ AnswerTo(Head(requestQueue), "exception")
          /\ UNCHANGED <<atWork, executed>>
       \/ /\ serverTask = "serve"
          /\ atWork' = Head(requestQueue)
          /\ executed' = executed \cup {Head(requestQueue)}
          /\ UNCHANGED results
    /\ UNCHANGED <<caller, routine, serverTask, closed, loop, closer, breaks>>

\* The MCP server answers, or call_tool raises.
Answer ==
    /\ loop # "stopped" /\ atWork # NoRequest
    /\ \E what \in {atWork, "exception"} : AnswerTo(atWork, what)
    /\ atWork' = NoRequest
    /\ UNCHANGED <<caller, routine, requestQueue, serverTask, listening, executed, closed, loop,
                   closer, breaks>>

\* The connection breaks and cancels the task: what it waits for gets no
\* answer; from now on requests are refused, or nobody takes them.
Break ==
    /\ loop # "stopped" /\ serverTask = "serve" /\ breaks < MaxBreaks
    /\ breaks' = breaks + 1 /\ serverTask' \in {"refuse", "over"}
    /\ atWork' = NoRequest /\ listening' = FALSE
    /\ UNCHANGED <<caller, routine, results, requestQueue, executed, closed, loop,
                   closer>>

\* while not self._close.
ServerEnds ==
    /\ loop # "stopped" /\ closed /\ atWork = NoRequest /\ ~listening
    /\ serverTask \in {"serve", "refuse"} /\ serverTask' = "over"
    /\ UNCHANGED <<caller, routine, results, requestQueue, listening, atWork, executed, closed,
                   loop, closer, breaks>>

\* loop.stop() takes effect once the loop has run what is ready.
LoopStops ==
    /\ loop = "stops" /\ loop' = "stopped"
    /\ UNCHANGED <<caller, routine, results, requestQueue, serverTask, listening, atWork, executed,
                   closed, closer, breaks>>

-----------------------------------------------------------------------------
(* close, on the loop of close_multiple_mcp_toolcall_sessions.              *)

\* Two threads may both find the session open.
Close(c) ==
    /\ closer[c] = "idle"
    /\ closer' = [closer EXCEPT ![c] = IF closed THEN "returned" ELSE "closes"]
    /\ UNCHANGED <<caller, routine, results, requestQueue, serverTask, listening, atWork, executed,
                   closed, loop, breaks>>

SetClose(c) ==
    /\ closer[c] = "closes"
    /\ closed' = TRUE /\ closer' = [closer EXCEPT ![c] = "drains"]
    /\ UNCHANGED <<caller, routine, results, requestQueue, serverTask, listening, atWork, executed,
                   loop, breaks>>

\* Every request left is answered with a CancelledError; stop() does nothing to a loop that
\* has stopped.
Drain(c) ==
    /\ closer[c] = "drains"
    /\ IF requestQueue = <<>>
         THEN /\ closer' = [closer EXCEPT ![c] = "joins"] /\ loop' = IF loop = "stopped" THEN loop ELSE "stops"
              /\ UNCHANGED <<requestQueue, results>>
         ELSE /\ requestQueue' = Tail(requestQueue)
              /\ results' = [results EXCEPT ![Head(requestQueue)] = "cancelled"]
              /\ UNCHANGED <<closer, loop>>
    /\ UNCHANGED <<caller, routine, serverTask, listening, atWork, executed, closed, breaks>>

\* Mutant: thread_pool.shutdown(wait=False).
JoinEarly(c) ==
    /\ closer[c] = "joins"
    /\ closer' = [closer EXCEPT ![c] = "done"]
    /\ UNCHANGED <<caller, routine, results, requestQueue, serverTask, listening, atWork, executed,
                   closed, loop, breaks>>

\* thread_pool.shutdown(wait=True): the thread of the loop has ended.
Join(c) ==
    /\ closer[c] = "joins" /\ loop = "stopped"
    /\ closer' = [closer EXCEPT ![c] = "done"]
    /\ UNCHANGED <<caller, routine, results, requestQueue, serverTask, listening, atWork, executed,
                   closed, loop, breaks>>

SessionLoop ==
    \/ Connect \/ Listen \/ TakeRequest \/ ServerEnds \/ LoopStops
    \/ \E r \in Requests : Recheck(r) \/ PutRequest(r) \/ GetResult(r) \/ WaitTimesOut(r)

SessionNext ==
    \/ SessionLoop \/ Answer \/ Break
    \/ \E r \in Requests : Call(r) \/ Submit(r) \/ TimesOut(r)
    \/ \E c \in Closers : Close(c) \/ SetClose(c) \/ Drain(c) \/ Join(c)

\* The calling and the closing threads run, and the loop stops when told to;
\* nothing is assumed of the MCP server.
SessionSpec ==
    /\ SessionInit /\ [][SessionNext]_sessionVars
    /\ WF_sessionVars(LoopStops)
    /\ \A r \in Requests : WF_sessionVars(Submit(r)) /\ WF_sessionVars(TimesOut(r))
    /\ \A c \in Closers :
         WF_sessionVars(SetClose(c)) /\ WF_sessionVars(Drain(c)) /\ WF_sessionVars(Join(c))

-----------------------------------------------------------------------------

(* Types; a request is in the queue at most once, and only of a call whose *)
(* coroutine put it there (_call_mcp_server).                              *)
SessionTypeOK ==
    /\ caller \in [Requests -> {"idle", "checked", "blocked"} \cup Told]
    /\ routine \in [Requests -> {"none", "scheduled", "puts", "waits", "over"}]
    /\ results \in [Requests -> Requests \cup {None, "exception", "cancelled"}]
    /\ requestQueue \in Seq(Requests) /\ IsInjective(requestQueue)
    /\ \A r \in Range(requestQueue) : routine[r] \in {"waits", "over"}
    /\ serverTask \in {"connect", "serve", "refuse", "over"}
    /\ (listening => atWork = NoRequest)
    /\ atWork \in Requests \cup {NoRequest} /\ executed \subseteq Requests
    /\ closed \in BOOLEAN /\ loop \in {"runs", "stops", "stopped"}
    /\ closer \in [Closers -> {"idle", "closes", "drains", "joins", "done", "returned"}]
    /\ breaks \in 0 .. MaxBreaks

(* However late the server answers a call that timed out, nobody is given  *)
(* the result of another call (results of _call_mcp_server), and a result  *)
(* is only told when the tool was run.                                     *)
OwnAnswer ==
    \A r \in Requests :
      caller[r] # "wrong" /\ (caller[r] = "result" => r \in executed)

(* Once close has returned to one who closed the session, no tool is       *)
(* started any more (close: stop, then shutdown(wait=True)); a close that  *)
(* finds the session closing returns before that.                          *)
ClosedIsQuiet ==
    [][(\E c \in Closers : closer[c] = "done") => executed' = executed]_sessionVars

(* Every call and every close returns, although the server may never       *)
(* answer, the connection may break, and the loop may stop under a call    *)
(* (future.result(timeout), shutdown).                                     *)
AllReturn ==
    /\ \A r \in Requests : caller[r] = "checked" ~> caller[r] \in Told
    /\ \A c \in Closers : closer[c] = "closes" ~> closer[c] = "done"

=============================================================================
