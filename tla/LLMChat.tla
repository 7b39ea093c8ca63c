------------------------------ MODULE LLMChat ------------------------------
(* One call of a chat model (rag/llm/chat_model.py): async_chat,           *)
(* async_chat_streamly and their _with_tools variants, of the classes Base *)
(* (OpenAI clients) and LiteLLMBase.  The endpoint may fail at any point   *)
(* of any response, with an error that is retried or one that is not; it   *)
(* answers with text, tool calls, or neither.                              *)
EXTENDS Naturals, Sequences

CONSTANTS
    MaxRetries, \* max_retries
    MaxRounds,  \* max_rounds
    MaxCalls    \* bound: tool calls in one response

ASSUME ChatAssumption ==
    MaxRetries \in Nat /\ MaxRounds \in Nat /\ MaxCalls \in Nat \ {0}

VARIABLES
    call,    \* what was called: [lite, stream, tools]
    callAt,      \* where the call is
    attempt, \* of the for loop over retries
    round,   \* of the tool loop
    inner,   \* attempt of async_chat within LiteLLM's fallback
    history, \* the messages sent
    got,     \* this response brought text
    answer   \* what was yielded, or collected in ans
chatVars == <<call, callAt, attempt, round, inner, history, got, answer>>

User       == [role |-> "user", calls |-> 0]
ToolOf(i)  == [role |-> "tool", calls |-> i]
CallsOf(n) == [role |-> "assistant", calls |-> n]
Start      == <<User>>

ChatInit ==
    /\ call \in [lite : BOOLEAN, stream : BOOLEAN, tools : BOOLEAN]
    /\ callAt = "ask" /\ attempt = 0 /\ round = 0 /\ inner = 0
    /\ history = Start /\ got = FALSE /\ answer = <<>>

-----------------------------------------------------------------------------
(* What the endpoint demands of the messages, as _append_history_batch      *)
(* says: tool calls, followed by one tool message per call.                 *)

Paired(h) ==
    \A i \in DOMAIN h : h[i].role = "assistant" =>
        /\ i + h[i].calls <= Len(h)
        /\ \A k \in 1 .. h[i].calls : h[i + k] = ToolOf(k)

Accepted(h) ==
    Paired(h) /\ \A i \in DOMAIN h : h[i].role = "assistant" => h[i].calls > 0

-----------------------------------------------------------------------------
(* Ends.                                                                    *)

Yield(s) == answer' = answer \o s

\* The token count is the last item of a stream; the bundle stops at it.
Finish(s) ==
    /\ callAt' = "ended"
    /\ answer' = IF call.stream THEN answer \o s \o <<"tokens">> ELSE answer \o s
    /\ UNCHANGED <<attempt, round, inner, history, got>>

\* _exceptions_async tells to give up: the error is yielded, or returned in
\* place of what was collected.
TellErrorGoesOn ==
    /\ callAt' = "ask" /\ attempt' = attempt + 1 /\ round' = 0 /\ got' = FALSE
    /\ history' = Start
    /\ answer' = answer \o <<"error", "tokens">>
    /\ UNCHANGED inner

TellError ==
    /\ callAt' = "ended"
    /\ answer' = IF call.stream THEN answer \o <<"error", "tokens">>
                                ELSE <<"error">>
    /\ UNCHANGED <<attempt, round, inner, history, got>>

\* The last attempt is never retried, whatever its error.
LastAttempt(n) == n = MaxRetries

\* A retry starts again with a copy of the history; what was yielded or
\* collected stays.  Past the last attempt: "Shouldn't be here."
Except(retryable) ==
    IF retryable /\ ~LastAttempt(attempt)
      THEN /\ callAt' = IF attempt < MaxRetries THEN "ask" ELSE "fell"
           /\ attempt' = attempt + 1 /\ round' = 0 /\ got' = FALSE
           /\ history' = Start
           /\ UNCHANGED <<inner, answer>>
      ELSE TellError

-----------------------------------------------------------------------------
(* A request and its response.                                              *)

\* RATE_LIMIT and SERVER are retried; an ill-formed request is not.
Refused ==
    \/ \E retryable \in BOOLEAN : Accepted(history) /\ Except(retryable)
    \/ ~Accepted(history) /\ Except(FALSE)

\* Streams: the response begins.
AskStream ==
    /\ callAt = "ask" /\ call.stream
    /\ \/ Refused
       \/ /\ Accepted(history) /\ callAt' = "stream" /\ got' = FALSE
          /\ UNCHANGED <<attempt, round, inner, history, answer>>
    /\ UNCHANGED call

\* Otherwise the response is there at once: text, nothing (async_chat takes
\* it for an empty answer, async_chat_with_tools of Base fails on the None),
\* tool calls, or no choices at all ("500 response structure error").
AskOnce ==
    /\ callAt = "ask" /\ ~call.stream
    /\ \/ Refused
       \/ Accepted(history) /\ Finish(<<"text">>)
       \/ /\ Accepted(history)
          /\ IF call.tools /\ ~call.lite THEN Except(FALSE) ELSE Finish(<<>>)
       \/ Accepted(history) /\ call.tools /\ Except(TRUE)
       \/ /\ Accepted(history) /\ call.tools
          /\ \E n \in 1 .. MaxCalls : callAt' = "tools" /\ inner' = n
          /\ UNCHANGED <<attempt, round, history, got, answer>>
    /\ UNCHANGED call

Delta ==
    /\ callAt \in {"stream", "last stream"} /\ ~got
    /\ got' = TRUE /\ Yield(<<"text">>)
    /\ UNCHANGED <<call, callAt, attempt, round, inner, history>>

StreamFails ==
    /\ callAt \in {"stream", "last stream"}
    /\ \E retryable \in BOOLEAN : Except(retryable)
    /\ UNCHANGED call

\* The stream ends: a text without tool calls is the answer; otherwise the
\* tool calls are executed, be there any or not.
StreamEnds ==
    /\ callAt \in {"stream", "last stream"}
    /\ \/ /\ ~call.tools \/ callAt = "last stream" \/ got
          /\ Finish(<<>>)
       \/ /\ call.tools /\ callAt = "stream"
          /\ \E n \in 0 .. MaxCalls : (n = 0 => ~got) /\ callAt' = "tools" /\ inner' = n
          /\ UNCHANGED <<attempt, round, history, got, answer>>
    /\ UNCHANGED call

\* Mutant: a tool that failed has no tool message.
BatchOfResults(n, failed) ==
    <<CallsOf(n)>> \o SelectSeq([k \in 1 .. n |-> ToolOf(k)],
                                LAMBDA m : m.calls \notin failed)

\* _append_history_batch: an error takes the place of a result.
Batch(n, failed) == <<CallsOf(n)>> \o [k \in 1 .. n |-> ToolOf(k)]

\* The tools run side by side; inner holds their number here.
RunTools ==
    /\ callAt = "tools"
    /\ \E failed \in SUBSET (1 .. inner) :
         LET h == history \o Batch(inner, failed)
         IN  IF round < MaxRounds
               THEN callAt' = "ask" /\ round' = round + 1 /\ history' = h
               ELSE callAt' = "last" /\ round' = round /\ history' = Append(h, User)
    /\ Yield([k \in 1 .. inner |-> "tool"])
    /\ inner' = 0 /\ got' = FALSE
    /\ UNCHANGED <<call, attempt>>

\* After max_rounds: one more request.  A stream may not call tools any
\* more; Base's _async_chat raises into the loop over attempts; LiteLLM's
\* async_chat retries by itself and returns an error as if it were text.
LastStream ==
    /\ callAt = "last" /\ call.stream
    /\ \/ Refused
       \/ /\ Accepted(history) /\ callAt' = "last stream"
          /\ UNCHANGED <<attempt, round, inner, history, got, answer>>
    /\ UNCHANGED call

LastOfBase ==
    /\ callAt = "last" /\ ~call.stream /\ ~call.lite
    /\ Refused \/ (Accepted(history) /\ \E s \in {<<>>, <<"text">>} : Finish(s))
    /\ UNCHANGED call

LastOfLite ==
    /\ callAt = "last" /\ ~call.stream /\ call.lite
    /\ \/ \E s \in {<<>>, <<"text">>, <<"error">>} : Finish(s)
       \/ /\ ~LastAttempt(inner) /\ inner' = inner + 1
          /\ UNCHANGED <<callAt, attempt, round, history, got, answer>>
    /\ UNCHANGED call

ChatNext ==
    \/ AskStream \/ AskOnce \/ Delta \/ StreamFails \/ StreamEnds
    \/ RunTools \/ LastStream \/ LastOfBase \/ LastOfLite

ChatSpec == ChatInit /\ [][ChatNext]_chatVars

-----------------------------------------------------------------------------

(* The counters of the loops stay within their ranges                      *)
(* (async_chat_with_tools, async_chat_streamly_with_tools).                *)
ChatTypeOK ==
    /\ call \in [lite : BOOLEAN, stream : BOOLEAN, tools : BOOLEAN]
    /\ callAt \in {"ask", "stream", "tools", "last", "last stream", "ended", "fell"}
    /\ attempt \in 0 .. MaxRetries + 1 /\ round \in 0 .. MaxRounds
    /\ inner \in 0 .. MaxCalls + MaxRetries /\ got \in BOOLEAN
    /\ Len(history) <= 2 + (MaxRounds + 1) * (MaxCalls + 1)

(* Whatever tools fail and however often the call is tried again, every    *)
(* tool call sent to the model is followed by its one tool message, in     *)
(* order (_append_history_batch, the deepcopy of hist per attempt).        *)
HistoryIsPaired == Paired(history)

(* A stream closes with exactly one token count and nothing after it, and  *)
(* says at most one error, right before it: LLMBundle stops at the count   *)
(* and would lose what follows (async_chat_streamly).                      *)
StreamIsClosed ==
    call.stream =>
        \A i \in DOMAIN answer :
          /\ answer[i] = "tokens" => i = Len(answer) /\ callAt = "ended"
          /\ answer[i] = "error" => i + 1 = Len(answer) /\ callAt = "ended"

=============================================================================
