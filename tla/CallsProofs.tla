------------------------------ MODULE CallsProofs ------------------------------
(***************************************************************************)
(* Parts that carry a call to its end: a chat model's call, a session with *)
(* an MCP server, the task service of MinerU.  They share no state, and    *)
(* each has its own invariant and its own theorems.                        *)
(***************************************************************************)
EXTENDS MCCalls, CanvasProofs

------------------------------------------------------------------------------
(***************************************************************************)
(* A call of a chat model for any number of retries, rounds and tool calls *)
(* in a response.                                                          *)
(***************************************************************************)

Messages == [role : {"user", "assistant", "tool"}, calls : Nat]
Pieces == {"text", "tool", "error", "tokens"}

LEMMA ChatCases ==
    ASSUME ChatNext,
           NEW P,
           AskStream => P, AskOnce => P, Delta => P, StreamFails => P, StreamEnds => P,
           RunTools => P, LastStream => P, LastOfBase => P, LastOfLite => P
    PROVE  P
BY DEF ChatNext

----------------------------------------------------------------------------
(* The history *)

HistoryOK == history \in Seq(Messages) /\ inner \in Nat /\ Paired(history)

LEMMA StartIsPaired == Start \in Seq(Messages) /\ Paired(Start)
BY DEF Start, User, Messages, Paired

\* _append_history_batch: the calls of one response, with a tool message for each.
LEMMA BatchIsPaired ==
    ASSUME NEW h \in Seq(Messages), Paired(h), NEW n \in Nat, NEW lost
    PROVE  /\ h \o Batch(n, lost) \in Seq(Messages) /\ Paired(h \o Batch(n, lost))
           /\ Len(h \o Batch(n, lost)) = Len(h) + n + 1
<1> DEFINE b == Batch(n, lost)
<1>1. /\ b \in Seq(Messages) /\ Len(b) = n + 1
      /\ b[1] = CallsOf(n) /\ \A k \in 1 .. n : b[k + 1] = ToolOf(k)
  BY DEF Batch, CallsOf, ToolOf, Messages
<1> HIDE DEF b
<1>2. /\ h \o b \in Seq(Messages) /\ Len(h \o b) = Len(h) + n + 1
      /\ \A i \in 1 .. Len(h) : (h \o b)[i] = h[i]
      /\ \A k \in 1 .. n + 1 : (h \o b)[Len(h) + k] = b[k]
  BY <1>1
<1>3. ASSUME NEW i \in DOMAIN (h \o b), (h \o b)[i].role = "assistant"
      PROVE  /\ i + (h \o b)[i].calls <= Len(h \o b)
             /\ \A k \in 1 .. (h \o b)[i].calls : (h \o b)[i + k] = ToolOf(k)
  <2>0. i \in 1 .. Len(h) + n + 1 /\ Len(h) \in Nat
    BY <1>2, <1>3
  <2>1. CASE i <= Len(h)
    <3>0. i \in DOMAIN h /\ h[i] \in Messages /\ (h \o b)[i] = h[i]
      BY <1>2, <2>0, <2>1
    <3>1. /\ h[i].calls \in Nat /\ i + h[i].calls <= Len(h)
          /\ \A k \in 1 .. h[i].calls : h[i + k] = ToolOf(k)
      <4>1. h[i].calls \in Nat
        BY <3>0 DEF Messages
      <4> QED
        BY <1>3, <3>0, <4>1 DEF Paired
    <3>2. ASSUME NEW k \in 1 .. h[i].calls PROVE (h \o b)[i + k] = ToolOf(k)
      BY <1>2, <2>0, <3>1
    <3> QED
      BY <1>2, <2>0, <3>0, <3>1, <3>2
  <2>2. CASE i > Len(h)
    <3>1. PICK k \in 1 .. n + 1 : i = Len(h) + k
      <4>1. i - Len(h) \in 1 .. n + 1 /\ i = Len(h) + (i - Len(h))
        BY <2>0, <2>2
      <4> QED
        BY <4>1
    <3>2. (h \o b)[i] = b[k]
      BY <1>2, <3>1
    <3>3. k = 1
      <4>1. k # 1 => k - 1 \in 1 .. n /\ b[(k - 1) + 1] = ToolOf(k - 1)
        BY <1>1
      <4> QED
        BY <4>1, <3>2, <1>3 DEF ToolOf
    <3>4. (h \o b)[i].calls = n /\ i = Len(h) + 1
      BY <1>1, <3>1, <3>2, <3>3 DEF CallsOf
    <3>5. ASSUME NEW m \in 1 .. n PROVE (h \o b)[i + m] = ToolOf(m)
      <4>1. m + 1 \in 1 .. n + 1 /\ i + m = Len(h) + (m + 1)
        BY <3>4
      <4> QED
        BY <1>1, <1>2, <4>1
    <3> QED
      BY <1>2, <3>4, <3>5
  <2>3. i <= Len(h) \/ i > Len(h)
    BY <2>0
  <2> QED
    BY <2>1, <2>2, <2>3
<1> QED
  BY <1>2, <1>3 DEF Paired, b

LEMMA UserIsPaired ==
    ASSUME NEW h \in Seq(Messages), Paired(h)
    PROVE  Append(h, User) \in Seq(Messages) /\ Paired(Append(h, User))
<1>1. ASSUME NEW i \in DOMAIN h, h[i].role = "assistant"
      PROVE  /\ h[i].calls \in Nat /\ i + h[i].calls <= Len(h)
             /\ \A k \in 1 .. h[i].calls : h[i + k] = ToolOf(k)
  <2>1. h[i] \in Messages
    OBVIOUS
  <2>2. h[i].calls \in Nat
    BY <2>1 DEF Messages
  <2> QED
    BY <1>1, <2>2 DEF Paired
<1>2. Append(h, User) \in Seq(Messages) /\ User.role = "user"
  BY DEF User, Messages
<1> QED
  BY <1>1, <1>2 DEF Paired

LEMMA ExceptKeepsHistory ==
    ASSUME HistoryOK, NEW b, Except(b) PROVE HistoryOK'
BY StartIsPaired DEF HistoryOK, Except, TellError, Paired

LEMMA FinishKeepsHistory ==
    ASSUME HistoryOK, NEW s, Finish(s) PROVE HistoryOK'
BY DEF HistoryOK, Finish, Paired

LEMMA HistoryAlways == ChatSpec => []HistoryOK
<1>1. ChatInit => HistoryOK
  BY StartIsPaired DEF ChatInit, HistoryOK
<1>2. HistoryOK /\ [ChatNext]_chatVars => HistoryOK'
  <2> SUFFICES ASSUME HistoryOK, ChatNext PROVE HistoryOK'
    BY DEF HistoryOK, Paired, chatVars
  <2> USE ChatAssumption
  <2>0. Refused => HistoryOK'
    BY ExceptKeepsHistory DEF Refused
  <2>1. AskStream => HistoryOK'
    BY <2>0 DEF AskStream, HistoryOK, Paired
  <2>2. ASSUME AskOnce PROVE HistoryOK'
    <3>1. ASSUME NEW n \in 1 .. MaxCalls, inner' = n, UNCHANGED history PROVE HistoryOK'
      BY <3>1 DEF HistoryOK, Paired
    <3> QED
      BY <2>2, <2>0, <3>1, ExceptKeepsHistory, FinishKeepsHistory DEF AskOnce
  <2>3. Delta => HistoryOK'
    BY DEF Delta, HistoryOK, Paired
  <2>4. StreamFails => HistoryOK'
    BY ExceptKeepsHistory DEF StreamFails
  <2>5. ASSUME StreamEnds PROVE HistoryOK'
    <3>1. ASSUME NEW n \in 0 .. MaxCalls, inner' = n, UNCHANGED history PROVE HistoryOK'
      BY <3>1 DEF HistoryOK, Paired
    <3> QED
      BY <2>5, <3>1, FinishKeepsHistory DEF StreamEnds
  <2>6. ASSUME RunTools PROVE HistoryOK'
    <3>1. PICK lost : LET h == history \o Batch(inner, lost)
                        IN  history' = h \/ history' = Append(h, User)
      BY <2>6 DEF RunTools
    <3>2. /\ history \o Batch(inner, lost) \in Seq(Messages)
          /\ Paired(history \o Batch(inner, lost))
      BY BatchIsPaired DEF HistoryOK
    <3>3. history' \in Seq(Messages) /\ Paired(history')
      BY <3>1, <3>2, UserIsPaired
    <3> QED
      BY <2>6, <3>3 DEF RunTools, HistoryOK, Paired
  <2>7. LastStream => HistoryOK'
    BY <2>0 DEF LastStream, HistoryOK, Paired
  <2>8. LastOfBase => HistoryOK'
    BY <2>0, FinishKeepsHistory DEF LastOfBase
  <2>9. ASSUME LastOfLite PROVE HistoryOK'
    <3>1. ASSUME inner' = inner + 1, UNCHANGED history PROVE HistoryOK'
      BY <3>1 DEF HistoryOK, Paired
    <3> QED
      BY <2>9, <3>1, FinishKeepsHistory DEF LastOfLite
  <2> QED
    BY <2>1, <2>2, <2>3, <2>4, <2>5, <2>6, <2>7, <2>8, <2>9, ChatCases
<1> QED
  BY <1>1, <1>2, PTL DEF ChatSpec

\* _append_history_batch, and the copy of hist each attempt starts from: what is
\* sent never has a tool call without its message.
THEOREM Pairs == ChatSpec => []HistoryIsPaired
<1>1. HistoryOK => HistoryIsPaired
  BY DEF HistoryOK, HistoryIsPaired
<1> QED
  BY <1>1, HistoryAlways, PTL
----------------------------------------------------------------------------
(* The stream *)

\* What was yielded before the end, and after it.
StreamOK ==
    call.stream =>
        /\ answer \in Seq(Pieces)
        /\ callAt # "ended" => \A i \in DOMAIN answer : answer[i] \in {"text", "tool"}
        /\ StreamIsClosed

LEMMA CloseWith ==
    ASSUME NEW a \in Seq(Pieces), \A i \in DOMAIN a : a[i] \in {"text", "tool"},
           NEW e \in {<<"tokens">>, <<"error", "tokens">>}
    PROVE  /\ a \o e \in Seq(Pieces)
           /\ \A i \in DOMAIN (a \o e) :
                 /\ (a \o e)[i] = "tokens" => i = Len(a \o e)
                 /\ (a \o e)[i] = "error" => i + 1 = Len(a \o e)
<1>1. /\ a \o <<"tokens">> \in Seq(Pieces) /\ Len(a \o <<"tokens">>) = Len(a) + 1
      /\ \A i \in 1 .. Len(a) : (a \o <<"tokens">>)[i] = a[i]
  BY DEF Pieces
<1>2. /\ a \o <<"error", "tokens">> \in Seq(Pieces)
      /\ Len(a \o <<"error", "tokens">>) = Len(a) + 2
      /\ \A i \in 1 .. Len(a) : (a \o <<"error", "tokens">>)[i] = a[i]
      /\ (a \o <<"error", "tokens">>)[Len(a) + 2] = "tokens"
      /\ (a \o <<"error", "tokens">>)[Len(a) + 1] = "error"
  BY DEF Pieces
<1>3. CASE e = <<"tokens">>
  BY <1>1, <1>3
<1>4. CASE e = <<"error", "tokens">>
  BY <1>2, <1>4
<1> QED
  BY <1>3, <1>4

\* A stream ends with a token count, or with an error and a token count.
LEMMA EndOfStream ==
    ASSUME StreamOK, callAt # "ended", UNCHANGED call, callAt' = "ended",
           NEW e \in {<<"tokens">>, <<"error", "tokens">>}, call.stream => answer' = answer \o e
    PROVE  StreamOK'
<1> SUFFICES ASSUME call.stream PROVE answer' \in Seq(Pieces) /\ StreamIsClosed'
  BY DEF StreamOK
<1>1. answer \in Seq(Pieces) /\ \A i \in DOMAIN answer : answer[i] \in {"text", "tool"}
  BY DEF StreamOK
<1>2. answer' = answer \o e
  OBVIOUS
<1>3. /\ answer' \in Seq(Pieces)
      /\ \A i \in DOMAIN answer' : /\ answer'[i] = "tokens" => i = Len(answer')
                                   /\ answer'[i] = "error" => i + 1 = Len(answer')
  BY <1>1, <1>2, CloseWith
<1> QED
  BY <1>3 DEF StreamIsClosed

\* Before its end it yields text and results of tools.
LEMMA StreamGoesOn ==
    ASSUME StreamOK, callAt # "ended", UNCHANGED call,
           NEW n \in Nat, NEW s \in [1 .. n -> {"text", "tool"}],
           call.stream => callAt' # "ended" /\ answer' = answer \o s
    PROVE  StreamOK'
<1> SUFFICES ASSUME call.stream
             PROVE  /\ answer' \in Seq(Pieces)
                    /\ \A i \in DOMAIN answer' : answer'[i] \in {"text", "tool"}
  BY DEF StreamOK, StreamIsClosed
<1>1. answer \in Seq(Pieces) /\ \A i \in DOMAIN answer : answer[i] \in {"text", "tool"}
  BY DEF StreamOK
<1>2. answer \in Seq({"text", "tool"}) /\ s \in Seq({"text", "tool"})
  BY <1>1
<1>3. answer \o s \in Seq({"text", "tool"}) /\ answer' = answer \o s
  BY <1>2
<1> QED
  BY <1>3 DEF Pieces

LEMMA StreamStays ==
    ASSUME StreamOK, callAt # "ended", UNCHANGED <<call, answer>>,
           call.stream => callAt' # "ended"
    PROVE  StreamOK'
BY DEF StreamOK, StreamIsClosed

LEMMA ExceptClosesStream ==
    ASSUME StreamOK, callAt # "ended", UNCHANGED call, NEW b, Except(b) PROVE StreamOK'
<1>1. CASE b /\ ~LastAttempt(attempt)
  BY <1>1, StreamStays DEF Except
<1>2. CASE ~(b /\ ~LastAttempt(attempt))
  BY <1>2, EndOfStream DEF Except, TellError
<1> QED
  BY <1>1, <1>2

LEMMA FinishClosesStream ==
    ASSUME StreamOK, callAt # "ended", UNCHANGED call, NEW s, Finish(s),
           call.stream => s = <<>>
    PROVE  StreamOK'
<1>1. call.stream => answer' = answer \o <<"tokens">>
  BY DEF Finish, StreamOK
<1> QED
  BY <1>1, EndOfStream DEF Finish

\* async_chat_streamly, with tools and without: LLMBundle sees one token count,
\* at the very end.
THEOREM StreamsClose == ChatSpec => []StreamIsClosed
<1>1. ChatInit => StreamOK
  BY DEF ChatInit, StreamOK, StreamIsClosed, Pieces
<1>2. StreamOK /\ HistoryOK /\ [ChatNext]_chatVars => StreamOK'
  <2> SUFFICES ASSUME StreamOK, HistoryOK, ChatNext PROVE StreamOK'
    BY DEF StreamOK, StreamIsClosed, chatVars
  <2>0. ASSUME Refused, callAt # "ended", UNCHANGED call PROVE StreamOK'
    BY <2>0, ExceptClosesStream DEF Refused
  <2>1. AskStream => StreamOK'
    BY <2>0, StreamStays DEF AskStream
  <2>2. AskOnce => StreamOK'
    BY DEF AskOnce, StreamOK, StreamIsClosed
  <2>3. ASSUME Delta PROVE StreamOK'
    <3>1. <<"text">> \in [1 .. 1 -> {"text", "tool"}]
      OBVIOUS
    <3> QED
      BY <2>3, <3>1, StreamGoesOn DEF Delta, Yield
  <2>4. StreamFails => StreamOK'
    BY ExceptClosesStream DEF StreamFails
  <2>5. StreamEnds => StreamOK'
    BY FinishClosesStream, StreamStays DEF StreamEnds
  <2>6. ASSUME RunTools PROVE StreamOK'
    <3>1. /\ [k \in 1 .. inner |-> "tool"] \in [1 .. inner -> {"text", "tool"}]
          /\ inner \in Nat
      BY DEF HistoryOK
    <3> QED
      BY <2>6, <3>1, StreamGoesOn DEF RunTools, Yield
  <2>7. LastStream => StreamOK'
    BY <2>0, StreamStays DEF LastStream
  <2>8. LastOfBase => StreamOK'
    BY DEF LastOfBase, StreamOK, StreamIsClosed
  <2>9. LastOfLite => StreamOK'
    BY DEF LastOfLite, StreamOK, StreamIsClosed
  <2> QED
    BY <2>1, <2>2, <2>3, <2>4, <2>5, <2>6, <2>7, <2>8, <2>9, ChatCases
<1>3. StreamOK => StreamIsClosed
  BY DEF StreamOK, StreamIsClosed
<1> QED
  BY <1>1, <1>2, <1>3, HistoryAlways, PTL DEF ChatSpec

------------------------------------------------------------------------------
(* Ranges of the counters.  Every round of tools adds its calls and the message *)
(* that brings them, so the length of the history follows the round.            *)

Round == MaxCalls + 1
Flags == call \in [lite : BOOLEAN, stream : BOOLEAN, tools : BOOLEAN] /\ got \in BOOLEAN
Counters ==
    /\ callAt \in {"ask", "stream", "tools", "last", "last stream", "ended", "fell"}
    /\ attempt \in 0 .. MaxRetries /\ round \in 0 .. MaxRounds
    /\ inner \in 0 .. MaxCalls + MaxRetries
    /\ callAt = "tools" => inner <= MaxCalls
    /\ callAt = "last" => inner <= MaxRetries
HistoryGrows ==
    /\ callAt \in {"ask", "stream", "tools"} => Len(history) <= 1 + round * Round
    /\ Len(history) <= 2 + (MaxRounds + 1) * Round

LEMMA Rounds ==
    ASSUME NEW n \in 0 .. MaxRounds
    PROVE  /\ n * Round \in Nat /\ (MaxRounds + 1) * Round \in Nat
           /\ (n + 1) * Round = n * Round + Round
           /\ n * Round + Round <= (MaxRounds + 1) * Round
<1>1. Round \in Nat /\ MaxRounds \in Nat
  BY ChatAssumption DEF Round
<1> HIDE DEF Round
<1> QED
  BY <1>1

\* An attempt that fails: it starts again with a copy of the history, or ends.
LEMMA RefusedCounts ==
    ASSUME Counters, HistoryGrows, NEW retryable, Except(retryable)
    PROVE  Counters' /\ HistoryGrows'
<1>1. /\ attempt \in 0 .. MaxRetries /\ MaxRetries \in Nat /\ MaxRounds \in Nat /\ MaxCalls \in Nat
      /\ inner \in 0 .. MaxCalls + MaxRetries
  BY ChatAssumption DEF Counters
<1>2. CASE retryable /\ ~LastAttempt(attempt)
  <2>1. callAt' = "ask" /\ attempt' = attempt + 1 /\ round' = 0 /\ history' = Start /\ inner' = inner
    BY <1>1, <1>2 DEF Except, LastAttempt
  <2>2. /\ Len(history') = 1 /\ 0 * Round \in Nat /\ (MaxRounds + 1) * Round \in Nat
        /\ 0 \in 0 .. MaxRounds
    <3>1. 0 \in 0 .. MaxRounds
      BY <1>1
    <3> QED
      BY <2>1, <3>1, Rounds DEF Start
  <2>3. Len(history') <= 1 + round' * Round /\ Len(history') <= 2 + (MaxRounds + 1) * Round
    BY <2>1, <2>2
  <2>4. attempt' \in 0 .. MaxRetries
    BY <1>1, <1>2, <2>1 DEF LastAttempt
  <2>5. Counters'
    BY <1>1, <2>1, <2>2, <2>4 DEF Counters
  <2> QED
    BY <2>3, <2>5 DEF HistoryGrows
<1>3. CASE ~(retryable /\ ~LastAttempt(attempt))
  <2>1. callAt' = "ended" /\ UNCHANGED <<attempt, round, inner, history>>
    BY <1>3 DEF Except, TellError
  <2> QED
    BY <2>1 DEF Counters, HistoryGrows
<1> QED
  BY <1>2, <1>3

\* Steps that leave the history alone, and where they may lead.
LEMMA OtherCounts ==
    ASSUME Counters, HistoryGrows, UNCHANGED <<attempt, round, history>>,
           inner' \in 0 .. MaxCalls + MaxRetries,
           \/ callAt \in {"ask", "stream"} /\ callAt' \in {"stream", "tools"}
           \/ callAt' \in {"last", "last stream", "ended"} \/ callAt' = callAt,
           callAt' = "tools" => inner' <= MaxCalls, callAt' = "last" => inner' <= MaxRetries
    PROVE  Counters' /\ HistoryGrows'
  BY DEF Counters, HistoryGrows

LEMMA RunToolsCounts ==
    ASSUME Counters, HistoryGrows, HistoryOK, RunTools
    PROVE  Counters' /\ HistoryGrows'
<1>1. MaxRetries \in Nat /\ MaxRounds \in Nat /\ MaxCalls \in Nat /\ Round = MaxCalls + 1
  BY ChatAssumption DEF Round
<1>2. /\ inner \in Nat /\ inner <= MaxCalls /\ round \in 0 .. MaxRounds /\ attempt \in 0 .. MaxRetries
      /\ Len(history) <= 1 + round * Round
  BY <1>1 DEF Counters, HistoryGrows, RunTools
<1>3. Len(history) \in Nat
  BY DEF HistoryOK
<1>4. PICK lost : LET h == history \o Batch(inner, lost)
                  IN  IF round < MaxRounds
                        THEN callAt' = "ask" /\ round' = round + 1 /\ history' = h
                        ELSE callAt' = "last" /\ round' = round /\ history' = Append(h, User)
  BY DEF RunTools
<1> DEFINE h == history \o Batch(inner, lost)
<1>5. h \in Seq(Messages) /\ Len(h) = Len(history) + inner + 1
  BY <1>2, BatchIsPaired DEF HistoryOK
<1>6. Len(Append(h, User)) = Len(h) + 1
  BY <1>5
<1>7. inner' = 0 /\ attempt' = attempt
  BY DEF RunTools
<1>8. IF round < MaxRounds THEN callAt' = "ask" /\ round' = round + 1 /\ history' = h
                           ELSE callAt' = "last" /\ round' = round /\ history' = Append(h, User)
  BY <1>4
<1> HIDE DEF h
<1>9. /\ round * Round \in Nat /\ (MaxRounds + 1) * Round \in Nat
      /\ (round + 1) * Round = round * Round + Round
      /\ round * Round + Round <= (MaxRounds + 1) * Round
  BY <1>2, Rounds
<1>10. Counters'
  <2>1. round' \in 0 .. MaxRounds /\ callAt' \in {"ask", "last"}
    BY <1>1, <1>2, <1>8
  <2>2. inner' \in 0 .. MaxCalls + MaxRetries /\ inner' <= MaxRetries /\ attempt' \in 0 .. MaxRetries
    BY <1>1, <1>2, <1>7
  <2> QED
    BY <2>1, <2>2 DEF Counters
<1>11. CASE round < MaxRounds
  <2>1. callAt' = "ask" /\ round' = round + 1 /\ Len(history') = Len(history) + inner + 1
    BY <1>5, <1>8, <1>11
  <2>2. round' * Round = round * Round + Round
    BY <1>9, <2>1
  <2> HIDE DEF Round
  <2>3. Len(history') <= 1 + round * Round + Round
    BY <1>1, <1>2, <1>3, <1>9, <2>1
  <2>4. Len(history') <= 1 + round' * Round /\ Len(history') <= 2 + (MaxRounds + 1) * Round
    BY <1>1, <1>2, <1>3, <1>9, <2>1, <2>2, <2>3
  <2> QED
    BY <1>10, <2>4 DEF HistoryGrows
<1>12. CASE ~(round < MaxRounds)
  <2>1. callAt' = "last" /\ Len(history') = Len(history) + inner + 2
    BY <1>2, <1>3, <1>5, <1>6, <1>8, <1>12
  <2>2. Len(history') <= 2 + (MaxRounds + 1) * Round
    BY <1>1, <1>2, <1>3, <1>9, <2>1
  <2> QED
    BY <1>10, <2>1, <2>2 DEF HistoryGrows
<1> QED
  BY <1>11, <1>12

LEMMA CountersKeep ==
    ASSUME Counters, HistoryGrows, HistoryOK, ChatNext
    PROVE  Counters' /\ HistoryGrows'
<1> DEFINE Kept == Counters' /\ HistoryGrows'
<1>1. inner \in 0 .. MaxCalls + MaxRetries /\ MaxCalls \in Nat /\ MaxRetries \in Nat
  BY ChatAssumption DEF Counters
<1> HIDE DEF Kept
<1>2. ASSUME Refused PROVE Kept
  BY <1>2, RefusedCounts DEF Refused, Kept
<1>3. ASSUME inner' \in 0 .. MaxCalls + MaxRetries, UNCHANGED <<attempt, round, history>>,
             \/ callAt \in {"ask", "stream"} /\ callAt' \in {"stream", "tools"}
             \/ callAt' \in {"last", "last stream", "ended"} \/ callAt' = callAt,
             callAt' = "tools" => inner' <= MaxCalls, callAt' = "last" => inner' <= MaxRetries
      PROVE  Kept
  BY <1>3, OtherCounts DEF Kept
<1>4. ASSUME NEW s, Finish(s) PROVE Kept
  <2>1. callAt' = "ended" /\ UNCHANGED <<attempt, round, history, inner>>
    BY <1>4 DEF Finish
  <2> QED
    BY <1>1, <1>3, <2>1
<1>5. ASSUME NEW n \in 0 .. MaxCalls, callAt \in {"ask", "stream"}, callAt' = "tools", inner' = n,
             UNCHANGED <<attempt, round, history>>
      PROVE  Kept
  <2>1. inner' \in 0 .. MaxCalls + MaxRetries /\ inner' <= MaxCalls
    BY <1>1, <1>5
  <2> QED
    BY <1>3, <1>5, <2>1
<1>6. ASSUME AskStream PROVE Kept
  <2>1. Refused \/ (callAt = "ask" /\ callAt' = "stream" /\ UNCHANGED <<attempt, round, inner, history>>)
    BY <1>6 DEF AskStream
  <2> QED
    BY <1>1, <1>2, <1>3, <2>1
<1>7. ASSUME NEW retryable, Except(retryable) PROVE Kept
  BY <1>7, RefusedCounts DEF Kept
<1>8. ASSUME AskOnce PROVE Kept
  <2>1. \/ Refused \/ (\E s : Finish(s)) \/ (\E retryable : Except(retryable))
        \/ \E n \in 1 .. MaxCalls : callAt = "ask" /\ callAt' = "tools" /\ inner' = n
                                    /\ UNCHANGED <<attempt, round, history>>
    BY <1>8 DEF AskOnce
  <2>2. \A n \in 1 .. MaxCalls : n \in 0 .. MaxCalls
    BY <1>1
  <2> QED
    BY <1>2, <1>4, <1>5, <1>7, <2>1, <2>2
<1>9. ASSUME Delta PROVE Kept
  <2>1. callAt' = callAt /\ callAt \in {"stream", "last stream"} /\ UNCHANGED <<attempt, round, inner, history>>
    BY <1>9 DEF Delta
  <2> QED
    BY <1>1, <1>3, <2>1
<1>10. ASSUME StreamFails PROVE Kept
  BY <1>7, <1>10 DEF StreamFails
<1>11. ASSUME StreamEnds PROVE Kept
  <2>1. \/ \E s : Finish(s)
        \/ \E n \in 0 .. MaxCalls : callAt = "stream" /\ callAt' = "tools" /\ inner' = n
                                    /\ UNCHANGED <<attempt, round, history>>
    BY <1>11 DEF StreamEnds
  <2> QED
    BY <1>4, <1>5, <2>1
<1>12. ASSUME RunTools PROVE Kept
  BY <1>12, RunToolsCounts DEF Kept
<1>13. ASSUME LastStream PROVE Kept
  <2>1. Refused \/ (callAt' = "last stream" /\ UNCHANGED <<attempt, round, inner, history>>)
    BY <1>13 DEF LastStream
  <2> QED
    BY <1>1, <1>2, <1>3, <2>1
<1>14. ASSUME LastOfBase PROVE Kept
  BY <1>2, <1>4, <1>14 DEF LastOfBase
<1>15. ASSUME LastOfLite PROVE Kept
  <2>1. \/ \E s : Finish(s)
        \/ ~LastAttempt(inner) /\ inner' = inner + 1 /\ callAt = "last"
           /\ UNCHANGED <<callAt, attempt, round, history>>
    BY <1>15 DEF LastOfLite
  <2>2. ASSUME ~LastAttempt(inner), inner' = inner + 1, callAt = "last"
        PROVE  inner' \in 0 .. MaxCalls + MaxRetries /\ inner' <= MaxRetries
    BY <1>1, <2>2 DEF LastAttempt, Counters
  <2> QED
    BY <1>3, <1>4, <2>1, <2>2
<1> QED
  BY <1>6, <1>8, <1>9, <1>10, <1>11, <1>12, <1>13, <1>14, <1>15, ChatCases DEF Kept

LEMMA FlagsKeep == Flags /\ [ChatNext]_chatVars => Flags'
<1> SUFFICES ASSUME Flags, [ChatNext]_chatVars PROVE Flags'
  OBVIOUS
<1>1. call' = call
  BY DEF ChatNext, chatVars, AskStream, AskOnce, Delta, StreamFails, StreamEnds, RunTools,
         LastStream, LastOfBase, LastOfLite
<1>2. got' \in {got, TRUE, FALSE}
  BY DEF ChatNext, chatVars, AskStream, AskOnce, Delta, StreamFails, StreamEnds, RunTools,
         LastStream, LastOfBase, LastOfLite, Refused, Except, TellError, Finish
<1> QED
  BY <1>1, <1>2 DEF Flags

\* async_chat_with_tools, async_chat_streamly_with_tools: the counters of the loops, and
\* the length that rounds of tools can give to the history.
THEOREM ChatTypes == ChatSpec => []ChatTypeOK
<1>1. ChatInit => Flags /\ Counters /\ HistoryGrows
  <2> SUFFICES ASSUME ChatInit PROVE Flags /\ Counters /\ HistoryGrows
    OBVIOUS
  <2>1. MaxRetries \in Nat /\ MaxRounds \in Nat /\ MaxCalls \in Nat /\ 0 \in 0 .. MaxRounds
    BY ChatAssumption
  <2>2. 0 * Round \in Nat /\ (MaxRounds + 1) * Round \in Nat
    BY <2>1, Rounds
  <2>3. Len(history) = 1 /\ round = 0 /\ callAt = "ask" /\ attempt = 0 /\ inner = 0
    BY DEF ChatInit, Start
  <2>4. Counters
    BY <2>1, <2>3 DEF Counters
  <2>5. HistoryGrows
    BY <2>2, <2>3 DEF HistoryGrows
  <2>6. Flags
    BY DEF ChatInit, Flags
  <2> QED
    BY <2>4, <2>5, <2>6
<1>2. Counters /\ HistoryGrows /\ HistoryOK /\ [ChatNext]_chatVars => (Counters /\ HistoryGrows)'
  <2>1. UNCHANGED chatVars /\ Counters /\ HistoryGrows => (Counters /\ HistoryGrows)'
    BY DEF chatVars, Counters, HistoryGrows
  <2> QED
    BY <2>1, CountersKeep
<1>3. Flags /\ Counters /\ HistoryGrows => ChatTypeOK
  <2> SUFFICES ASSUME Flags, Counters, HistoryGrows PROVE ChatTypeOK
    OBVIOUS
  <2>1. attempt \in 0 .. MaxRetries + 1
    <3>1. attempt \in 0 .. MaxRetries /\ MaxRetries \in Nat
      BY ChatAssumption DEF Counters
    <3> QED
      BY <3>1
  <2>2. Len(history) <= 2 + (MaxRounds + 1) * (MaxCalls + 1)
    BY DEF HistoryGrows, Round
  <2> QED
    BY <2>1, <2>2 DEF Flags, Counters, ChatTypeOK
<1> QED
  BY <1>1, <1>2, <1>3, FlagsKeep, HistoryAlways, PTL DEF ChatSpec

------------------------------------------------------------------------------
(***************************************************************************)
(* An MCP session for any number of calls, closes and broken connections.  *)
(* That nobody gets another's result rests on the queue each request       *)
(* brings; that a closed session is quiet rests on this: a close is done   *)
(* only when the loop has stopped, and a stopped loop stays so, whichever  *)
(* of several threads closes.                                              *)
(***************************************************************************)

\* What a call can find in its own queue, and who has reached the server.
Answers ==
    /\ caller \in [Requests -> {"idle", "checked", "blocked"} \cup Told]
    /\ routine \in [Requests -> {"none", "scheduled", "puts", "waits", "over"}]
    /\ results \in [Requests -> Requests \cup {None, "exception", "cancelled"}]
    /\ requestQueue \in Seq(Requests)
    /\ atWork \in Requests \cup {NoRequest} /\ (atWork # NoRequest => atWork \in executed)
    /\ \A r \in Requests : results[r] \in Requests => results[r] = r /\ r \in executed

\* Who has closed the session has joined a loop that stopped.
Closing ==
    /\ closer \in [Closers -> {"idle", "closes", "drains", "joins", "done", "returned"}]
    /\ \A c \in Closers : closer[c] = "done" => loop = "stopped"

LEMMA SessionCases ==
    ASSUME SessionNext,
           NEW P,
           Connect => P, Listen => P, TakeRequest => P, ServerEnds => P, LoopStops => P,
           Answer => P, Break => P,
           ASSUME NEW r \in Requests, Recheck(r) PROVE P,
           ASSUME NEW r \in Requests, PutRequest(r) PROVE P,
           ASSUME NEW r \in Requests, GetResult(r) PROVE P,
           ASSUME NEW r \in Requests, WaitTimesOut(r) PROVE P,
           ASSUME NEW r \in Requests, Call(r) PROVE P,
           ASSUME NEW r \in Requests, Submit(r) PROVE P,
           ASSUME NEW r \in Requests, TimesOut(r) PROVE P,
           ASSUME NEW c \in Closers, Close(c) PROVE P,
           ASSUME NEW c \in Closers, SetClose(c) PROVE P,
           ASSUME NEW c \in Closers, Drain(c) PROVE P,
           ASSUME NEW c \in Closers, Join(c) PROVE P
    PROVE  P
BY DEF SessionNext, SessionLoop

LEMMA AnswersInvariant == SessionInit /\ [][SessionNext]_sessionVars => [](Answers /\ OwnAnswer)
<1> DEFINE IInv == Answers /\ OwnAnswer
<1>1. SessionInit => IInv
  BY SessionNames DEF SessionInit, Answers, OwnAnswer, None
<1>2. IInv /\ [SessionNext]_sessionVars => IInv'
  <2> SUFFICES ASSUME IInv, SessionNext PROVE IInv'
    BY DEF Answers, OwnAnswer, sessionVars
  <2> USE SessionNames, SessionAssumption DEF Answers, OwnAnswer, None, Told
  <2>1. Connect => IInv'
    BY DEF Connect
  <2>2. Listen => IInv'
    BY DEF Listen
  <2>3. ASSUME TakeRequest PROVE IInv'
    <3>1. Head(requestQueue) \in Requests /\ requestQueue' \in Seq(Requests)
      BY <2>3 DEF TakeRequest
    <3> QED
      BY <2>3, <3>1 DEF TakeRequest, AnswerTo
  <2>4. ServerEnds => IInv'
    BY DEF ServerEnds
  <2>5. LoopStops => IInv'
    BY DEF LoopStops
  <2>6. Answer => IInv'
    BY DEF Answer, AnswerTo
  <2>7. Break => IInv'
    BY DEF Break
  <2>8. ASSUME NEW r \in Requests, Recheck(r) PROVE IInv'
    BY <2>8 DEF Recheck, Over
  <2>9. ASSUME NEW r \in Requests, PutRequest(r) PROVE IInv'
    BY <2>9 DEF PutRequest
  <2>10. ASSUME NEW r \in Requests, GetResult(r) PROVE IInv'
    BY <2>10 DEF GetResult, Over
  <2>11. ASSUME NEW r \in Requests, WaitTimesOut(r) PROVE IInv'
    BY <2>11 DEF WaitTimesOut, Over
  <2>12. ASSUME NEW r \in Requests, Call(r) PROVE IInv'
    BY <2>12 DEF Call
  <2>13. ASSUME NEW r \in Requests, Submit(r) PROVE IInv'
    BY <2>13 DEF Submit
  <2>14. ASSUME NEW r \in Requests, TimesOut(r) PROVE IInv'
    BY <2>14 DEF TimesOut
  <2>15. ASSUME NEW c \in Closers, Close(c) PROVE IInv'
    BY <2>15 DEF Close
  <2>18. ASSUME NEW c \in Closers, SetClose(c) PROVE IInv'
    BY <2>18 DEF SetClose
  <2>16. ASSUME NEW c \in Closers, Drain(c) PROVE IInv'
    <3>1. CASE requestQueue = <<>>
      BY <2>16, <3>1 DEF Drain
    <3>2. CASE requestQueue # <<>>
      <4>1. Head(requestQueue) \in Requests /\ requestQueue' \in Seq(Requests)
        BY <2>16, <3>2 DEF Drain
      <4> QED
        BY <2>16, <3>2, <4>1 DEF Drain
    <3> QED
      BY <3>1, <3>2
  <2>17. ASSUME NEW c \in Closers, Join(c) PROVE IInv'
    BY <2>17 DEF Join
  <2> QED
    BY <2>1, <2>2, <2>3, <2>4, <2>5, <2>6, <2>7, <2>8, <2>9, <2>10, <2>11, <2>12, <2>13,
       <2>14, <2>15, <2>16, <2>17, <2>18, SessionCases
<1> QED
  BY <1>1, <1>2, PTL

\* _call_mcp_server: a late answer goes to the queue of the call it belongs to, and
\* only a tool that was run gives a result.
THEOREM OwnResult == SessionSpec => []OwnAnswer
BY AnswersInvariant, PTL DEF SessionSpec

LEMMA ClosingInvariant == SessionInit /\ [][SessionNext]_sessionVars => []Closing
<1>1. SessionInit => Closing
  BY DEF SessionInit, Closing
<1>2. Closing /\ [SessionNext]_sessionVars => Closing'
  <2> SUFFICES ASSUME Closing, SessionNext PROVE Closing'
    BY DEF Closing, sessionVars
  <2> USE DEF Closing
  <2>1. LoopStops => Closing'
    BY DEF LoopStops
  <2>2. ASSUME NEW c \in Closers, Close(c) \/ SetClose(c) PROVE Closing'
    BY <2>2 DEF Close, SetClose
  <2>3. ASSUME NEW c \in Closers, Drain(c) PROVE Closing'
    BY <2>3 DEF Drain
  <2>4. ASSUME NEW c \in Closers, Join(c) PROVE Closing'
    BY <2>4 DEF Join
  <2>5. UNCHANGED <<closed, loop, closer>> => Closing'
    OBVIOUS
  <2> QED
    BY <2>1, <2>2, <2>3, <2>4, <2>5, SessionCases
    DEF Connect, Listen, TakeRequest, ServerEnds, Answer, Break, Recheck, PutRequest,
        GetResult, WaitTimesOut, Call, Submit, TimesOut
<1> QED
  BY <1>1, <1>2, PTL

LEMMA NothingAfterClose == SessionInit /\ [][SessionNext]_sessionVars => ClosedIsQuiet
<1> DEFINE NoTool == (\E c \in Closers : closer[c] = "done") => executed' = executed
<1>1. Closing /\ [SessionNext]_sessionVars => [NoTool]_sessionVars
  <2> SUFFICES ASSUME Closing, SessionNext, NEW c \in Closers, closer[c] = "done"
               PROVE  executed' = executed
    OBVIOUS
  <2>1. loop = "stopped"
    BY DEF Closing
  <2> QED
    BY <2>1, SessionCases
    DEF Connect, Listen, TakeRequest, ServerEnds, LoopStops, Answer, Break, Recheck,
        PutRequest, GetResult, WaitTimesOut, Call, Submit, TimesOut, Close, SetClose, Drain, Join
<1>2. [][NoTool]_sessionVars => ClosedIsQuiet
  BY PTL DEF ClosedIsQuiet
<1> QED
  BY <1>1, <1>2, ClosingInvariant, PTL

\* close: when it returns to the one who closed, the loop has stopped, and nothing
\* but the loop runs a tool.
THEOREM Quiet == SessionSpec => ClosedIsQuiet
  BY NothingAfterClose, PTL DEF SessionSpec

\* A request is in the queue once, and only its own coroutine has put it there.
Queued ==
    /\ requestQueue \in Seq(Requests)
    /\ \A i, k \in 1 .. Len(requestQueue) : requestQueue[i] = requestQueue[k] => i = k
    /\ \A i \in 1 .. Len(requestQueue) : routine[requestQueue[i]] \in {"waits", "over"}
    /\ \A r \in Requests : caller[r] \in {"idle", "checked"} => routine[r] = "none"
    /\ caller \in [Requests -> {"idle", "checked", "blocked"} \cup Told]
    /\ routine \in [Requests -> {"none", "scheduled", "puts", "waits", "over"}]

\* The server task, the loop and the bounds.
AtServer ==
    /\ serverTask \in {"connect", "serve", "refuse", "over"}
    /\ (listening => atWork = NoRequest) /\ atWork \in Requests \cup {NoRequest}
    /\ executed \subseteq Requests /\ closed \in BOOLEAN
    /\ loop \in {"runs", "stops", "stopped"}

LEMMA TailOfQueue ==
    ASSUME Queued, requestQueue # <<>>, requestQueue' = Tail(requestQueue), UNCHANGED <<caller, routine>>
    PROVE  Queued'
<1>1. /\ Tail(requestQueue) \in Seq(Requests) /\ Len(Tail(requestQueue)) = Len(requestQueue) - 1
      /\ \A i \in 1 .. Len(Tail(requestQueue)) : Tail(requestQueue)[i] = requestQueue[i + 1]
      /\ Len(requestQueue) \in Nat
  BY DEF Queued
<1>2. \A i \in 1 .. Len(requestQueue') : i + 1 \in 1 .. Len(requestQueue) /\ i \in Nat
  BY <1>1
<1>3. \A i, k \in 1 .. Len(requestQueue') : requestQueue'[i] = requestQueue'[k] => i = k
  <2> SUFFICES ASSUME NEW i \in 1 .. Len(requestQueue'), NEW k \in 1 .. Len(requestQueue'),
                      requestQueue'[i] = requestQueue'[k]
               PROVE  i = k
    OBVIOUS
  <2>1. i + 1 = k + 1
    BY <1>1, <1>2 DEF Queued
  <2> QED
    BY <2>1
<1> QED
  BY <1>1, <1>2, <1>3 DEF Queued

LEMMA QueuedStep ==
    ASSUME Queued, [SessionNext]_sessionVars
    PROVE  Queued'
<1>1. ASSUME UNCHANGED <<requestQueue, caller, routine>> PROVE Queued'
  BY <1>1 DEF Queued
<1>2. ASSUME NEW r \in Requests, UNCHANGED requestQueue,
             routine[r] \notin {"none", "over"} \/ caller[r] = "checked" \/ routine' = routine,
             \A i \in Requests \ {r} : caller'[i] = caller[i] /\ routine'[i] = routine[i],
             caller' \in [Requests -> {"idle", "checked", "blocked"} \cup Told],
             routine' \in [Requests -> {"none", "scheduled", "puts", "waits", "over"}],
             caller'[r] \in {"idle", "checked"} => caller[r] \in {"idle", "checked"} /\ routine' = routine,
             routine[r] \in {"waits", "over"} => routine'[r] \in {"waits", "over"}
      PROVE  Queued'
  BY <1>2 DEF Queued
<1>3. ASSUME NEW r \in Requests, Call(r) PROVE Queued'
  BY <1>2, <1>3 DEF Call, Queued, Told
<1>4. ASSUME NEW r \in Requests, Submit(r) PROVE Queued'
  BY <1>2, <1>4 DEF Submit, Queued
<1>5. ASSUME NEW r \in Requests, TimesOut(r) PROVE Queued'
  BY <1>2, <1>5 DEF TimesOut, Queued, Told
<1>6. ASSUME NEW r \in Requests, Recheck(r) PROVE Queued'
  BY <1>2, <1>6 DEF Recheck, Over, Queued, Told
<1>7. ASSUME NEW r \in Requests, PutRequest(r) PROVE Queued'
  <2>1. /\ requestQueue' = Append(requestQueue, r) /\ routine' = [routine EXCEPT ![r] = "waits"]
        /\ caller' = caller /\ routine[r] = "puts"
    BY <1>7 DEF PutRequest
  <2>2. /\ requestQueue' \in Seq(Requests) /\ Len(requestQueue') = Len(requestQueue) + 1
        /\ Len(requestQueue) \in Nat /\ requestQueue'[Len(requestQueue) + 1] = r
        /\ \A i \in 1 .. Len(requestQueue) : requestQueue'[i] = requestQueue[i]
    BY <2>1 DEF Queued
  <2>3. \A i \in 1 .. Len(requestQueue) : requestQueue[i] \in Requests /\ requestQueue[i] # r
    BY <2>1 DEF Queued
  <2>4. \A i \in 1 .. Len(requestQueue') : i \in 1 .. Len(requestQueue) \/ i = Len(requestQueue) + 1
    BY <2>2
  <2> QED
    BY <2>1, <2>2, <2>3, <2>4 DEF Queued
<1>8. ASSUME NEW r \in Requests, GetResult(r) PROVE Queued'
  <2>1. PICK what \in Told : Over(r, what)
    BY <1>8 DEF GetResult, Told
  <2> QED
    BY <1>2, <1>8, <2>1 DEF GetResult, Over, Queued, Told
<1>9. ASSUME NEW r \in Requests, WaitTimesOut(r) PROVE Queued'
  BY <1>2, <1>9 DEF WaitTimesOut, Over, Queued, Told
<1>10. TakeRequest => Queued'
  BY TailOfQueue DEF TakeRequest
<1>11. ASSUME NEW c \in Closers, Drain(c) PROVE Queued'
  BY <1>1, <1>11, TailOfQueue DEF Drain
<1>12. ASSUME NEW c \in Closers, Close(c) \/ SetClose(c) \/ Join(c) PROVE Queued'
  BY <1>1, <1>12 DEF Close, SetClose, Join
<1>13. Connect \/ Listen \/ ServerEnds \/ LoopStops \/ Answer \/ Break \/ UNCHANGED sessionVars => Queued'
  BY <1>1 DEF Connect, Listen, ServerEnds, LoopStops, Answer, Break, sessionVars
<1> QED
  BY <1>3, <1>4, <1>5, <1>6, <1>7, <1>8, <1>9, <1>10, <1>11, <1>12, <1>13 DEF SessionNext, SessionLoop

LEMMA AtServerStep ==
    ASSUME AtServer, requestQueue \in Seq(Requests), [SessionNext]_sessionVars
    PROVE  AtServer'
<1> USE DEF AtServer
<1>1. ASSUME TakeRequest PROVE AtServer'
  <2>1. Head(requestQueue) \in Requests
    BY <1>1 DEF TakeRequest
  <2> QED
    BY <1>1, <2>1 DEF TakeRequest
<1>2. ASSUME NEW c \in Closers, Close(c) \/ SetClose(c) \/ Drain(c) \/ Join(c) PROVE AtServer'
  <2>1. UNCHANGED <<serverTask, listening, atWork, executed>>
    BY <1>2 DEF Close, SetClose, Drain, Join
  <2>2. closed' = closed \/ closed' = TRUE
    BY <1>2 DEF Close, SetClose, Drain, Join
  <2>3. loop' = loop \/ loop' = "stops"
    BY <1>2 DEF Close, SetClose, Drain, Join
  <2> QED
    BY <2>1, <2>2, <2>3
<1>3. ASSUME NEW r \in Requests,
             Recheck(r) \/ PutRequest(r) \/ GetResult(r) \/ WaitTimesOut(r) \/ Call(r) \/ Submit(r) \/ TimesOut(r)
      PROVE  AtServer'
  BY <1>3 DEF Recheck, PutRequest, GetResult, WaitTimesOut, Call, Submit, TimesOut
<1>4. Connect \/ Listen \/ ServerEnds \/ LoopStops \/ Answer \/ Break \/ UNCHANGED sessionVars => AtServer'
  BY DEF Connect, Listen, ServerEnds, LoopStops, Answer, Break, sessionVars
<1> QED
  BY <1>1, <1>2, <1>3, <1>4 DEF SessionNext, SessionLoop

LEMMA BreaksCounted == breaks \in 0 .. MaxBreaks /\ [SessionNext]_sessionVars => breaks' \in 0 .. MaxBreaks
<1> SUFFICES ASSUME breaks \in 0 .. MaxBreaks, [SessionNext]_sessionVars PROVE breaks' \in 0 .. MaxBreaks
  OBVIOUS
<1>1. breaks' = breaks \/ (breaks < MaxBreaks /\ breaks' = breaks + 1)
  BY DEF SessionNext, SessionLoop, sessionVars, TakeRequest, Close, SetClose, Drain, Join, Recheck, PutRequest,
         GetResult, WaitTimesOut, Call, Submit, TimesOut, Connect, Listen, ServerEnds, LoopStops,
         Answer, Break
<1>2. MaxBreaks \in Nat
  BY SessionAssumption
<1> QED
  BY <1>1, <1>2

LEMMA SessionTyped == SessionInit /\ [][SessionNext]_sessionVars => []SessionTypeOK
<1> DEFINE IInv == Queued /\ AtServer /\ breaks \in 0 .. MaxBreaks
<1>1. SessionInit => IInv
  <2> SUFFICES ASSUME SessionInit PROVE IInv
    OBVIOUS
  <2>1. breaks \in 0 .. MaxBreaks
    BY SessionAssumption DEF SessionInit
  <2>2. Queued
    BY DEF SessionInit, Queued
  <2> QED
    BY <2>1, <2>2 DEF SessionInit, AtServer
<1>2. IInv /\ [SessionNext]_sessionVars => IInv'
  <2>1. Queued => requestQueue \in Seq(Requests)
    BY DEF Queued
  <2> QED
    BY <2>1, QueuedStep, AtServerStep, BreaksCounted
<1>3. IInv /\ Answers /\ Closing => SessionTypeOK
  <2> SUFFICES ASSUME IInv, Answers, Closing PROVE SessionTypeOK
    OBVIOUS
  <2>1. DOMAIN requestQueue = 1 .. Len(requestQueue)
    BY DEF Queued
  <2>2. IsInjective(requestQueue)
    BY <2>1 DEF Queued, IsInjective
  <2>3. \A r \in Range(requestQueue) : routine[r] \in {"waits", "over"}
    BY <2>1 DEF Queued, Range
  <2> QED
    BY <2>2, <2>3 DEF AtServer, Answers, Closing, SessionTypeOK
<1> QED
  BY <1>1, <1>2, <1>3, AnswersInvariant, ClosingInvariant, PTL

\* _call_mcp_server: types, and that the queue of a session holds a request once, put there
\* by its own call; the server task does not wait for a request while it is at one.
THEOREM SessionTypes == SessionSpec => []SessionTypeOK
  BY SessionTyped, PTL DEF SessionSpec

------------------------------------------------------------------------------
(***************************************************************************)
(* Tianshu for any number of jobs, workers and troubles.  A claim finds a  *)
(* job pending, and so that it is the only one rests on this: a pending    *)
(* job that somebody is still at was put back by reset_stale_tasks.        *)
(***************************************************************************)

\* The actions of one step, for a case split.
LEMMA TianshuCases ==
    ASSUME TianshuNext,
           NEW P,
           ASSUME NEW w \in Workers, NEW j \in Jobs, Claim(w, j) PROVE P,
           ASSUME NEW w \in Workers, ParseSucceeds(w) PROVE P,
           ASSUME NEW w \in Workers, ParseRaises(w) PROVE P,
           ASSUME NEW w \in Workers, Complete(w) PROVE P,
           ASSUME NEW w \in Workers, Unlink(w) PROVE P,
           ASSUME NEW w \in Workers, Fail(w) PROVE P,
           ASSUME NEW w \in Workers, WorkerDies(w) PROVE P,
           ASSUME NEW j \in Jobs, CreateTask(j) PROVE P,
           ASSUME NEW j \in Jobs, BecomesStale(j) PROVE P,
           ASSUME NEW j \in Jobs, CancelReads(j) PROVE P,
           ASSUME NEW j \in Jobs, CancelWrites(j) PROVE P,
           ASSUME NEW j \in Jobs, CancelUnlinks(j) PROVE P,
           ASSUME NEW j \in Jobs, SaveUpload(j) PROVE P,
           ASSUME NEW j \in Jobs, CleanupFiles(j) PROVE P,
           ASSUME NEW j \in Jobs, CleanupRecord(j) PROVE P,
           ResetStale => P
    PROVE  P
BY DEF TianshuNext, Work

LEMMA TianshuTyped == TianshuInit /\ [][TianshuNext]_tianshuVars => []TianshuTypeOK
<1>1. TianshuInit => TianshuTypeOK
  BY TianshuAssumption DEF TianshuInit, TianshuTypeOK, Ended
<1>2. TianshuTypeOK /\ [TianshuNext]_tianshuVars => TianshuTypeOK'
  <2> SUFFICES ASSUME TianshuTypeOK, TianshuNext PROVE TianshuTypeOK'
    BY DEF TianshuTypeOK, tianshuVars, rowVars, workVars
  <2> USE TianshuAssumption, TianshuNames DEF TianshuTypeOK, Ended, Set, Trouble
  <2>1. ASSUME NEW w \in Workers, NEW j \in Jobs, Claim(w, j) PROVE TianshuTypeOK'
    BY <2>1 DEF Claim, TakeJob
  <2>2. ASSUME NEW w \in Workers, ParseSucceeds(w) PROVE TianshuTypeOK'
    BY <2>2 DEF ParseSucceeds, rowVars
  <2>3. ASSUME NEW w \in Workers, ParseRaises(w) PROVE TianshuTypeOK'
    BY <2>3 DEF ParseRaises, rowVars
  <2>4. ASSUME NEW w \in Workers, Complete(w) PROVE TianshuTypeOK'
    BY <2>4 DEF Complete
  <2>5. ASSUME NEW w \in Workers, Unlink(w) PROVE TianshuTypeOK'
    BY <2>5 DEF Unlink, rowVars
  <2>6. ASSUME NEW w \in Workers, Fail(w) PROVE TianshuTypeOK'
    BY <2>6 DEF Fail
  <2>7. ASSUME NEW w \in Workers, WorkerDies(w) PROVE TianshuTypeOK'
    BY <2>7 DEF WorkerDies, rowVars
  <2>8. ASSUME NEW j \in Jobs, CreateTask(j) PROVE TianshuTypeOK'
    BY <2>8 DEF CreateTask, workVars
  <2>9. ASSUME NEW j \in Jobs, BecomesStale(j) PROVE TianshuTypeOK'
    BY <2>9 DEF BecomesStale, workVars
  <2>10. ASSUME NEW j \in Jobs, CancelReads(j) PROVE TianshuTypeOK'
    BY <2>10 DEF CancelReads, rowVars, workVars
  <2>11. ASSUME NEW j \in Jobs, CancelWrites(j) PROVE TianshuTypeOK'
    BY <2>11 DEF CancelWrites, workVars
  <2>12. ASSUME NEW j \in Jobs, CancelUnlinks(j) PROVE TianshuTypeOK'
    BY <2>12 DEF CancelUnlinks, rowVars, workVars
  <2>13. ASSUME NEW j \in Jobs, SaveUpload(j) PROVE TianshuTypeOK'
    BY <2>13 DEF SaveUpload, rowVars, workVars
  <2>14. ASSUME NEW j \in Jobs, CleanupFiles(j) PROVE TianshuTypeOK'
    BY <2>14 DEF CleanupFiles, workVars
  <2>15. ASSUME NEW j \in Jobs, CleanupRecord(j) PROVE TianshuTypeOK'
    BY <2>15 DEF CleanupRecord, workVars
  <2>16. ResetStale => TianshuTypeOK'
    BY DEF ResetStale, Stale, workVars
  <2> QED
    BY <2>1, <2>2, <2>3, <2>4, <2>5, <2>6, <2>7, <2>8, <2>9, <2>10, <2>11, <2>12, <2>13,
       <2>14, <2>15, <2>16, TianshuCases
<1> QED
  BY <1>1, <1>2, PTL

\* A worker is at a job exactly while it is in _process_task or in the except
\* clause behind it, and the columns of the table have their types.
THEOREM TianshuTypes == TianshuSpec => []TianshuTypeOK
  BY TianshuTyped, PTL DEF TianshuSpec

----------------------------------------------------------------------------
(* One attempt at a time *)

\* Whoever is at a job that is pending was given up as stale.
PutBackIfPending ==
    \A w \in Workers : job[w] # NoJob /\ status[job[w]] \in {"new", "pending"}
                       => retry_count[job[w]] > 0

LEMMA AttemptsApart == TianshuInit /\ [][TianshuNext]_tianshuVars => []OneAttemptAtATime
<1> DEFINE IInv == PutBackIfPending /\ OneAttemptAtATime
<1>1. TianshuInit => IInv
  BY DEF TianshuInit, PutBackIfPending, OneAttemptAtATime
<1>2. TianshuTypeOK /\ IInv /\ [TianshuNext]_tianshuVars => IInv'
  <2> SUFFICES ASSUME TianshuTypeOK, IInv, TianshuNext PROVE IInv'
    BY DEF PutBackIfPending, OneAttemptAtATime, tianshuVars, rowVars, workVars
  <2> USE TianshuNames DEF TianshuTypeOK, PutBackIfPending, OneAttemptAtATime, Set
  <2>1. ASSUME NEW w \in Workers, NEW j \in Jobs, Claim(w, j) PROVE IInv'
    BY <2>1 DEF Claim, TakeJob
  <2>2. ASSUME NEW w \in Workers, ParseSucceeds(w) PROVE IInv'
    BY <2>2 DEF ParseSucceeds, rowVars
  <2>3. ASSUME NEW w \in Workers, ParseRaises(w) PROVE IInv'
    BY <2>3 DEF ParseRaises, rowVars
  <2>4. ASSUME NEW w \in Workers, Complete(w) PROVE IInv'
    BY <2>4 DEF Complete, Owns
  <2>5. ASSUME NEW w \in Workers, Unlink(w) PROVE IInv'
    BY <2>5 DEF Unlink, rowVars
  <2>6. ASSUME NEW w \in Workers, Fail(w) PROVE IInv'
    BY <2>6 DEF Fail, Owns
  <2>7. ASSUME NEW w \in Workers, WorkerDies(w) PROVE IInv'
    BY <2>7 DEF WorkerDies, rowVars
  <2>8. ASSUME NEW j \in Jobs, CreateTask(j) PROVE IInv'
    BY <2>8 DEF CreateTask, workVars
  <2>9. ASSUME NEW j \in Jobs, BecomesStale(j) PROVE IInv'
    BY <2>9 DEF BecomesStale, workVars
  <2>10. ASSUME NEW j \in Jobs, CancelReads(j) PROVE IInv'
    BY <2>10 DEF CancelReads, rowVars, workVars
  <2>11. ASSUME NEW j \in Jobs, CancelWrites(j) PROVE IInv'
    BY <2>11 DEF CancelWrites, workVars
  <2>12. ASSUME NEW j \in Jobs, CancelUnlinks(j) PROVE IInv'
    BY <2>12 DEF CancelUnlinks, rowVars, workVars
  <2>13. ASSUME NEW j \in Jobs, SaveUpload(j) PROVE IInv'
    BY <2>13 DEF SaveUpload, rowVars, workVars
  <2>14. ASSUME NEW j \in Jobs, CleanupFiles(j) PROVE IInv'
    BY <2>14 DEF CleanupFiles, workVars
  <2>15. ASSUME NEW j \in Jobs, CleanupRecord(j) PROVE IInv'
    BY <2>15 DEF CleanupRecord, workVars
  <2>16. ResetStale => IInv'
    BY DEF ResetStale, Stale, workVars
  <2> QED
    BY <2>1, <2>2, <2>3, <2>4, <2>5, <2>6, <2>7, <2>8, <2>9, <2>10, <2>11, <2>12, <2>13,
       <2>14, <2>15, <2>16, TianshuCases
<1> QED
  BY <1>1, <1>2, TianshuTyped, PTL

\* get_next_task and reset_stale_tasks: a second attempt begins only after a reset.
THEOREM OneAttempt == TianshuSpec => []OneAttemptAtATime
  BY AttemptsApart, PTL DEF TianshuSpec

----------------------------------------------------------------------------
(* Who decides *)

LEMMA OwnersOnly == TianshuInit /\ [][TianshuNext]_tianshuVars => []OnlyTheOwnerDecides
<1>1. TianshuInit => OnlyTheOwnerDecides
  BY DEF TianshuInit, OnlyTheOwnerDecides
<1>2. TianshuTypeOK /\ OnlyTheOwnerDecides /\ [TianshuNext]_tianshuVars => OnlyTheOwnerDecides'
  <2> SUFFICES ASSUME TianshuTypeOK, OnlyTheOwnerDecides, TianshuNext
               PROVE  OnlyTheOwnerDecides'
    BY DEF OnlyTheOwnerDecides, tianshuVars, rowVars, workVars
  <2> USE TianshuNames DEF TianshuTypeOK, OnlyTheOwnerDecides, Set
  <2>1. ASSUME NEW w \in Workers, NEW j \in Jobs, Claim(w, j) PROVE OnlyTheOwnerDecides'
    BY <2>1 DEF Claim, TakeJob
  <2>2. ASSUME NEW w \in Workers, ParseSucceeds(w) PROVE OnlyTheOwnerDecides'
    BY <2>2 DEF ParseSucceeds, rowVars
  <2>3. ASSUME NEW w \in Workers, ParseRaises(w) PROVE OnlyTheOwnerDecides'
    BY <2>3 DEF ParseRaises, rowVars
  <2>4. ASSUME NEW w \in Workers, Complete(w) PROVE OnlyTheOwnerDecides'
    BY <2>4 DEF Complete, Owns
  <2>5. ASSUME NEW w \in Workers, Unlink(w) PROVE OnlyTheOwnerDecides'
    BY <2>5 DEF Unlink, rowVars
  <2>6. ASSUME NEW w \in Workers, Fail(w) PROVE OnlyTheOwnerDecides'
    BY <2>6 DEF Fail, Owns
  <2>7. ASSUME NEW w \in Workers, WorkerDies(w) PROVE OnlyTheOwnerDecides'
    BY <2>7 DEF WorkerDies, rowVars
  <2>8. ASSUME NEW j \in Jobs, CreateTask(j) PROVE OnlyTheOwnerDecides'
    BY <2>8 DEF CreateTask, workVars
  <2>9. ASSUME NEW j \in Jobs, BecomesStale(j) PROVE OnlyTheOwnerDecides'
    BY <2>9 DEF BecomesStale, workVars
  <2>10. ASSUME NEW j \in Jobs, CancelReads(j) PROVE OnlyTheOwnerDecides'
    BY <2>10 DEF CancelReads, rowVars, workVars
  <2>11. ASSUME NEW j \in Jobs, CancelWrites(j) PROVE OnlyTheOwnerDecides'
    BY <2>11 DEF CancelWrites, workVars
  <2>12. ASSUME NEW j \in Jobs, CancelUnlinks(j) PROVE OnlyTheOwnerDecides'
    BY <2>12 DEF CancelUnlinks, rowVars, workVars
  <2>13. ASSUME NEW j \in Jobs, SaveUpload(j) PROVE OnlyTheOwnerDecides'
    BY <2>13 DEF SaveUpload, rowVars, workVars
  <2>14. ASSUME NEW j \in Jobs, CleanupFiles(j) PROVE OnlyTheOwnerDecides'
    BY <2>14 DEF CleanupFiles, workVars
  <2>15. ASSUME NEW j \in Jobs, CleanupRecord(j) PROVE OnlyTheOwnerDecides'
    BY <2>15 DEF CleanupRecord, workVars
  <2>16. ResetStale => OnlyTheOwnerDecides'
    BY DEF ResetStale, Stale, workVars
  <2> QED
    BY <2>1, <2>2, <2>3, <2>4, <2>5, <2>6, <2>7, <2>8, <2>9, <2>10, <2>11, <2>12, <2>13,
       <2>14, <2>15, <2>16, TianshuCases
<1> QED
  BY <1>1, <1>2, TianshuTyped, PTL

\* update_task_status: the worker_id in the WHERE clause keeps off the answer of a
\* worker that was given up.
THEOREM OwnerDecides == TianshuSpec => []OnlyTheOwnerDecides
  BY OwnersOnly, PTL DEF TianshuSpec

LEMMA EndsStay == TianshuInit /\ [][TianshuNext]_tianshuVars => OnlyCancelReplacesEnd
<1> DEFINE Stays ==
        \A j \in Jobs :
          /\ status[j] \in {"completed", "failed"} =>
                 \/ status'[j] \in {status[j], "gone"}
                 \/ status'[j] = "cancelled" /\ cancelling[j] = "seen"
          /\ status[j] \in {"cancelled", "gone"} => status'[j] = status[j]
<1>1. TianshuTypeOK /\ [TianshuNext]_tianshuVars => [Stays]_tianshuVars
  <2> SUFFICES ASSUME TianshuTypeOK, TianshuNext PROVE Stays
    OBVIOUS
  <2> USE TianshuNames DEF TianshuTypeOK, Ended, Set
  <2>1. ASSUME NEW w \in Workers, NEW j \in Jobs, Claim(w, j) PROVE Stays
    BY <2>1 DEF Claim, TakeJob
  <2>2. ASSUME UNCHANGED status PROVE Stays
    BY <2>2
  <2>3. ASSUME NEW w \in Workers, Complete(w) PROVE Stays
    BY <2>3 DEF Complete, Owns
  <2>4. ASSUME NEW w \in Workers, Fail(w) PROVE Stays
    BY <2>4 DEF Fail, Owns
  <2>5. ASSUME NEW j \in Jobs, CreateTask(j) PROVE Stays
    BY <2>5 DEF CreateTask
  <2>6. ASSUME NEW j \in Jobs, CancelWrites(j) PROVE Stays
    BY <2>6 DEF CancelWrites
  <2>7. ASSUME NEW j \in Jobs, CleanupRecord(j) PROVE Stays
    BY <2>7 DEF CleanupRecord
  <2>8. ResetStale => Stays
    BY DEF ResetStale, Stale
  <2> HIDE DEF Stays
  <2> QED
    BY <2>1, <2>2, <2>3, <2>4, <2>5, <2>6, <2>7, <2>8, TianshuCases
    DEF ParseSucceeds, ParseRaises, Unlink, WorkerDies, BecomesStale, CancelReads,
        CancelUnlinks, SaveUpload, CleanupFiles, rowVars
<1>2. [][Stays]_tianshuVars => OnlyCancelReplacesEnd
  BY PTL DEF OnlyCancelReplacesEnd
<1> QED
  BY <1>1, <1>2, TianshuTyped, PTL

\* reset_stale_tasks and update_task_status: nothing brings an ended job back, and only a
\* cancellation that saw it pending replaces its end.
THEOREM Final == TianshuSpec => OnlyCancelReplacesEnd
  BY EndsStay, PTL DEF TianshuSpec

------------------------------------------------------------------------------
(***************************************************************************)
(* The parts together, as MCCalls runs them.                               *)
(***************************************************************************)

\* One part moves and the others stay: a behaviour of MCCalls is one of each part, so that
\* what is proved of a part's steps holds of it there.
THEOREM CallsAreParts ==
    CallsSpec => /\ ChatSpec
                 /\ CanvasInit /\ [][CanvasNext]_canvasVars
                 /\ SessionInit /\ [][SessionNext]_sessionVars
                 /\ TianshuInit /\ [][TianshuNext]_tianshuVars
<1>1. CallsInit => ChatInit /\ CanvasInit /\ SessionInit /\ TianshuInit
  BY DEF CallsInit
<1>2. [CallsNext]_callsVars => /\ [ChatNext]_chatVars /\ [CanvasNext]_canvasVars
                               /\ [SessionNext]_sessionVars /\ [TianshuNext]_tianshuVars
  <2>1. CASE UNCHANGED callsVars
    BY <2>1 DEF callsVars
  <2>2. CASE CallsNext
    BY <2>2 DEF CallsNext, InCanvas, InChat, InMcp, InTianshu
  <2> QED
    BY <2>1, <2>2
<1> QED
  BY <1>1, <1>2, PTL DEF CallsSpec, ChatSpec

\* Types of all parts.
THEOREM CallsTypes == CallsSpec => []CallsTypeOK
<1>1. CallsSpec => [](part \in Parts)
  <2>1. CallsInit => part \in Parts
    BY DEF CallsInit
  <2>2. part \in Parts /\ [CallsNext]_callsVars => (part \in Parts)'
    BY DEF CallsNext, InCanvas, InChat, InMcp, InTianshu, callsVars, Parts
  <2> QED
    BY <2>1, <2>2, PTL DEF CallsSpec
<1>2. CanvasTypeOK /\ ChatTypeOK /\ SessionTypeOK /\ TianshuTypeOK /\ part \in Parts => CallsTypeOK
  BY DEF CallsTypeOK
<1> QED
  BY <1>1, <1>2, CallsAreParts, CanvasTyped, ChatTypes, SessionTyped, TianshuTyped, PTL

\* The safety of all parts in what MCCalls runs: components read what has been made, iterations go
\* through their items once; tool calls are answered, streams end once; callers get their own answers and nothing runs after
\* close; one worker is at a job, its owner decides it and
\* only a cancellation that saw it pending replaces its end.
THEOREM CallsKeep ==
    CallsSpec => /\ []ReadsAreReady /\ []EachItemOnce
                 /\ [](HistoryIsPaired /\ StreamIsClosed)
                 /\ []OwnAnswer /\ ClosedIsQuiet
                 /\ [](OneAttemptAtATime /\ OnlyTheOwnerDecides) /\ OnlyCancelReplacesEnd
<1>1. CanvasInit /\ [][CanvasNext]_canvasVars => []ReadsAreReady
  BY CanvasesFollow, ReadsReady
<1>2. CanvasInit /\ [][CanvasNext]_canvasVars => []EachItemOnce
  BY CanvasesFollow, ItemsOnce
<1> QED
  BY <1>1, <1>2, CallsAreParts, Pairs, StreamsClose, AnswersInvariant, NothingAfterClose, AttemptsApart,
     OwnersOnly, EndsStay, PTL
==============================================================================
