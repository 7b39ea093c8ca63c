------------------------------- MODULE MCCalls -------------------------------
(* Parts that carry a call to its end: a canvas in execution, a call of a    *)
(* chat model, a session with an MCP server, and the task service of MinerU. *)
(* They share no state: one of them, part, moves, and the others stay as     *)
(* they are.                                                                 *)
EXTENDS CanvasRun, LLMChat, McpSession, MCTianshu

\* Canvases, by their components: rows of [kind, down, parent, reads].
Row(k, d, p, r) == [kind |-> k, down |-> d, parent |-> p, reads |-> r]
Canvas(rows, gotos, collects) ==
    [kind     |-> [c \in DOMAIN rows |-> rows[c].kind],
     down     |-> [c \in DOMAIN rows |-> rows[c].down],
     parent   |-> [c \in DOMAIN rows |-> IF rows[c].parent = "" THEN c ELSE rows[c].parent],
     reads    |-> [c \in DOMAIN rows |-> rows[c].reads],
     goto     |-> [c \in DOMAIN rows |-> IF c \in DOMAIN gotos THEN gotos[c] ELSE <<>>],
     collects |-> collects]

MCBegin(d) == Row("begin", d, "", {})
\* Two ways of different length to a component that reads from both.
MCJoin ==
    Canvas([begin |-> MCBegin(<<"c", "a">>), a |-> Row("agent", <<"b">>, "", {"begin"}),
            b |-> Row("agent", <<"c">>, "", {"a"}), c |-> Row("message", <<>>, "", {"a"})],
           [x \in {"a"} |-> <<"c">>], [x \in {} |-> x])
\* The same two ways, taken in the other order.
MCMates ==
    Canvas([begin |-> MCBegin(<<"a", "c">>), a |-> Row("agent", <<"c">>, "", {"begin"}),
            c |-> Row("message", <<>>, "", {"a"})], [x \in {} |-> x], [x \in {} |-> x])
MCIteration ==
    Canvas([begin |-> MCBegin(<<"it">>), it |-> Row("iteration", <<"d">>, "", {"begin"}),
            item |-> Row("iterationitem", <<"a">>, "it", {}), a |-> Row("agent", <<"b">>, "it", {"item"}),
            b |-> Row("agent", <<>>, "it", {"a"}), d |-> Row("message", <<>>, "", {"it"})],
           [x \in {} |-> x], [x \in {"it"} |-> "b"])
MCLoop ==
    Canvas([begin |-> MCBegin(<<"loop">>), loop |-> Row("loop", <<"d">>, "", {}),
            item |-> Row("loopitem", <<"s">>, "loop", {}), s |-> Row("switch", <<"a", "x">>, "loop", {}),
            a |-> Row("agent", <<>>, "loop", {}), x |-> Row("exitloop", <<>>, "loop", {}),
            d |-> Row("message", <<>>, "", {})], [x \in {} |-> x], [x \in {} |-> x])
\* A component that fails goes to another, which asks the user.
MCAsk ==
    Canvas([begin |-> MCBegin(<<"a">>), a |-> Row("agent", <<"f">>, "", {}),
            f |-> Row("userfillup", <<"b">>, "", {}), b |-> Row("message", <<>>, "", {"f"}),
            h |-> Row("message", <<>>, "", {})],
           [x \in {"a"} |-> <<"h", "f">>], [x \in {} |-> x])
\* A tool and an aggregator read what is not there yet: they are not held back.
MCEarly ==
    Canvas([begin |-> MCBegin(<<"v", "w", "a">>), v |-> Row("variableaggregator", <<"c">>, "", {"a"}),
            w |-> Row("tool", <<>>, "", {"a"}), a |-> Row("agent", <<>>, "", {}),
            c |-> Row("message", <<>>, "", {"v"})], [x \in {} |-> x], [x \in {} |-> x])
\* An iteration finds nothing when the switch has passed over what it reads; its error goes
\* to its item, which looks again.
MCPassed ==
    Canvas([begin |-> MCBegin(<<"s">>), s |-> Row("switch", <<"a", "it">>, "", {}),
            a |-> Row("agent", <<"it">>, "", {}), it |-> Row("iteration", <<>>, "", {"a"}),
            item |-> Row("iterationitem", <<"b">>, "it", {}), b |-> Row("agent", <<>>, "it", {"item"})],
           [x \in {"it"} |-> <<"item">>], [x \in {"it"} |-> "b"])
MCGraphs == {MCJoin, MCMates, MCEarly, MCPassed, MCIteration, MCLoop, MCAsk}

\* What ReadsAreReady and EachItemOnce are stated for.
ASSUME CanvasesFollow == \A g \in Graphs : ReadsFollow(g) /\ ItemsGoOneWay(g)

-----------------------------------------------------------------------------
VARIABLE part
Parts == {"canvas", "chat", "mcp", "tianshu"}
callsVars == <<part, canvasVars, chatVars, sessionVars, tianshuVars>>

InCanvas(A)  == part = "canvas" /\ A /\ UNCHANGED <<part, chatVars, sessionVars, tianshuVars>>
InChat(A)    == part = "chat" /\ A /\ UNCHANGED <<part, canvasVars, sessionVars, tianshuVars>>
InMcp(A)     == part = "mcp" /\ A /\ UNCHANGED <<part, canvasVars, chatVars, tianshuVars>>
InTianshu(A) == part = "tianshu" /\ A /\ UNCHANGED <<part, canvasVars, chatVars, sessionVars>>

CallsInit ==
    /\ part \in Parts
    /\ CanvasInit /\ (part # "canvas" => graph = MCJoin)
    /\ ChatInit /\ (part # "chat" => call = [lite |-> FALSE, stream |-> FALSE, tools |-> FALSE])
    /\ SessionInit /\ TianshuInit

CallsNext ==
    InCanvas(CanvasNext) \/ InChat(ChatNext) \/ InMcp(SessionNext) \/ InTianshu(TianshuNext)

\* The fairness of each part.
CallsFairness ==
    /\ WF_callsVars(InCanvas(RunOn))
    /\ WF_callsVars(InMcp(LoopStops))
    /\ \A r \in Requests :
         WF_callsVars(InMcp(Submit(r))) /\ WF_callsVars(InMcp(TimesOut(r)))
    /\ \A c \in Closers :
         /\ WF_callsVars(InMcp(SetClose(c)))
         /\ WF_callsVars(InMcp(Drain(c))) /\ WF_callsVars(InMcp(Join(c)))
    /\ \A w \in Workers : WF_callsVars(InTianshu(Work(w)))
    /\ \A j \in Jobs : WF_callsVars(InTianshu(BecomesStale(j)))
    /\ WF_callsVars(InTianshu(ResetStale))

CallsSpec == CallsInit /\ [][CallsNext]_callsVars /\ CallsFairness

\* Types of the variables of all parts.
CallsTypeOK ==
    CanvasTypeOK /\ ChatTypeOK /\ SessionTypeOK /\ TianshuTypeOK /\ part \in Parts
=============================================================================
