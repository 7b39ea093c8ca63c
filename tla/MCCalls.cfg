\* Seven small canvases, a chat with a retry and a round of tools, two calls and two
\* ends of an MCP session, two jobs for two workers.
SPECIFICATION CallsSpec
CONSTANTS
    Graphs <- MCGraphs
    Items = 2
    MaxLoops = 2
    MaxTurns = 2
    MaxErrors = 1
    MaxPath = 22
    MaxRetries = 1
    MaxRounds = 1
    MaxCalls = 2
    Requests = {r1, r2}
    Closers = {k1, k2}
    MaxBreaks = 1
    NoRequest = NoRequest
    low = low
    high = high
    Jobs = {low, high}
    Priority <- MCPriority
    Workers = {w1, w2}
    MaxTroubles = 1
CHECK_DEADLOCK FALSE
INVARIANTS CallsTypeOK ReadsAreReady EachItemOnce
    HistoryIsPaired StreamIsClosed OwnAnswer OneAttemptAtATime OnlyTheOwnerDecides
PROPERTIES TurnEnds ClosedIsQuiet AllReturn OnlyCancelReplacesEnd EveryJobEnds
