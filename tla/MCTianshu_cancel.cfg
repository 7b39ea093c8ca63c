\* A worker takes the job between the two statements of cancel_task.
SPECIFICATION TianshuSpec
CONSTANTS
    low = low
    high = high
    Jobs = {low, high}
    Priority <- MCPriority
    Workers = {w1, w2}
    MaxTroubles = 1
PROPERTIES OnlyPendingIsCancelled
CHECK_DEADLOCK FALSE
