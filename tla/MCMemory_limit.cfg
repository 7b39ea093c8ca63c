\* One turn in a memory of one message: its raw message, then the one the LLM
\* extracts from it, one save after the other; nothing fails.
SPECIFICATION MemorySpec
CONSTANTS
    Turns = {t1}
    Old = {}
    Limit = 1
    MaxExtracts = 1
    MaxMemoryFaults = 0
    MaxId = 5
    MaxForgotten = 0
CHECK_DEADLOCK FALSE
INVARIANTS MemoryWithinLimit
