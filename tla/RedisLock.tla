------------------------------- MODULE RedisLock -------------------------------
(***************************************************************************)
(* RedisDistributedLock of redis_conn.py: a key with a time to live that   *)
(* is set if absent and holds the lock_value of its owner.  acquire and    *)
(* spin_acquire first delete a key that holds their own value, left by an  *)
(* earlier life; release deletes the key only while it holds the caller's  *)
(* value (a Lua script).  The update_progress threads of the API servers,  *)
(* the executors' heartbeat and GraphRAG's merges use it.                  *)
(***************************************************************************)
CONSTANTS Procs,     \* the users of one lock key
          Values,    \* lock values
          Value,     \* per process: its lock_value
          NoValue    \* the key does not exist

\* Every user has a value of its own: a uuid, or its consumer name.  (GraphRAG's
\* merge of a dataset uses the constant "batch_merge" and is outside of this.)
ASSUME LockAssumption ==
    /\ Value \in [Procs -> Values]
    /\ \A p, q \in Procs : Value[p] = Value[q] => p = q
    /\ NoValue \notin Values

VARIABLES key,   \* what the key holds
          pc,    \* per process: "idle", "trying" or "held"
          late   \* the holders whose time to live has run out (observation)

vars == <<key, pc, late>>

Init == /\ key = NoValue
        /\ pc = [p \in Procs |-> "idle"]
        /\ late = {}

Goto(p, label) == pc' = [pc EXCEPT ![p] = label]

\* Mutant: DEL without the comparison.
DeleteAlways(p) == key' = NoValue

\* The Lua script: compare and delete, atomically.
DeleteIfEqual(p) == key' = IF key = Value[p] THEN NoValue ELSE key

\* acquire and spin_acquire begin alike, also in a process that holds the lock:
\* run_graphrag acquires it once more before each phase.
Clear(p) ==
    /\ pc[p] \in {"idle", "held"}
    /\ DeleteIfEqual(p)
    /\ Goto(p, "trying")
    /\ late' = late \ {p}

\* SET key value NX PX timeout.
Acquire(p) ==
    /\ pc[p] = "trying" /\ key = NoValue
    /\ key' = Value[p]
    /\ Goto(p, "held")
    /\ UNCHANGED late

\* The same, and its answer is lost: acquire raises.
AcquireFault(p) ==
    /\ pc[p] = "trying" /\ key = NoValue
    /\ key' = Value[p]
    /\ Goto(p, "idle")
    /\ UNCHANGED late

\* Mutant: the caller does not look at the answer of acquire.
GiveUpUnnoticed(p) ==
    /\ pc[p] = "trying" /\ key # NoValue
    /\ Goto(p, "held")
    /\ UNCHANGED <<key, late>>

\* blocking_timeout has passed; a spin_acquire goes on trying instead.
GiveUp(p) ==
    /\ pc[p] = "trying" /\ key # NoValue
    /\ Goto(p, "idle")
    /\ UNCHANGED <<key, late>>

\* release; update_progress calls it a second time in its finally block, and
\* also when it did not get the lock.
Release(p) ==
    /\ pc[p] \in {"idle", "held"}
    /\ DeleteIfEqual(p)
    /\ Goto(p, "idle")
    /\ late' = late \ {p}

\* The holder dies, or its release raises: the key stays.
Crash(p) ==
    /\ pc[p] # "idle"
    /\ Goto(p, "idle")
    /\ late' = late \ {p}
    /\ UNCHANGED key

\* timeout: the key goes, whether its owner has finished or not.
Expire ==
    /\ key # NoValue
    /\ key' = NoValue
    /\ late' = late \cup {p \in Procs : pc[p] = "held" /\ Value[p] = key}
    /\ UNCHANGED pc

Next == \/ Expire
        \/ \E p \in Procs : \/ Clear(p) \/ Acquire(p) \/ AcquireFault(p) \/ GiveUp(p)
                            \/ Release(p) \/ Crash(p)

Spec == Init /\ [][Next]_vars

----------------------------------------------------------------------------
\* Types of the variables; only holders are late.
TypeOK == /\ key \in Values \cup {NoValue}
          /\ pc \in [Procs -> {"idle", "trying", "held"}]
          /\ late \subseteq {p \in Procs : pc[p] = "held"}

\* Whoever is inside within its time to live has its value in the key: no second
\* release, late release or new start of anybody else took it away.
HolderOwnsKey == \A p \in Procs : pc[p] = "held" /\ p \notin late => key = Value[p]

\* Two are inside at once only when one of them has outstayed its time to live.
MutualExclusion ==
    \A p, q \in Procs : pc[p] = "held" /\ pc[q] = "held" /\ p # q => p \in late \/ q \in late
=============================================================================
