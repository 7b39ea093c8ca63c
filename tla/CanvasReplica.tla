---------------------------- MODULE CanvasReplica -----------------------------
(***************************************************************************)
(* The runtime replicas of an agent: copies of its DSL in Redis, one per   *)
(* user, which runs use and write back, beside the DSL in the database's   *)
(* row, which /set saves.  A DSL is abstracted to the version of the graph *)
(* that was saved; /reset writes the version back that it reads.  A /set   *)
(* takes the lock of its user's replica and replaces that one alone, and   *)
(* the SDK saves the row and no replica; a run reads the replica when it   *)
(* starts and overwrites it when it has ended.  The key also holds the     *)
(* tenant, which is the user: a run for another "user_id" finds nothing.   *)
(***************************************************************************)
EXTENDS Naturals, FiniteSets

CONSTANTS Callers,    \* requests in flight
          Users, UserOf, \* who uses the agent; per request: whose it is
          MaxSaves,   \* bound: saves of the row
          MaxExpiries \* bound: keys that expire in Redis

ASSUME ReplicaAssumption == MaxSaves \in Nat /\ MaxExpiries \in Nat /\ UserOf \in [Callers -> Users]
NoCaller == "nobody"
ASSUME ReplicaNames == NoCaller \notin Callers
NoReplica == 0

VARIABLES dsl,        \* version in the database
          replica,    \* per user: version under the replica's key, or NoReplica
          lockOf,     \* per user: who is in the lock's key
          step,       \* per request: where it stands
          own,        \* per request: the version it carries
          expiries,   \* bound
          mine,       \* history, per user: the version it saved last with /set
          overlap     \* history, per user: one of its requests that carry a DSL
                      \* met a /set of its own

replicaVars == <<dsl, replica, lockOf, step, own, expiries, mine, overlap>>
replicaHistory == <<mine, overlap>>

Moves(c, from, to) == step[c] = from /\ step' = [step EXCEPT ![c] = to]
Carries(c, v) == own' = [own EXCEPT ![c] = v]
Ends(c, from) == Moves(c, from, "idle") /\ Carries(c, NoReplica)
Of(u) == {c \in Callers : UserOf[c] = u}
\* A /set meets what its user has under way, and what starts before it is done.
Meets(c, steps) ==
    overlap' = [overlap EXCEPT ![UserOf[c]] = @ \/ \E d \in Of(UserOf[c]) \ {c} : step[d] \in steps]
Saving == {"lock", "replace", "unlock"}
Stores(c, v) == replica' = [replica EXCEPT ![UserOf[c]] = v]

ReplicaInit ==
    /\ dsl = 1 /\ replica = [u \in Users |-> NoReplica] /\ lockOf = [u \in Users |-> NoCaller]
    /\ step = [c \in Callers |-> "idle"] /\ own = [c \in Callers |-> NoReplica]
    /\ expiries = 0 /\ mine = [u \in Users |-> NoReplica] /\ overlap = [u \in Users |-> FALSE]

NewVersion == dsl <= MaxSaves /\ dsl' = dsl + 1

\* /set: the row, then replace_for_set.
SaveRow(c) ==
    /\ NewVersion /\ mine' = [mine EXCEPT ![UserOf[c]] = dsl + 1]
    /\ Moves(c, "idle", "lock") /\ Carries(c, dsl + 1)
    /\ Meets(c, Saving \cup {"look", "create", "run"})
    /\ UNCHANGED <<replica, lockOf, expiries>>

\* update_agent of the SDK: the row alone.
UpdateRow ==
    /\ NewVersion
    /\ UNCHANGED <<replica, lockOf, step, own, expiries, replicaHistory>>

AcquireReplica(c) ==
    /\ lockOf[UserOf[c]] = NoCaller /\ lockOf' = [lockOf EXCEPT ![UserOf[c]] = c]
    /\ Moves(c, "lock", "replace")
    /\ UNCHANGED <<dsl, replica, own, expiries, replicaHistory>>

\* _acquire_lock_with_retry gives up: "canvas saved, but replica sync failed".
GiveUpReplica(c) ==
    /\ lockOf[UserOf[c]] # NoCaller /\ Ends(c, "lock")
    /\ UNCHANGED <<dsl, replica, lockOf, expiries, replicaHistory>>

\* Mutant: an existing replica is kept, as create_if_absent does.
ReplaceAbsent(c) ==
    /\ Moves(c, "replace", "unlock")
    /\ Stores(c, IF replica[UserOf[c]] = NoReplica THEN own[c] ELSE replica[UserOf[c]])
    /\ UNCHANGED <<dsl, lockOf, own, expiries, replicaHistory>>

Replace(c) ==
    /\ Moves(c, "replace", "unlock") /\ Stores(c, own[c])
    /\ UNCHANGED <<dsl, lockOf, own, expiries, replicaHistory>>

ReleaseReplica(c) ==
    /\ Ends(c, "unlock")
    /\ lockOf' = [lockOf EXCEPT ![UserOf[c]] = IF @ = c THEN NoCaller ELSE @]
    /\ UNCHANGED <<dsl, replica, expiries, replicaHistory>>

\* /get: the row is read, then bootstrap looks for the replica, then writes it.
ReadRow(c) ==
    /\ Moves(c, "idle", "look") /\ Carries(c, dsl) /\ Meets(c, Saving)
    /\ UNCHANGED <<dsl, replica, lockOf, expiries, mine>>

Look(c) ==
    /\ \/ replica[UserOf[c]] = NoReplica /\ Moves(c, "look", "create") /\ UNCHANGED own
       \/ replica[UserOf[c]] # NoReplica /\ Ends(c, "look")
    /\ UNCHANGED <<dsl, replica, lockOf, expiries, replicaHistory>>

Create(c) ==
    /\ Ends(c, "create") /\ Stores(c, own[c])
    /\ UNCHANGED <<dsl, lockOf, expiries, replicaHistory>>

\* /completion: load_for_run, the run, commit_after_run without the lock.
Load(c) ==
    /\ replica[UserOf[c]] # NoReplica /\ Moves(c, "idle", "run") /\ Carries(c, replica[UserOf[c]])
    /\ Meets(c, Saving)
    /\ UNCHANGED <<dsl, replica, lockOf, expiries, mine>>

RunRaises(c) ==
    /\ Ends(c, "run")
    /\ UNCHANGED <<dsl, replica, lockOf, expiries, replicaHistory>>

Commit(c) ==
    /\ Ends(c, "run") /\ Stores(c, own[c])
    /\ UNCHANGED <<dsl, lockOf, expiries, replicaHistory>>

\* The time to live of a replica, and of a lock's key.
ReplicaExpires(u) ==
    /\ expiries < MaxExpiries /\ expiries' = expiries + 1
    /\ \/ /\ replica[u] # NoReplica /\ replica' = [replica EXCEPT ![u] = NoReplica]
          /\ UNCHANGED lockOf
       \/ /\ lockOf[u] # NoCaller /\ lockOf' = [lockOf EXCEPT ![u] = NoCaller]
          /\ UNCHANGED replica
    /\ UNCHANGED <<dsl, step, own, replicaHistory>>

ReplicaStep(c) == \/ SaveRow(c) \/ AcquireReplica(c) \/ GiveUpReplica(c) \/ Replace(c) \/ ReleaseReplica(c)
                  \/ ReadRow(c) \/ Look(c) \/ Create(c) \/ Load(c) \/ RunRaises(c) \/ Commit(c)
ReplicaNext == \/ UpdateRow
               \/ \E u \in Users : ReplicaExpires(u)
               \/ \E c \in Callers : ReplicaStep(c)
ReplicaSpec == ReplicaInit /\ [][ReplicaNext]_replicaVars

----------------------------------------------------------------------------
ReplicaTypeOK ==
    /\ dsl \in Nat /\ replica \in [Users -> 0 .. dsl]
    /\ lockOf \in [Users -> Callers \cup {NoCaller}]
    /\ step \in [Callers -> Saving \cup {"idle", "look", "create", "run"}]
    /\ own \in [Callers -> 0 .. dsl]

\* replace_for_set, bootstrap, commit_after_run: the replica that a user's next run will
\* use is not older than what that user saved last with /set, if no request of that user
\* ever met one of its /sets.  What others and the SDK save may be newer than it.
ReplicaHasOwnSave ==
    \A u \in Users :
        ~overlap[u] /\ replica[u] # NoReplica /\ (\A c \in Of(u) : step[c] \notin Saving)
            => replica[u] >= mine[u]
=============================================================================
