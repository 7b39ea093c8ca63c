------------------------------ MODULE LockProofs ------------------------------
(***************************************************************************)
(* Who holds what: the lock in Redis, the canvas replica that is written   *)
(* under one, and the containers of the sandbox with their lock and        *)
(* semaphores.                                                             *)
(***************************************************************************)
EXTENDS RedisLock, CanvasReplica, SandboxPool, FiniteSetTheorems, TLAPS

------------------------------------------------------------------------------
(***************************************************************************)
(* RedisLock excludes for any number of users.  The invariant is that a    *)
(* holder within its time to live owns the key; since values differ, the   *)
(* key has one owner.                                                      *)
(***************************************************************************)

\* Types are preserved by every step of the lock's users.
THEOREM LockTypes == Spec => []TypeOK
<1>1. Init => TypeOK
  BY LockAssumption DEF Init, TypeOK
<1>2. TypeOK /\ [Next]_vars => TypeOK'
  <2> SUFFICES ASSUME TypeOK, [Next]_vars PROVE TypeOK'
    OBVIOUS
  <2> USE LockAssumption DEF TypeOK, Goto
  <2>1. CASE Expire
    BY <2>1 DEF Expire
  <2>2. ASSUME NEW p \in Procs, Clear(p) PROVE TypeOK'
    BY <2>2 DEF Clear, DeleteIfEqual
  <2>3. ASSUME NEW p \in Procs, Acquire(p) PROVE TypeOK'
    BY <2>3 DEF Acquire
  <2>4. ASSUME NEW p \in Procs, AcquireFault(p) PROVE TypeOK'
    BY <2>4 DEF AcquireFault
  <2>5. ASSUME NEW p \in Procs, GiveUp(p) PROVE TypeOK'
    BY <2>5 DEF GiveUp
  <2>6. ASSUME NEW p \in Procs, Release(p) PROVE TypeOK'
    BY <2>6 DEF Release, DeleteIfEqual
  <2>7. ASSUME NEW p \in Procs, Crash(p) PROVE TypeOK'
    BY <2>7 DEF Crash
  <2>8. CASE UNCHANGED vars
    BY <2>8 DEF vars
  <2> QED
    BY <2>1, <2>2, <2>3, <2>4, <2>5, <2>6, <2>7, <2>8 DEF Next
<1> QED
  BY <1>1, <1>2, PTL DEF Spec

\* The key holds the value of whoever is inside in time: a step of another
\* process cannot delete it, because the values differ.
THEOREM HoldersOwn == Spec => []HolderOwnsKey
<1>1. Init => HolderOwnsKey
  BY DEF Init, HolderOwnsKey
<1>2. TypeOK /\ HolderOwnsKey /\ [Next]_vars => HolderOwnsKey'
  <2> SUFFICES ASSUME TypeOK, HolderOwnsKey, [Next]_vars,
                      NEW h \in Procs, pc'[h] = "held", h \notin late'
               PROVE  key' = Value[h]
    BY DEF HolderOwnsKey
  <2> USE LockAssumption DEF TypeOK, HolderOwnsKey, Goto
  <2>1. CASE Expire
    <3>1. pc[h] = "held" /\ h \notin late /\ key = Value[h]
      BY <2>1 DEF Expire
    <3> QED
      BY <2>1, <3>1 DEF Expire
  <2>2. ASSUME NEW p \in Procs, Clear(p) PROVE key' = Value[h]
    BY <2>2 DEF Clear, DeleteIfEqual
  <2>3. ASSUME NEW p \in Procs, Acquire(p) PROVE key' = Value[h]
    <3>1. CASE h = p
      BY <2>3, <3>1 DEF Acquire
    <3>2. CASE h # p
      <4>1. key = Value[h]
        BY <2>3, <3>2 DEF Acquire
      <4> QED
        BY <2>3, <4>1 DEF Acquire
    <3> QED
      BY <3>1, <3>2
  <2>4. ASSUME NEW p \in Procs, AcquireFault(p) PROVE key' = Value[h]
    <3>1. h # p /\ key = Value[h]
      BY <2>4 DEF AcquireFault
    <3> QED
      BY <2>4, <3>1 DEF AcquireFault
  <2>5. ASSUME NEW p \in Procs, GiveUp(p) PROVE key' = Value[h]
    BY <2>5 DEF GiveUp
  <2>6. ASSUME NEW p \in Procs, Release(p) PROVE key' = Value[h]
    BY <2>6 DEF Release, DeleteIfEqual
  <2>7. ASSUME NEW p \in Procs, Crash(p) PROVE key' = Value[h]
    BY <2>7 DEF Crash
  <2>8. CASE UNCHANGED vars
    BY <2>8 DEF vars
  <2> QED
    BY <2>1, <2>2, <2>3, <2>4, <2>5, <2>6, <2>7, <2>8 DEF Next
<1> QED
  BY <1>1, <1>2, LockTypes, PTL DEF Spec

\* RedisDistributedLock excludes: two holders at once, and one of them is late.
THEOREM Excludes == Spec => []MutualExclusion
<1>1. HolderOwnsKey => MutualExclusion
  BY LockAssumption DEF HolderOwnsKey, MutualExclusion
<1> QED
  BY <1>1, HoldersOwn, PTL

------------------------------------------------------------------------------
(***************************************************************************)
(* CanvasReplica for any number of users, requests, saves and expiries: as *)
(* long as no request of a user meets a /set of that user, each carries a  *)
(* version that is no older than what the user saved last.  A /set that    *)
(* gives up the lock would leave an old replica; it cannot when it is      *)
(* alone, since a lock is in the hand of another /set of the same user.    *)
(***************************************************************************)

\* Where a lock's value comes from, whether or not the lock has expired meanwhile.
LockIsUsed ==
    \A u \in Users : lockOf[u] # NoCaller =>
        lockOf[u] \in Of(u) /\ step[lockOf[u]] \in {"replace", "unlock"}

\* What a user's requests carry as long as none has met a /set of that user.
Undisturbed(u) ==
    /\ \A c \in Of(u) : step[c] # "idle" => own[c] >= mine[u]
    /\ \A c, d \in Of(u) : step[c] \in Saving /\ c # d => step[d] = "idle"
    /\ (\A c \in Of(u) : step[c] \notin {"lock", "replace"})
          => replica[u] = NoReplica \/ replica[u] >= mine[u]

Saved == mine \in [Users -> Nat] /\ \A u \in Users : mine[u] <= dsl
ReplicaInv == /\ ReplicaTypeOK /\ LockIsUsed /\ Saved
              /\ overlap \in [Users -> BOOLEAN] /\ \A u \in Users : ~overlap[u] => Undisturbed(u)

\* One step per action; a request disturbs what is said of its own user.
LEMMA ReplicaInvariant == ReplicaSpec => []ReplicaInv
<1>1. ReplicaInit => ReplicaInv
  BY DEF ReplicaInit, ReplicaInv, ReplicaTypeOK, LockIsUsed, Saved, Undisturbed, NoReplica, Saving, Of
<1>2. ReplicaInv /\ [ReplicaNext]_replicaVars => ReplicaInv'
  <2> SUFFICES ASSUME ReplicaInv, [ReplicaNext]_replicaVars PROVE ReplicaInv'
    OBVIOUS
  <2> USE ReplicaNames, ReplicaAssumption
      DEF ReplicaInv, ReplicaTypeOK, LockIsUsed, Saved, Undisturbed, NoReplica, Saving, Of,
          Moves, Carries, Ends, Meets, Stores, NewVersion, replicaHistory
  <2>1. ASSUME NEW c \in Callers, SaveRow(c) PROVE ReplicaInv'
    <3>1. ReplicaTypeOK' /\ LockIsUsed' /\ Saved' /\ overlap' \in [Users -> BOOLEAN]
      BY <2>1 DEF SaveRow
    <3>2. ASSUME NEW u \in Users, ~overlap'[u], u = UserOf[c] PROVE Undisturbed(u)'
      <4>1. ~overlap[u] /\ \A d \in Of(u) \ {c} : step[d] \notin Saving \cup {"look", "create", "run"}
        BY <2>1, <3>2 DEF SaveRow
      <4>2. \A d \in Of(u) \ {c} : step[d] = "idle" /\ step'[d] = "idle"
        BY <2>1, <4>1 DEF SaveRow
      <4>3. mine'[u] = dsl + 1 /\ own'[c] = dsl + 1 /\ step'[c] = "lock"
        BY <2>1, <3>2 DEF SaveRow
      <4> QED
        BY <3>2, <4>2, <4>3
    <3>3. ASSUME NEW u \in Users, ~overlap'[u], u # UserOf[c] PROVE Undisturbed(u)'
      BY <2>1, <3>3 DEF SaveRow
    <3> QED
      BY <3>1, <3>2, <3>3
  <2>14. CASE UpdateRow
    BY <2>14 DEF UpdateRow
  <2>2. ASSUME NEW c \in Callers, AcquireReplica(c) PROVE ReplicaInv'
    BY <2>2 DEF AcquireReplica
  <2>3. ASSUME NEW c \in Callers, GiveUpReplica(c) PROVE ReplicaInv'
    BY <2>3 DEF GiveUpReplica
  <2>4. ASSUME NEW c \in Callers, Replace(c) PROVE ReplicaInv'
    BY <2>4 DEF Replace
  <2>5. ASSUME NEW c \in Callers, ReleaseReplica(c) PROVE ReplicaInv'
    BY <2>5 DEF ReleaseReplica
  <2>6. ASSUME NEW c \in Callers, ReadRow(c) PROVE ReplicaInv'
    <3>1. ReplicaTypeOK' /\ LockIsUsed' /\ Saved' /\ overlap' \in [Users -> BOOLEAN]
      BY <2>6 DEF ReadRow
    <3>2. ASSUME NEW u \in Users, ~overlap'[u], u = UserOf[c] PROVE Undisturbed(u)'
      <4>1. ~overlap[u] /\ \A d \in Of(u) \ {c} : step[d] \notin Saving
        BY <2>6, <3>2 DEF ReadRow
      <4> QED
        BY <2>6, <3>2, <4>1 DEF ReadRow
    <3>3. ASSUME NEW u \in Users, ~overlap'[u], u # UserOf[c] PROVE Undisturbed(u)'
      BY <2>6, <3>3 DEF ReadRow
    <3> QED
      BY <3>1, <3>2, <3>3
  <2>7. ASSUME NEW c \in Callers, Look(c) PROVE ReplicaInv'
    BY <2>7 DEF Look
  <2>8. ASSUME NEW c \in Callers, Create(c) PROVE ReplicaInv'
    BY <2>8 DEF Create
  <2>9. ASSUME NEW c \in Callers, Load(c) PROVE ReplicaInv'
    <3>1. ReplicaTypeOK' /\ LockIsUsed' /\ Saved' /\ overlap' \in [Users -> BOOLEAN]
      BY <2>9 DEF Load
    <3>2. ASSUME NEW u \in Users, ~overlap'[u], u = UserOf[c] PROVE Undisturbed(u)'
      <4>1. ~overlap[u] /\ \A d \in Of(u) \ {c} : step[d] \notin Saving
        BY <2>9, <3>2 DEF Load
      <4> QED
        BY <2>9, <3>2, <4>1 DEF Load
    <3>3. ASSUME NEW u \in Users, ~overlap'[u], u # UserOf[c] PROVE Undisturbed(u)'
      BY <2>9, <3>3 DEF Load
    <3> QED
      BY <3>1, <3>2, <3>3
  <2>10. ASSUME NEW c \in Callers, RunRaises(c) PROVE ReplicaInv'
    BY <2>10 DEF RunRaises
  <2>11. ASSUME NEW c \in Callers, Commit(c) PROVE ReplicaInv'
    BY <2>11 DEF Commit
  <2>12. ASSUME NEW u \in Users, ReplicaExpires(u) PROVE ReplicaInv'
    BY <2>12 DEF ReplicaExpires
  <2>13. ASSUME UNCHANGED replicaVars PROVE ReplicaInv'
    BY <2>13 DEF replicaVars
  <2> QED
    BY <2>1, <2>2, <2>3, <2>4, <2>5, <2>6, <2>7, <2>8, <2>9, <2>10, <2>11, <2>12, <2>13, <2>14
    DEF ReplicaNext, ReplicaStep
<1> QED
  BY <1>1, <1>2, PTL DEF ReplicaSpec

\* replace_for_set, bootstrap and commit_after_run: a user's replica is no older than what
\* that user saved last, unless a /set of the user overlapped another request of the user.
THEOREM ReplicaKeepsUp == ReplicaSpec => []ReplicaHasOwnSave
<1>1. ReplicaInv => ReplicaHasOwnSave
  BY DEF ReplicaInv, Undisturbed, ReplicaHasOwnSave, Saving, NoReplica
<1> QED
  BY <1>1, ReplicaInvariant, PTL

------------------------------------------------------------------------------
(***************************************************************************)
(* The container pool for any number of languages, containers, requests    *)
(* and failures: a container has one user.  A coroutine has a container in *)
(* its hand exactly between the allocation and the end of the release, and *)
(* a queue lists names of its language, each once and in nobody's hand.    *)
(* The semaphore admits no more than there are containers, so that whoever *)
(* finds the queue empty has been outnumbered: a container is lost.        *)
(***************************************************************************)
Before == {"idle", "allocate", "again"}
Within == {"check", "inspect", "recreate", "run", "release", "inspectBack", "recreateBack"}

Once(q) == \A i, j \in DOMAIN q : q[i] = q[j] => i = j
Lists(q, c) == \E i \in DOMAIN q : q[i] = c

HandsOK ==
    /\ at \in [Runners -> Before \cup Within]
    /\ wants \in [Runners -> Languages]
    /\ hand \in [Runners -> Containers \cup {NoContainer}]
    /\ \A r \in Runners : hand[r] = NoContainer <=> at[r] \in Before
    /\ \A r \in Runners : hand[r] # NoContainer => LanguageOf[hand[r]] = wants[r]
    /\ \A r, s \in Runners : hand[r] # NoContainer /\ hand[r] = hand[s] => r = s

QueuesOK ==
    /\ queue \in [Languages -> Seq(Containers)]
    /\ \A l \in Languages : Once(queue[l])
    /\ \A l \in Languages, i \in Nat : i \in DOMAIN queue[l] => LanguageOf[queue[l][i]] = l
    /\ \A r \in Runners : hand[r] # NoContainer => ~Lists(queue[wants[r]], hand[r])

PoolInv == HandsOK /\ QueuesOK

LEMMA PoolCases ==
    ASSUME PoolNext,
           NEW P,
           ASSUME NEW r \in Runners, NEW l \in Languages, Admit(r, l) PROVE P,
           ASSUME NEW r \in Runners, Take(r) PROVE P,
           ASSUME NEW r \in Runners, FindNone(r) PROVE P,
           ASSUME NEW r \in Runners, Busy(r) PROVE P,
           ASSUME NEW r \in Runners, Lock(r) PROVE P,
           ASSUME NEW r \in Runners, UseIt(r) PROVE P,
           ASSUME NEW r \in Runners, PutBack(r) PROVE P,
           ASSUME NEW r \in Runners, GoRecreate(r) PROVE P,
           ASSUME NEW r \in Runners, RecreateToUse(r) PROVE P,
           ASSUME NEW r \in Runners, RecreateToPut(r) PROVE P,
           ASSUME NEW r \in Runners, RecreateFails(r) PROVE P,
           ASSUME NEW r \in Runners, Execute(r) PROVE P,
           ASSUME NEW r \in Runners, LeaveWithIt(r) PROVE P,
           ASSUME NEW c \in Containers, ContainerDies(c) PROVE P
    PROVE  P
BY DEF PoolNext, Serve

----------------------------------------------------------------------------
(* Queues *)

LEMMA TakeHead ==
    ASSUME NEW q \in Seq(Containers), q # <<>>, Once(q)
    PROVE  /\ Head(q) \in Containers /\ Lists(q, Head(q))
           /\ Tail(q) \in Seq(Containers) /\ Once(Tail(q)) /\ ~Lists(Tail(q), Head(q))
           /\ \A c : Lists(Tail(q), c) => Lists(q, c)
<1>1. /\ Head(q) = q[1] /\ 1 \in DOMAIN q /\ Head(q) \in Containers
      /\ Tail(q) \in Seq(Containers)
  OBVIOUS
<1>2. \A i \in DOMAIN Tail(q) : /\ i \in Nat /\ i + 1 \in DOMAIN q
                                /\ i + 1 # 1 /\ Tail(q)[i] = q[i + 1]
  OBVIOUS
<1>3. Once(Tail(q))
  <2> SUFFICES ASSUME NEW i \in DOMAIN Tail(q), NEW j \in DOMAIN Tail(q), Tail(q)[i] = Tail(q)[j]
               PROVE  i = j
    BY DEF Once
  <2>1. i + 1 = j + 1
    BY <1>2 DEF Once
  <2> QED
    BY <1>2, <2>1
<1>4. ~Lists(Tail(q), Head(q))
  BY <1>1, <1>2 DEF Once, Lists
<1> QED
  BY <1>1, <1>2, <1>3, <1>4 DEF Lists

LEMMA PutLast ==
    ASSUME NEW q \in Seq(Containers), Once(q), NEW c \in Containers, ~Lists(q, c)
    PROVE  /\ Append(q, c) \in Seq(Containers) /\ Once(Append(q, c))
           /\ \A d : Lists(Append(q, c), d) => Lists(q, d) \/ d = c
<1>1. /\ Append(q, c) \in Seq(Containers)
      /\ \A i \in DOMAIN Append(q, c) : \/ i \in DOMAIN q /\ Append(q, c)[i] = q[i]
                                        \/ i = Len(q) + 1 /\ Append(q, c)[i] = c
  OBVIOUS
<1>2. Once(Append(q, c))
  BY <1>1 DEF Once, Lists
<1> QED
  BY <1>1, <1>2 DEF Lists

LEMMA ListedLanguage ==
    ASSUME QueuesOK, NEW l \in Languages, NEW c, Lists(queue[l], c) PROVE LanguageOf[c] = l
<1>1. PICK i \in DOMAIN queue[l] : queue[l][i] = c
  BY DEF Lists
<1>2. i \in Nat
  BY <1>1 DEF QueuesOK
<1> QED
  BY <1>1, <1>2 DEF QueuesOK

----------------------------------------------------------------------------
(* Steps *)

\* A coroutine goes on with what it has.
LEMMA GoOn ==
    ASSUME PoolInv, NEW r \in Runners, NEW to, at' = [at EXCEPT ![r] = to],
           (at[r] \in Before /\ to \in Before) \/ (at[r] \in Within /\ to \in Within),
           UNCHANGED <<queue, hand, wants>>
    PROVE  PoolInv'
<1>1. HandsOK'
  BY DEF PoolInv, HandsOK, Before, Within
<1>2. QueuesOK'
  BY DEF PoolInv, QueuesOK
<1> QED
  BY <1>1, <1>2 DEF PoolInv

\* A coroutine loses the name it has.
LEMMA LetGo ==
    ASSUME PoolInv, NEW r \in Runners, NEW to \in Before, at' = [at EXCEPT ![r] = to],
           hand' = [hand EXCEPT ![r] = NoContainer], UNCHANGED <<queue, wants>>
    PROVE  PoolInv'
<1>1. HandsOK'
  BY DEF PoolInv, HandsOK, Before, Within
<1>2. \A s \in Runners : hand'[s] # NoContainer => hand'[s] = hand[s]
  BY DEF PoolInv, HandsOK
<1>3. QueuesOK'
  BY <1>2 DEF PoolInv, QueuesOK
<1> QED
  BY <1>1, <1>3 DEF PoolInv

\* A coroutine puts back the name it has.
LEMMA GiveBack ==
    ASSUME PoolInv, NEW r \in Runners, at[r] \in Within, at' = [at EXCEPT ![r] = "idle"],
           Enqueue(hand[r]), hand' = [hand EXCEPT ![r] = NoContainer], UNCHANGED wants
    PROVE  PoolInv'
<1> DEFINE c == hand[r]
           l == wants[r]
<1>1. /\ c \in Containers /\ c # NoContainer /\ LanguageOf[c] = l /\ l \in Languages
      /\ ~Lists(queue[l], c) /\ queue[l] \in Seq(Containers) /\ Once(queue[l])
  BY PoolNames DEF PoolInv, HandsOK, QueuesOK, Before, Within
<1>2. queue' = [queue EXCEPT ![l] = Append(queue[l], c)]
  BY <1>1 DEF Enqueue
<1>3. HandsOK'
  BY DEF PoolInv, HandsOK, Before, Within
<1>4. \A s \in Runners : hand'[s] # NoContainer => s # r /\ hand'[s] = hand[s] /\ hand[s] # c
  BY <1>1 DEF PoolInv, HandsOK
<1>5. /\ queue' \in [Languages -> Seq(Containers)]
      /\ \A k \in Languages : Once(queue'[k])
      /\ \A k \in Languages : \A d : Lists(queue'[k], d) => Lists(queue[k], d) \/ (k = l /\ d = c)
  <2>1. /\ Append(queue[l], c) \in Seq(Containers) /\ Once(Append(queue[l], c))
        /\ \A d : Lists(Append(queue[l], c), d) => Lists(queue[l], d) \/ d = c
    BY <1>1, PutLast
  <2>2. queue \in [Languages -> Seq(Containers)] /\ \A k \in Languages : Once(queue[k])
    BY DEF PoolInv, QueuesOK
  <2> HIDE DEF c, l
  <2> QED
    BY <1>1, <1>2, <2>1, <2>2
<1>6. ASSUME NEW k \in Languages, NEW i \in Nat, i \in DOMAIN queue'[k]
      PROVE  LanguageOf[queue'[k][i]] = k
  <2>1. Lists(queue'[k], queue'[k][i])
    BY <1>6 DEF Lists
  <2>2. Lists(queue[k], queue'[k][i]) \/ (k = l /\ queue'[k][i] = c)
    BY <1>5, <2>1
  <2> QED
    BY <1>1, <2>2, ListedLanguage DEF PoolInv
<1>7. ASSUME NEW s \in Runners, hand'[s] # NoContainer PROVE ~Lists(queue'[wants'[s]], hand'[s])
  <2>1. wants'[s] \in Languages /\ ~Lists(queue[wants'[s]], hand'[s]) /\ hand'[s] # c
    BY <1>4, <1>7 DEF PoolInv, HandsOK, QueuesOK
  <2> QED
    BY <1>5, <2>1
<1>8. QueuesOK'
  BY <1>5, <1>6, <1>7 DEF QueuesOK
<1> QED
  BY <1>3, <1>8 DEF PoolInv

\* A coroutine takes the first name of its queue.
LEMMA TakeFirst ==
    ASSUME PoolInv, NEW r \in Runners, Take(r) PROVE PoolInv'
<1> DEFINE l == wants[r]
           c == Head(queue[l])
<1>1. /\ l \in Languages /\ queue[l] \in Seq(Containers) /\ queue[l] # <<>> /\ Once(queue[l])
      /\ at[r] \in Before /\ hand[r] = NoContainer
  BY DEF PoolInv, HandsOK, QueuesOK, Take, Before
<1>2. /\ c \in Containers /\ Lists(queue[l], c) /\ Tail(queue[l]) \in Seq(Containers)
      /\ Once(Tail(queue[l])) /\ ~Lists(Tail(queue[l]), c)
      /\ \A d : Lists(Tail(queue[l]), d) => Lists(queue[l], d)
  BY <1>1, TakeHead
<1>3. c # NoContainer /\ LanguageOf[c] = l
  BY <1>1, <1>2, PoolNames, ListedLanguage DEF PoolInv
<1>4. /\ hand' = [hand EXCEPT ![r] = c] /\ queue' = [queue EXCEPT ![l] = Tail(queue[l])]
      /\ at' = [at EXCEPT ![r] = "check"] /\ UNCHANGED wants
  BY DEF Take
<1> HIDE DEF c, l
<1>5. ASSUME NEW s \in Runners, s # r PROVE hand[s] # c
  <2> SUFFICES ASSUME hand[s] = c PROVE FALSE
    OBVIOUS
  <2>1. LanguageOf[hand[s]] = wants[s] /\ ~Lists(queue[wants[s]], hand[s])
    BY <1>3 DEF PoolInv, HandsOK, QueuesOK
  <2> QED
    BY <1>2, <1>3, <2>1
<1>6. HandsOK'
  <2>1. /\ at' \in [Runners -> Before \cup Within] /\ wants' \in [Runners -> Languages]
        /\ hand' \in [Runners -> Containers \cup {NoContainer}]
    BY <1>2, <1>4 DEF PoolInv, HandsOK, Within
  <2>2. \A s \in Runners : hand'[s] = NoContainer <=> at'[s] \in Before
    BY <1>3, <1>4 DEF PoolInv, HandsOK, Before
  <2>3. \A s \in Runners : hand'[s] # NoContainer => LanguageOf[hand'[s]] = wants'[s]
    BY <1>3, <1>4 DEF PoolInv, HandsOK, l
  <2>4. \A s, t \in Runners : hand'[s] # NoContainer /\ hand'[s] = hand'[t] => s = t
    BY <1>4, <1>5 DEF PoolInv, HandsOK
  <2> QED
    BY <2>1, <2>2, <2>3, <2>4 DEF HandsOK
<1>7. /\ queue' \in [Languages -> Seq(Containers)]
      /\ \A k \in Languages : Once(queue'[k])
      /\ \A k \in Languages : \A d : Lists(queue'[k], d) => Lists(queue[k], d)
      /\ ~Lists(queue'[l], c)
  BY <1>1, <1>2, <1>4 DEF PoolInv, QueuesOK
<1>8. ASSUME NEW k \in Languages, NEW i \in Nat, i \in DOMAIN queue'[k]
      PROVE  LanguageOf[queue'[k][i]] = k
  <2>1. Lists(queue'[k], queue'[k][i])
    BY <1>8 DEF Lists
  <2> QED
    BY <1>7, <2>1, ListedLanguage DEF PoolInv
<1>9. ASSUME NEW s \in Runners, hand'[s] # NoContainer PROVE ~Lists(queue'[wants'[s]], hand'[s])
  <2>1. CASE s = r
    <3>1. wants'[s] = l /\ hand'[s] = c
      BY <1>4, <2>1 DEF PoolInv, HandsOK, l
    <3> QED
      BY <1>7, <3>1
  <2>2. CASE s # r
    <3>1. hand'[s] = hand[s] /\ wants'[s] = wants[s] /\ wants[s] \in Languages
      BY <1>4, <2>2 DEF PoolInv, HandsOK
    <3>2. ~Lists(queue[wants[s]], hand[s])
      BY <1>9, <3>1 DEF PoolInv, QueuesOK
    <3> QED
      BY <1>7, <3>1, <3>2
  <2> QED
    BY <2>1, <2>2
<1>10. QueuesOK'
  BY <1>7, <1>8, <1>9 DEF QueuesOK
<1> QED
  BY <1>6, <1>10 DEF PoolInv

----------------------------------------------------------------------------
\* init_containers puts the names it could create, each once.
LEMMA InitialQueues == PoolInit => PoolInv
<1> SUFFICES ASSUME NEW S \in SUBSET Containers, PoolStart(S) PROVE PoolInv
  BY DEF PoolInit
<1>1. HandsOK
  <2>1. /\ at = [r \in Runners |-> "idle"] /\ hand = [r \in Runners |-> NoContainer]
        /\ wants = [r \in Runners |-> CHOOSE l \in Languages : TRUE]
    BY DEF PoolStart
  <2>2. ASSUME NEW r \in Runners PROVE wants[r] \in Languages
    BY <2>1, PoolAssumption
  <2> QED
    BY <2>1, <2>2 DEF HandsOK, Before
<1>2. \A l \in Languages : queue[l] \in UNION {Orders(T) : T \in SUBSET S}
  BY DEF PoolStart
<1>3. ASSUME NEW l \in Languages PROVE queue[l] \in Seq(Containers) /\ Once(queue[l])
  <2>1. PICK T \in SUBSET S : queue[l] \in Orders(T)
    BY <1>2
  <2>2. Cardinality(T) \in Nat
    BY PoolAssumption, FS_Subset, FS_CardinalityType
  <2> QED
    BY <2>1, <2>2 DEF Orders, Once
<1>4. queue \in [Languages -> Seq(Containers)]
  <2>1. queue = [l \in Languages |-> queue[l]]
    <3> DEFINE V == UNION {Orders(T) : T \in SUBSET S}
    <3>1. queue \in [Languages -> V]
      BY DEF PoolStart
    <3> HIDE DEF V
    <3> QED
      BY <3>1
  <2> QED
    BY <1>3, <2>1
<1>5. ASSUME NEW l \in Languages, NEW i \in Nat, i \in DOMAIN queue[l]
      PROVE  LanguageOf[queue[l][i]] = l
  <2>1. queue[l][i] \in {queue[l][j] : j \in DOMAIN queue[l]}
    BY <1>5
  <2>2. {queue[l][j] : j \in DOMAIN queue[l]} = S \cap ContainersOf(l)
    BY DEF PoolStart
  <2> QED
    BY <2>1, <2>2 DEF ContainersOf
<1>6. \A r \in Runners : hand[r] = NoContainer
  BY DEF PoolStart
<1> QED
  BY <1>1, <1>3, <1>4, <1>5, <1>6 DEF PoolInv, QueuesOK

LEMMA PoolInvariant == PoolSpec => []PoolInv
<1>1. PoolInv /\ [PoolNext]_poolVars => PoolInv'
  <2> SUFFICES ASSUME PoolInv, PoolNext PROVE PoolInv'
    BY DEF PoolInv, HandsOK, QueuesOK, poolVars
  <2>1. ASSUME NEW r \in Runners, NEW l \in Languages, Admit(r, l) PROVE PoolInv'
    <3>1. at[r] = "idle" /\ hand[r] = NoContainer
      BY <2>1 DEF Admit, Step, PoolInv, HandsOK, Before
    <3>2. HandsOK'
      BY <2>1, <3>1 DEF Admit, Step, PoolInv, HandsOK, Before
    <3>3. \A s \in Runners : hand'[s] # NoContainer => wants'[s] = wants[s]
      BY <2>1, <3>1 DEF Admit, PoolInv, HandsOK
    <3>4. QueuesOK'
      BY <2>1, <3>3 DEF Admit, PoolInv, QueuesOK
    <3> QED
      BY <3>2, <3>4 DEF PoolInv
  <2>2. ASSUME NEW r \in Runners, Take(r) PROVE PoolInv'
    BY <2>2, TakeFirst
  <2>3. ASSUME NEW r \in Runners, FindNone(r) PROVE PoolInv'
    BY <2>3, GoOn DEF FindNone, Step, Before
  <2>4. ASSUME NEW r \in Runners, Busy(r) PROVE PoolInv'
    BY <2>4, GoOn DEF Busy, Step, Before
  <2>5. ASSUME NEW r \in Runners, Lock(r) PROVE PoolInv'
    BY <2>5, GoOn DEF Lock, Step, Within
  <2>6. ASSUME NEW r \in Runners, UseIt(r) PROVE PoolInv'
    BY <2>6, GoOn DEF UseIt, Step, Within
  <2>7. ASSUME NEW r \in Runners, PutBack(r) PROVE PoolInv'
    BY <2>7, GiveBack DEF PutBack, Step, Within
  <2>8. ASSUME NEW r \in Runners, GoRecreate(r) PROVE PoolInv'
    BY <2>8, GoOn DEF GoRecreate, Step, Within
  <2>9. ASSUME NEW r \in Runners, RecreateToUse(r) PROVE PoolInv'
    BY <2>9, GoOn DEF RecreateToUse, Step, Within
  <2>10. ASSUME NEW r \in Runners, RecreateToPut(r) PROVE PoolInv'
    BY <2>10, GiveBack DEF RecreateToPut, Step, Within
  <2>11. ASSUME NEW r \in Runners, RecreateFails(r) PROVE PoolInv'
    BY <2>11, LetGo DEF RecreateFails, RecreationEnds, Step, Before
  <2>12. ASSUME NEW r \in Runners, Execute(r) PROVE PoolInv'
    BY <2>12, GoOn DEF Execute, Step, Within
  <2>13. ASSUME NEW r \in Runners, LeaveWithIt(r) PROVE PoolInv'
    BY <2>13, LetGo DEF LeaveWithIt, Step, Before
  <2>14. ASSUME NEW c \in Containers, ContainerDies(c) PROVE PoolInv'
    BY <2>14 DEF ContainerDies, PoolInv, HandsOK, QueuesOK
  <2> QED
    BY <2>1, <2>2, <2>3, <2>4, <2>5, <2>6, <2>7, <2>8, <2>9, <2>10, <2>11, <2>12, <2>13,
       <2>14, PoolCases
<1> QED
  BY <1>1, InitialQueues, PTL DEF PoolSpec

\* allocate_container_blocking, release_container, recreate_container: nobody runs
\* code in a container that another request holds or may be given.
THEOREM OneUser == PoolSpec => []OneUserPerContainer
<1>1. ASSUME PoolInv PROVE OneUserPerContainer
  <2> SUFFICES ASSUME NEW c \in Containers
               PROVE  /\ \A r, s \in Runners : hand[r] = c /\ hand[s] = c => r = s
                      /\ Held(c) => ~InQueue(c)
                      /\ \A i, j \in DOMAIN queue[LanguageOf[c]] :
                            queue[LanguageOf[c]][i] = c /\ queue[LanguageOf[c]][j] = c => i = j
    BY DEF OneUserPerContainer
  <2>1. c # NoContainer /\ LanguageOf[c] \in Languages
    BY PoolNames, PoolAssumption
  <2>2. Once(queue[LanguageOf[c]])
    BY <1>1, <2>1 DEF PoolInv, QueuesOK
  <2>3. Held(c) => ~Lists(queue[LanguageOf[c]], c)
    BY <1>1, <2>1 DEF PoolInv, HandsOK, QueuesOK, Held
  <2> QED
    BY <1>1, <2>1, <2>2, <2>3 DEF PoolInv, HandsOK, Once, Lists, InQueue
<1> QED
  BY <1>1, PoolInvariant, PTL

----------------------------------------------------------------------------
(* Types, and the semaphore *)

HandTypes == alive \subseteq Containers /\ lockedBy \in Runners \cup {Nobody}

\* A container in a hand is one of those the pool was made for.
LEMMA InHand ==
    ASSUME PoolInv, NEW r \in Runners, at[r] \in Within PROVE hand[r] \in Containers
  BY DEF PoolInv, HandsOK, Before, Within

\* container_manager.py: who runs code, waits or holds the lock is a request that was
\* admitted, and what it holds or may be given is a container of its language.
THEOREM PoolTypes == PoolSpec => []PoolTypeOK
<1>1. PoolInit => HandTypes
  BY DEF PoolInit, PoolStart, HandTypes
<1>2. PoolInv /\ HandTypes /\ [PoolNext]_poolVars => HandTypes'
  <2> SUFFICES ASSUME PoolInv, HandTypes, PoolNext PROVE HandTypes'
    BY DEF HandTypes, poolVars
  <2> USE DEF HandTypes
  <2>1. ASSUME NEW r \in Runners, NEW l \in Languages, Admit(r, l) PROVE HandTypes'
    BY <2>1 DEF Admit
  <2>2. ASSUME NEW r \in Runners, Take(r) PROVE HandTypes'
    BY <2>2 DEF Take
  <2>3. ASSUME NEW r \in Runners, FindNone(r) PROVE HandTypes'
    BY <2>3 DEF FindNone
  <2>4. ASSUME NEW r \in Runners, Busy(r) PROVE HandTypes'
    BY <2>4 DEF Busy
  <2>5. ASSUME NEW r \in Runners, Lock(r) PROVE HandTypes'
    BY <2>5 DEF Lock
  <2>6. ASSUME NEW r \in Runners, UseIt(r) PROVE HandTypes'
    BY <2>6 DEF UseIt, Unlock
  <2>7. ASSUME NEW r \in Runners, PutBack(r) PROVE HandTypes'
    BY <2>7 DEF PutBack, Unlock
  <2>8. ASSUME NEW r \in Runners, GoRecreate(r) PROVE HandTypes'
    BY <2>8 DEF GoRecreate
  <2>9. ASSUME NEW r \in Runners, RecreateToUse(r) PROVE HandTypes'
    BY <2>9, InHand DEF RecreateToUse, Unlock, Step, Within
  <2>10. ASSUME NEW r \in Runners, RecreateToPut(r) PROVE HandTypes'
    BY <2>10, InHand DEF RecreateToPut, Unlock, Step, Within
  <2>11. ASSUME NEW r \in Runners, RecreateFails(r) PROVE HandTypes'
    BY <2>11 DEF RecreateFails, RecreationEnds, Unlock
  <2>12. ASSUME NEW r \in Runners, Execute(r) PROVE HandTypes'
    BY <2>12 DEF Execute
  <2>13. ASSUME NEW r \in Runners, LeaveWithIt(r) PROVE HandTypes'
    BY <2>13 DEF LeaveWithIt
  <2>14. ASSUME NEW c \in Containers, ContainerDies(c) PROVE HandTypes'
    BY <2>14 DEF ContainerDies
  <2> QED
    BY <2>1, <2>2, <2>3, <2>4, <2>5, <2>6, <2>7, <2>8, <2>9, <2>10, <2>11, <2>12, <2>13,
       <2>14, PoolCases
<1>3. PoolInv /\ HandTypes => PoolTypeOK
  BY DEF PoolInv, HandsOK, QueuesOK, HandTypes, PoolTypeOK, Before, Within
<1> QED
  BY <1>1, <1>2, <1>3, PoolInvariant, PTL DEF PoolSpec

\* The semaphore of a language admits as many as it has containers.
Admission ==
    \A l \in Languages : IsFiniteSet(Admitted(l)) /\ Cardinality(Admitted(l)) <= Cardinality(ContainersOf(l))

LEMMA ContainersAreFinite ==
    ASSUME NEW l PROVE IsFiniteSet(ContainersOf(l)) /\ Cardinality(ContainersOf(l)) \in Nat
<1>1. ContainersOf(l) \in SUBSET Containers
  BY DEF ContainersOf
<1> QED
  BY <1>1, PoolAssumption, FS_Subset, FS_CardinalityType

\* No step but Admit lets anybody in.
LEMMA NobodyAdmitted ==
    ASSUME Admission, NEW l \in Languages, Admitted(l)' \subseteq Admitted(l)
    PROVE  IsFiniteSet(Admitted(l)') /\ Cardinality(Admitted(l)') <= Cardinality(ContainersOf(l))
<1> DEFINE old == Admitted(l)
           new == Admitted(l)'
<1>1. IsFiniteSet(old) /\ Cardinality(old) <= Cardinality(ContainersOf(l)) /\ new \in SUBSET old
  BY DEF Admission
<1> HIDE DEF old, new
<1>2. IsFiniteSet(new) /\ Cardinality(new) <= Cardinality(old)
  BY <1>1, FS_Subset
<1>3. Cardinality(new) \in Nat /\ Cardinality(old) \in Nat /\ Cardinality(ContainersOf(l)) \in Nat
  BY <1>1, <1>2, FS_CardinalityType, ContainersAreFinite
<1>4. IsFiniteSet(new) /\ Cardinality(new) <= Cardinality(ContainersOf(l))
  BY <1>1, <1>2, <1>3
<1> QED
  BY <1>4 DEF new

\* Admit lets one in, and there was room.
LEMMA OneAdmitted ==
    ASSUME Admission, NEW l \in Languages, NEW r, Cardinality(Admitted(l)) < Cardinality(ContainersOf(l)),
           Admitted(l)' \subseteq Admitted(l) \cup {r}
    PROVE  IsFiniteSet(Admitted(l)') /\ Cardinality(Admitted(l)') <= Cardinality(ContainersOf(l))
<1> DEFINE old == Admitted(l)
           new == Admitted(l)'
           more == old \cup {r}
<1>1. IsFiniteSet(old) /\ new \in SUBSET more
  BY DEF Admission
<1> HIDE DEF old, new
<1>2. IsFiniteSet(more) /\ Cardinality(more) \in {Cardinality(old), Cardinality(old) + 1}
  BY <1>1, FS_AddElement
<1>3. IsFiniteSet(new) /\ Cardinality(new) <= Cardinality(more)
  BY <1>1, <1>2, FS_Subset
<1>4. /\ Cardinality(new) \in Nat /\ Cardinality(old) \in Nat /\ Cardinality(more) \in Nat
      /\ Cardinality(ContainersOf(l)) \in Nat
  BY <1>1, <1>2, <1>3, FS_CardinalityType, ContainersAreFinite
<1>5. Cardinality(old) < Cardinality(ContainersOf(l))
  BY DEF old
<1>6. IsFiniteSet(new) /\ Cardinality(new) <= Cardinality(ContainersOf(l))
  BY <1>2, <1>3, <1>4, <1>5
<1> QED
  BY <1>6 DEF new

LEMMA SemaphoreCounts == PoolSpec => []Admission
<1>1. PoolInit => Admission
  <2> SUFFICES ASSUME PoolInit, NEW l \in Languages
               PROVE  IsFiniteSet(Admitted(l)) /\ Cardinality(Admitted(l)) <= Cardinality(ContainersOf(l))
    BY DEF Admission
  <2>1. Admitted(l) = {}
    BY DEF PoolInit, PoolStart, Admitted
  <2> QED
    BY <2>1, FS_EmptySet, ContainersAreFinite
<1>2. PoolInv /\ Admission /\ [PoolNext]_poolVars => Admission'
  <2> SUFFICES ASSUME PoolInv, Admission, [PoolNext]_poolVars, NEW l \in Languages
               PROVE  IsFiniteSet(Admitted(l)') /\ Cardinality(Admitted(l)') <= Cardinality(ContainersOf(l))
    BY DEF Admission, ContainersOf
  <2>1. CASE \E r \in Runners, k \in Languages : Admit(r, k)
    <3>1. PICK r \in Runners, k \in Languages : Admit(r, k)
      BY <2>1
    <3>2. /\ at' = [at EXCEPT ![r] = "allocate"] /\ wants' = [wants EXCEPT ![r] = k]
          /\ Cardinality(Admitted(k)) < Cardinality(ContainersOf(k))
      BY <3>1 DEF Admit, Step
    <3>3. CASE k = l
      <4>1. Admitted(l)' \subseteq Admitted(l) \cup {r}
        BY <3>2 DEF Admitted, PoolInv, HandsOK
      <4> QED
        BY <3>2, <3>3, <4>1, OneAdmitted
    <3>4. CASE k # l
      <4>1. Admitted(l)' \subseteq Admitted(l)
        BY <3>2, <3>4 DEF Admitted, PoolInv, HandsOK
      <4> QED
        BY <4>1, NobodyAdmitted
    <3> QED
      BY <3>3, <3>4
  <2>2. CASE ~\E r \in Runners, k \in Languages : Admit(r, k)
    <3>1. wants' = wants /\ \A r \in Runners : at[r] = "idle" => at'[r] = "idle"
      <4> USE DEF PoolInv, HandsOK, Step
      <4>1. CASE UNCHANGED poolVars
        BY <4>1 DEF poolVars
      <4>2. ASSUME NEW c \in Containers, ContainerDies(c) PROVE wants' = wants /\ at' = at
        BY <4>2 DEF ContainerDies
      <4>3. ASSUME NEW r \in Runners, Serve(r)
            PROVE  wants' = wants /\ \E to : at' = [at EXCEPT ![r] = to] /\ at[r] # "idle"
        BY <4>3 DEF Serve, Take, FindNone, Busy, Lock, UseIt, PutBack, GoRecreate, RecreateToUse,
              RecreateToPut, RecreateFails, RecreationEnds, Execute, LeaveWithIt
      <4> QED
        BY <2>2, <4>1, <4>2, <4>3 DEF PoolNext
    <3>2. Admitted(l)' \subseteq Admitted(l)
      BY <3>1 DEF Admitted
    <3> QED
      BY <3>2, NobodyAdmitted
  <2> QED
    BY <2>1, <2>2
<1> QED
  BY <1>1, <1>2, PoolInvariant, PTL DEF PoolSpec

\* allocate_container_blocking: "Container pool is busy" is answered only for a language
\* that has lost a container, however many languages and requests there are.
THEOREM BusyOnlyWhenLost == PoolSpec => []BusyMeansLost
<1>1. ASSUME PoolInv, Admission PROVE BusyMeansLost
  <2> SUFFICES ASSUME NEW r \in Runners, at[r] \in {"allocate", "again"}, queue[wants[r]] = <<>>,
                      Lost(wants[r]) = {}
               PROVE  FALSE
    BY DEF BusyMeansLost
  <2> DEFINE l == wants[r]
             C == ContainersOf(l)
             H == Admitted(l) \ {r}
             holder == [c \in C |-> CHOOSE s \in H : hand[s] = c]
  <2>1. l \in Languages /\ hand[r] = NoContainer /\ r \in Admitted(l)
    BY <1>1 DEF PoolInv, HandsOK, Before, Admitted
  <2>2. ASSUME NEW c \in C PROVE \E s \in H : hand[s] = c
    <3>1. c \in Containers /\ LanguageOf[c] = l /\ c # NoContainer
      BY PoolNames DEF ContainersOf
    <3>2. ~InQueue(c)
      BY <3>1 DEF InQueue
    <3>3. PICK s \in Runners : hand[s] = c
      BY <3>1, <3>2 DEF Lost, Held
    <3>4. s # r /\ wants[s] = l /\ at[s] # "idle"
      BY <1>1, <2>1, <3>1, <3>3 DEF PoolInv, HandsOK, Before
    <3> QED
      BY <3>3, <3>4 DEF Admitted
  <2>3. holder \in [C -> H] /\ \A c \in C : hand[holder[c]] = c
    BY <2>2
  <2>4. IsFiniteSet(H) /\ Cardinality(H) = Cardinality(Admitted(l)) - 1
    BY <1>1, <2>1, FS_RemoveElement DEF Admission
  <2>5. Cardinality(Admitted(l)) <= Cardinality(C) /\ Cardinality(Admitted(l)) \in Nat
    BY <1>1, <2>1, FS_CardinalityType DEF Admission
  <2>6. IsFiniteSet(C) /\ Cardinality(C) \in Nat
    BY ContainersAreFinite
  <2> HIDE DEF C, H, holder
  <2>7. Cardinality(H) < Cardinality(C)
    BY <2>4, <2>5, <2>6
  <2>8. \E c, d \in C : c # d /\ holder[c] = holder[d]
    BY <2>3, <2>4, <2>6, <2>7, FS_PigeonHole
  <2> QED
    BY <2>3, <2>8
<1> QED
  BY <1>1, PoolInvariant, SemaphoreCounts, PTL
================================================================================
