------------------------------ MODULE SandboxPool ------------------------------
(***************************************************************************)
(* The container pool of the code sandbox (executor_manager).  A request   *)
(* for a language passes that language's semaphore, takes a container from *)
(* its queue, runs its code in it and gives it back.  A container that     *)
(* crashed is created anew under one asyncio.Lock, which all languages     *)
(* share; if that fails its name is dropped.  The coroutines of one event  *)
(* loop interleave at their awaits, that is, at their docker commands.     *)
(***************************************************************************)
EXTENDS Naturals, Sequences, FiniteSets

CONSTANTS Languages,     \* SupportLanguage
          Containers,    \* container names
          LanguageOf,    \* per container: the language it is made for
          Runners,       \* coroutines that serve POST /run
          MaxRequests,   \* bound: requests served
          MaxFailures    \* bound: containers that crash, docker commands that fail

ASSUME PoolAssumption ==
    /\ LanguageOf \in [Containers -> Languages] /\ Languages # {}
    /\ IsFiniteSet(Containers)
    /\ MaxRequests \in Nat /\ MaxFailures \in Nat

Nobody == "nobody"
NoContainer == "no container"
ASSUME PoolNames == Nobody \notin Runners /\ NoContainer \notin Containers

VARIABLES queue,      \* per language: _CONTAINER_QUEUES
          alive,      \* the containers that run
          lockedBy,   \* who holds _CONTAINER_LOCK
          at,         \* per runner: where execute_code stands
          wants,      \* per runner: the language of its request
          hand,       \* per runner: the container it has taken
          requests, failures \* bounds

poolVars == <<queue, alive, lockedBy, at, wants, hand, requests, failures>>

ContainersOf(l) == {c \in Containers : LanguageOf[c] = l}
InQueue(c) == \E i \in DOMAIN queue[LanguageOf[c]] : queue[LanguageOf[c]][i] = c
Held(c) == \E r \in Runners : hand[r] = c
\* Names that are nowhere: nothing brings them back.
Lost(l) == {c \in ContainersOf(l) : ~InQueue(c) /\ ~Held(c)}
\* _CONTAINER_EXECUTION_SEMAPHORES[l] admits as many as containers were asked for.
Admitted(l) == {r \in Runners : at[r] # "idle" /\ wants[r] = l}

Enqueue(c) == queue' = [queue EXCEPT ![LanguageOf[c]] = Append(@, c)]
Step(r, from, to) == at[r] = from /\ at' = [at EXCEPT ![r] = to]
Fails == failures < MaxFailures /\ failures' = failures + 1
Works == UNCHANGED failures
Unlock(r) == lockedBy = r /\ lockedBy' = Nobody

Orders(S) == {f \in [1 .. Cardinality(S) -> S] : \A i, j \in DOMAIN f : f[i] = f[j] => i = j}

\* init_containers created the containers S, and put them as they were ready.
PoolStart(S) ==
    /\ queue \in [Languages -> UNION {Orders(T) : T \in SUBSET S}]
    /\ \A l \in Languages : {queue[l][i] : i \in DOMAIN queue[l]} = S \cap ContainersOf(l)
    /\ alive = S
    /\ lockedBy = Nobody
    /\ at = [r \in Runners |-> "idle"]
    /\ wants = [r \in Runners |-> CHOOSE l \in Languages : TRUE]
    /\ hand = [r \in Runners |-> NoContainer]
    /\ requests = 0 /\ failures = Cardinality(Containers \ S)

PoolInit == \E S \in SUBSET Containers :
                Cardinality(Containers \ S) <= MaxFailures /\ PoolStart(S)

\* Mutant: the semaphore is left before the container is given back.
AdmitEarly(r, l) ==
    /\ requests < MaxRequests
    /\ Cardinality({q \in Admitted(l) : at[q] \notin {"release", "inspectBack", "recreateBack"}})
          < Cardinality(ContainersOf(l))
    /\ Step(r, "idle", "allocate")
    /\ wants' = [wants EXCEPT ![r] = l]
    /\ requests' = requests + 1
    /\ UNCHANGED <<queue, alive, lockedBy, hand, failures>>

\* run_code_handler: the semaphore.
Admit(r, l) ==
    /\ requests < MaxRequests
    /\ Cardinality(Admitted(l)) < Cardinality(ContainersOf(l))
    /\ Step(r, "idle", "allocate")
    /\ wants' = [wants EXCEPT ![r] = l]
    /\ requests' = requests + 1
    /\ UNCHANGED <<queue, alive, lockedBy, hand, failures>>

\* allocate_container_blocking: get_nowait.
Take(r) ==
    /\ at[r] \in {"allocate", "again"} /\ queue[wants[r]] # <<>>
    /\ hand' = [hand EXCEPT ![r] = Head(queue[wants[r]])]
    /\ queue' = [queue EXCEPT ![wants[r]] = Tail(@)]
    /\ at' = [at EXCEPT ![r] = "check"]
    /\ UNCHANGED <<alive, lockedBy, wants, requests, failures>>

\* Empty: sleep and look again, until the timeout.
FindNone(r) ==
    /\ queue[wants[r]] = <<>> /\ Step(r, "allocate", "again")
    /\ UNCHANGED <<queue, alive, lockedBy, wants, hand, requests, failures>>

Busy(r) ==
    /\ Step(r, "again", "idle")
    /\ UNCHANGED <<queue, alive, lockedBy, wants, hand, requests, failures>>

\* async with _CONTAINER_LOCK, in allocate and in release.
Lock(r) ==
    /\ lockedBy = Nobody /\ lockedBy' = r
    /\ \/ Step(r, "check", "inspect")
       \/ Step(r, "release", "inspectBack")
    /\ UNCHANGED <<queue, alive, wants, hand, requests, failures>>

\* container_is_running, a docker inspect that may also fail.
FindsRunning(r) == hand[r] \in alive /\ Works
FindsDead(r) == IF hand[r] \in alive THEN Fails ELSE Works

UseIt(r) ==
    /\ FindsRunning(r) /\ Step(r, "inspect", "run") /\ Unlock(r)
    /\ UNCHANGED <<queue, alive, wants, hand, requests>>

\* Mutant: the hand is emptied first.
PutBackLate(r) ==
    /\ FindsRunning(r) /\ Step(r, "inspectBack", "idle") /\ Unlock(r)
    /\ hand' = [hand EXCEPT ![r] = NoContainer]
    /\ queue' = [queue EXCEPT ![wants[r]] = Append(@, hand'[r])]
    /\ UNCHANGED <<alive, wants, requests>>

PutBack(r) ==
    /\ FindsRunning(r) /\ Step(r, "inspectBack", "idle") /\ Unlock(r)
    /\ Enqueue(hand[r])
    /\ hand' = [hand EXCEPT ![r] = NoContainer]
    /\ UNCHANGED <<alive, wants, requests>>

GoRecreate(r) ==
    /\ FindsDead(r)
    /\ \/ Step(r, "inspect", "recreate")
       \/ Step(r, "inspectBack", "recreateBack")
    /\ UNCHANGED <<queue, alive, lockedBy, wants, hand, requests>>

\* recreate_container: docker rm -f, then create_container.
RecreateToUse(r) ==
    /\ Works /\ Step(r, "recreate", "run") /\ Unlock(r)
    /\ alive' = alive \cup {hand[r]}
    /\ UNCHANGED <<queue, wants, hand, requests>>

RecreateToPut(r) ==
    /\ Works /\ Step(r, "recreateBack", "idle") /\ Unlock(r)
    /\ alive' = alive \cup {hand[r]}
    /\ Enqueue(hand[r])
    /\ hand' = [hand EXCEPT ![r] = NoContainer]
    /\ UNCHANGED <<wants, requests>>

RecreationEnds(r) ==
    /\ Fails /\ Unlock(r)
    /\ \/ Step(r, "recreate", "again")
       \/ Step(r, "recreateBack", "idle")
    /\ alive' \in {alive, alive \ {hand[r]}}
    /\ UNCHANGED <<wants, requests>>

\* Mutant: allocate_container_blocking tries another container, and the name it
\* could not create anew goes back first without leaving the hand.
RecreateFailsKept(r) ==
    /\ RecreationEnds(r)
    /\ Enqueue(hand[r])
    /\ UNCHANGED hand

\* It fails, before or after the old container is gone: the name is dropped.
RecreateFails(r) ==
    /\ RecreationEnds(r)
    /\ hand' = [hand EXCEPT ![r] = NoContainer]
    /\ UNCHANGED queue

\* The commands of execute_code, in whatever way they end, up to the clean-up.
Execute(r) ==
    /\ Step(r, "run", "release")
    /\ UNCHANGED <<queue, alive, lockedBy, wants, hand, requests, failures>>

\* os.makedirs raises between the allocation and the try block: the handler
\* answers, and nobody gives the container back.
LeaveWithIt(r) ==
    /\ Fails /\ Step(r, "run", "idle")
    /\ hand' = [hand EXCEPT ![r] = NoContainer]
    /\ UNCHANGED <<queue, alive, lockedBy, wants, requests>>

\* Out of memory, or the docker daemon.
ContainerDies(c) ==
    /\ c \in alive /\ Fails
    /\ alive' = alive \ {c}
    /\ UNCHANGED <<queue, lockedBy, at, wants, hand, requests>>

Serve(r) == \/ Take(r) \/ FindNone(r) \/ Busy(r) \/ Lock(r) \/ UseIt(r) \/ PutBack(r)
            \/ GoRecreate(r) \/ RecreateToUse(r) \/ RecreateToPut(r) \/ RecreateFails(r)
            \/ Execute(r) \/ LeaveWithIt(r)

PoolNext == \/ \E r \in Runners : Serve(r) \/ \E l \in Languages : Admit(r, l)
            \/ \E c \in Containers : ContainerDies(c)

PoolSpec == PoolInit /\ [][PoolNext]_poolVars

----------------------------------------------------------------------------
PoolTypeOK ==
    /\ queue \in [Languages -> Seq(Containers)]
    /\ alive \subseteq Containers
    /\ lockedBy \in Runners \cup {Nobody}
    /\ at \in [Runners -> {"idle", "allocate", "again", "check", "inspect", "recreate", "run",
                           "release", "inspectBack", "recreateBack"}]
    /\ wants \in [Runners -> Languages]
    /\ hand \in [Runners -> Containers \cup {NoContainer}]

\* A container serves one request at a time: it is in one hand, or once in its
\* queue, or lost, whatever crashes, fails or is created anew meanwhile.
OneUserPerContainer ==
    \A c \in Containers :
        /\ \A r, s \in Runners : hand[r] = c /\ hand[s] = c => r = s
        /\ Held(c) => ~InQueue(c)
        /\ \A i, j \in DOMAIN queue[LanguageOf[c]] :
              queue[LanguageOf[c]][i] = c /\ queue[LanguageOf[c]][j] = c => i = j

\* Whom the semaphore admits, the queue has a container for: "Container pool is
\* busy" is answered only for a language that has lost a container for good.
BusyMeansLost ==
    \A r \in Runners : at[r] \in {"allocate", "again"} /\ queue[wants[r]] = <<>>
                       => Lost(wants[r]) # {}

=============================================================================
