---------------------------- MODULE MemoryStore ----------------------------
(* An agent's memory (memory_message_service.py).  A turn of a dialogue is *)
(* saved twice: its raw message by the request (queue_save_to_memory_task) *)
(* and what an LLM extracts from it by an executor                         *)
(* (handle_save_to_memory_task), both through embed_and_save.  Message ids *)
(* come from a sequence in Redis which a starting server sets when it is   *)
(* absent; the size of the memory is cached in Redis.  Every message has   *)
(* size 1.                                                                 *)
EXTENDS Integers, FiniteSets

CONSTANTS
    Turns,       \* turns of the dialogue to be saved
    Old,         \* ids of messages saved before Redis lost its data
    Limit,       \* memory_size
    MaxExtracts, \* bound: messages the LLM extracts from a turn
    MaxForgotten,\* bound: messages forgotten at a time
    MaxMemoryFaults,  \* bound: deaths of the server or an executor, failed calls
                 \* and losses of Redis' data
    MaxId        \* bound: ids taken

ASSUME MemoryAssumption ==
    /\ Old \subseteq 2 .. MaxId
    /\ Limit \in Nat \ {0} /\ MaxExtracts \in Nat
    /\ MaxForgotten \in Nat /\ MaxMemoryFaults \in Nat /\ MaxId \in Nat \ {0}

VARIABLES
    server,      \* where init_web_data is, or "up"
    found,       \* the greatest id init_message_id_sequence found
    sequence,    \* id_generator:memory; 0: absent
    size,        \* memory_<memory id>; -1: absent
    known,       \* the row of the memory is in the database
    messages,    \* id -> [source, forgotten]
    saver,       \* the saves: [pc, todo, batch]
    progress,    \* of the memory task of a turn
    overwritten, \* history: some message was put over another
    evicted,     \* history: ids that made room for others
    deaths, memoryFaults
memoryVars == <<server, found, sequence, size, known, messages, saver,
                progress, overwritten, evicted, deaths, memoryFaults>>

Kinds  == {"raw", "extract"}
Savers == Turns \X Kinds
Raw(t)   == <<t, "raw">>
Facts(t) == <<t, "extract">>
Ids    == -1 .. MaxId
UnderWay   == {"number", "first", "check", "insert", "count"}

MaxOf(S) == CHOOSE x \in S : \A y \in S : y <= x
Stored   == DOMAIN messages
\* get_max_message_id over the memories there are; 1 without a message.
Greatest == IF known /\ Stored # {} THEN MaxOf(Stored) ELSE 1

MemoryInit ==
    /\ server = "sequence" /\ found = 0
    /\ sequence = 0 /\ size = -1 /\ known = TRUE
    /\ messages = [i \in Old |-> [source |-> 0, forgotten |-> FALSE]]
    /\ saver = [s \in Savers |-> [pc |-> "idle", todo |-> 0, batch |-> {}]]
    /\ progress = [t \in Turns |-> "none"]
    /\ overwritten = FALSE /\ evicted = {}
    /\ deaths = 0 /\ memoryFaults = 0

SaverGoes(s, pc) == saver' = [saver EXCEPT ![s].pc = pc]

-----------------------------------------------------------------------------
(* A server starts: init_message_id_sequence, then init_memory_size_cache.  *)

\* Mutant: the sequence is set although Redis has it.
InitSequenceAlways ==
    /\ server = "sequence" /\ server' = "set"
    /\ found' = Greatest
    /\ UNCHANGED <<sequence, size, known, messages, saver, progress,
                   overwritten, deaths, memoryFaults, evicted>>

InitSequence ==
    /\ server = "sequence"
    /\ IF sequence # 0
         THEN server' = "size" /\ found' = found
         ELSE /\ server' = "set"
              /\ found' = Greatest
    /\ UNCHANGED <<sequence, size, known, messages, saver, progress,
                   overwritten, deaths, memoryFaults, evicted>>

SetSequence ==
    /\ server = "set" /\ server' = "size"
    /\ sequence' = found /\ found' = 0
    /\ UNCHANGED <<size, known, messages, saver, progress, overwritten,
                   deaths, memoryFaults, evicted>>

\* get_memory_size_cache as it is called by init_memory_size_cache and
\* update_memory: an absent key is filled with what is stored.
Counted == IF size = -1 THEN Cardinality(Stored) ELSE size

InitSize ==
    /\ server = "size" /\ server' = "up"
    /\ size' = IF known THEN Counted ELSE size
    /\ UNCHANGED <<found, sequence, known, messages, saver, progress,
                   overwritten, deaths, memoryFaults, evicted>>

\* update_memory with a new embedding model or type asks for the size.
UpdateMemory ==
    /\ server = "up" /\ known /\ size = -1
    /\ size' = Counted
    /\ UNCHANGED <<server, found, sequence, known, messages, saver, progress,
                   overwritten, deaths, memoryFaults, evicted>>

-----------------------------------------------------------------------------
(* Both kinds of save.                                                      *)

\* queue_save_to_memory_task: a request that finds the memory's row.
AddTurn(t) ==
    /\ server = "up" /\ known /\ saver[Raw(t)].pc = "idle"
    /\ saver' = [saver EXCEPT ![Raw(t)] =
                   [pc |-> "number", todo |-> 1, batch |-> {}]]
    /\ UNCHANGED <<server, found, sequence, size, known, messages, progress,
                   overwritten, deaths, memoryFaults, evicted>>

\* handle_save_to_memory_task: a failed task is not tried again; the memory
\* may be gone, the LLM may fail, or answer with n messages.
Extract(t) ==
    /\ saver[Facts(t)].pc = "queued"
    /\ \/ /\ progress[t] # "failed" /\ known
          /\ \E n \in 0 .. MaxExtracts :
               /\ saver' = [saver EXCEPT ![Facts(t)] =
                    [pc |-> IF n = 0 THEN "over" ELSE "number",
                     todo |-> n, batch |-> {}]]
               /\ progress' = [progress EXCEPT ![t] =
                                 IF n = 0 THEN "done" ELSE "begun"]
          /\ UNCHANGED memoryFaults
       \/ /\ progress[t] = "failed" \/ ~known
          /\ SaverGoes(Facts(t), "over")
          /\ progress' = [progress EXCEPT ![t] = "failed"]
          /\ UNCHANGED memoryFaults
       \/ /\ deaths + memoryFaults < MaxMemoryFaults /\ memoryFaults' = memoryFaults + 1
          /\ SaverGoes(Facts(t), "over")
          /\ progress' = [progress EXCEPT ![t] = "failed"]
    /\ UNCHANGED <<server, found, sequence, size, known, messages,
                   overwritten, deaths, evicted>>

\* The message_list is built: every message takes an id.  (One INCRBY each;
\* those of others in between only change which ids these are.)
Took(s, ids) ==
    saver' = [saver EXCEPT ![s] = [pc |-> "check", todo |-> 0, batch |-> ids]]

\* generate_auto_increment_id: INCRBY; the first of all is SET to 2; an
\* error is logged and answers -1.
Number(s) ==
    /\ saver[s].pc = "number"
    /\ LET n == saver[s].todo
       IN  \/ /\ sequence + n < MaxId
              /\ IF sequence = 0
                   THEN sequence' = 1 /\ SaverGoes(s, "first")
                   ELSE /\ sequence' = sequence + n
                        /\ Took(s, sequence + 1 .. sequence + n)
              /\ UNCHANGED memoryFaults
           \/ /\ deaths + memoryFaults < MaxMemoryFaults /\ memoryFaults' = memoryFaults + 1
              /\ Took(s, {-1})
              /\ UNCHANGED sequence
    /\ UNCHANGED <<server, found, size, known, messages, progress,
                   overwritten, deaths, evicted>>

NumberFirst(s) ==
    /\ saver[s].pc = "first"
    /\ sequence' = 1 + saver[s].todo
    /\ Took(s, 2 .. 1 + saver[s].todo)
    /\ UNCHANGED <<server, found, size, known, messages, progress,
                   overwritten, deaths, memoryFaults, evicted>>

\* get_memory_size_cache(memory.tenant_id, memory.id): the arguments are
\* swapped, so the key is that of the tenant, under which nothing is stored.
CurrentSize == 0

\* pick_messages_to_delete_by_fifo: the forgotten ones first, then by
\* valid_at, which the LLM sets: any; no more than needed.
Picks(n) ==
    LET old == {i \in Stored : messages[i].forgotten}
        k   == IF n < Cardinality(Stored) THEN n ELSE Cardinality(Stored)
    IN  {D \in SUBSET Stored :
           /\ Cardinality(D) = k
           /\ D \subseteq old \/ old \subseteq D}

\* embed_and_save up to the insertion: make room under FIFO.
MakeRoom(s) ==
    /\ saver[s].pc = "check"
    /\ LET over == Cardinality(saver[s].batch) + CurrentSize - Limit
       IN  \E D \in IF over > 0 THEN Picks(over) ELSE {{}} :
             /\ messages' = [i \in Stored \ D |-> messages[i]]
             /\ evicted' = evicted \cup D
             /\ size' = IF over <= 0 THEN size
                        ELSE (IF size = -1 THEN 0 ELSE size) - Cardinality(D)
    /\ SaverGoes(s, "insert")
    /\ UNCHANGED <<server, found, sequence, known, progress, overwritten,
                   deaths, memoryFaults>>

\* Mutant: a task whose save failed is told to be done.
AfterSaveAlways(s, good) ==
    IF s[2] = "raw"
      THEN saver' = [saver EXCEPT ![s].pc = "over", ![Facts(s[1])].pc =
                       IF good THEN "queued" ELSE @]
           /\ UNCHANGED progress
      ELSE SaverGoes(s, "over") /\ progress' = [progress EXCEPT ![s[1]] = "done"]

\* The raw save is over: the task is inserted and queued, or an error told.
AfterSave(s, good) ==
    LET t == s[1]
    IN  IF s[2] = "raw"
          THEN saver' = [saver EXCEPT ![s].pc = "over",
                           ![Facts(t)].pc = IF good THEN "queued" ELSE @]
               /\ UNCHANGED progress
          ELSE SaverGoes(s, "over") /\ progress' = [progress EXCEPT ![t] =
                                         IF good THEN "done" ELSE "failed"]

Source(s) == IF s[2] = "raw" THEN 0 ELSE s[1]

PutMessages(s, ids) ==
    /\ messages' = [i \in Stored \cup ids |->
                      IF i \in ids
                        THEN [source |-> Source(s), forgotten |-> FALSE]
                        ELSE messages[i]]
    /\ overwritten' = (overwritten \/ ids \cap Stored # {})

\* insert_message: all of the batch, or some of it with an error.
Insert(s) ==
    /\ saver[s].pc = "insert"
    /\ \/ /\ PutMessages(s, saver[s].batch)
          /\ SaverGoes(s, "count")
          /\ UNCHANGED <<memoryFaults, progress>>
       \/ /\ deaths + memoryFaults < MaxMemoryFaults /\ memoryFaults' = memoryFaults + 1
          /\ \E part \in SUBSET saver[s].batch \ {saver[s].batch} : PutMessages(s, part)
          /\ AfterSave(s, FALSE)
    /\ UNCHANGED <<server, found, sequence, size, known, deaths, evicted>>

\* increase_memory_size_cache, then the end of either save.
Count(s) ==
    /\ saver[s].pc = "count"
    /\ size' = (IF size = -1 THEN 0 ELSE size) + Cardinality(saver[s].batch)
    /\ AfterSave(s, TRUE)
    /\ UNCHANGED <<server, found, sequence, known, messages, overwritten,
                   deaths, memoryFaults, evicted>>

-----------------------------------------------------------------------------
(* Other requests and what goes wrong.                                      *)

ForgetMessage(i) ==
    /\ server = "up" /\ known /\ i \in Stored /\ ~messages[i].forgotten
    /\ Cardinality({j \in Stored : messages[j].forgotten}) < MaxForgotten
    /\ messages' = [messages EXCEPT ![i].forgotten = TRUE]
    /\ UNCHANGED <<server, found, sequence, size, known, saver, progress,
                   overwritten, deaths, memoryFaults, evicted>>

\* delete_memory: the row, then the messages; the cached size stays.
DeleteMemory ==
    /\ server = "up" /\ known
    /\ known' = FALSE /\ server' = "deleting"
    /\ UNCHANGED <<found, sequence, size, messages, saver, progress,
                   overwritten, deaths, memoryFaults, evicted>>

DeleteMessages ==
    /\ server = "deleting" /\ server' = "up"
    /\ messages' = [i \in {} |-> 0]
    /\ UNCHANGED <<found, sequence, size, known, saver, progress, overwritten,
                   deaths, memoryFaults, evicted>>

\* The server dies with its requests and starts anew.
ServerDies ==
    /\ deaths + memoryFaults < MaxMemoryFaults /\ deaths' = deaths + 1
    /\ server' = "sequence" /\ found' = 0
    /\ saver' = [s \in Savers |->
                   IF s[2] = "raw" /\ saver[s].pc \in UnderWay
                     THEN [saver[s] EXCEPT !.pc = "over"] ELSE saver[s]]
    /\ UNCHANGED <<sequence, size, known, messages, progress, overwritten,
                   memoryFaults, evicted>>

\* The executor of a task dies; the task is delivered again, and memory
\* tasks have no retry count.
ExecutorDies(t) ==
    /\ deaths + memoryFaults < MaxMemoryFaults /\ deaths' = deaths + 1
    /\ saver[Facts(t)].pc \in UnderWay
    /\ saver' = [saver EXCEPT ![Facts(t)] =
                   [pc |-> "queued", todo |-> 0, batch |-> {}]]
    /\ UNCHANGED <<server, found, sequence, size, known, messages, progress,
                   overwritten, memoryFaults, evicted>>

\* Redis loses its data, the queue included.
RedisLoses ==
    /\ deaths + memoryFaults < MaxMemoryFaults /\ memoryFaults' = memoryFaults + 1
    /\ sequence' = 0 /\ size' = -1
    /\ saver' = [s \in Savers |-> IF saver[s].pc = "queued"
                                    THEN [saver[s] EXCEPT !.pc = "over"] ELSE saver[s]]
    /\ UNCHANGED <<server, found, known, messages, progress, overwritten,
                   deaths, evicted>>

Save(s) == Number(s) \/ NumberFirst(s) \/ MakeRoom(s) \/ Insert(s) \/ Count(s)

MemoryServer == InitSequence \/ SetSequence \/ InitSize \/ DeleteMessages

MemoryNext ==
    \/ MemoryServer \/ UpdateMemory \/ DeleteMemory
    \/ \E t \in Turns : AddTurn(t) \/ Extract(t) \/ ExecutorDies(t)
    \/ \E s \in Savers : Save(s)
    \/ \E i \in Stored : ForgetMessage(i)
    \/ ServerDies \/ RedisLoses

MemorySpec == MemoryInit /\ [][MemoryNext]_memoryVars

-----------------------------------------------------------------------------

(* Types of the sequence, the cache, the message store and the saves       *)
(* (generate_auto_increment_id, embed_and_save); a save that is over has   *)
(* told the task so.                                                       *)
MemoryTypeOK ==
    /\ server \in {"sequence", "set", "size", "up", "deleting"}
    /\ found \in -1 .. MaxId /\ sequence \in -1 .. MaxId
    /\ size \in Int /\ known \in BOOLEAN /\ overwritten \in BOOLEAN
    /\ DOMAIN messages \subseteq Ids
    /\ \A i \in Stored : messages[i] \in [source : {0} \cup Turns,
                                          forgotten : BOOLEAN]
    /\ saver \in [Savers -> [pc : {"idle", "queued", "over"} \cup UnderWay,
                             todo : 0 .. MaxExtracts + 1, batch : SUBSET Ids]]
    /\ progress \in [Turns -> {"none", "begun", "done", "failed"}]
    /\ deaths \in 0 .. MaxMemoryFaults /\ memoryFaults \in 0 .. MaxMemoryFaults

(* embed_and_save stores a message under <memory>_<id>: as long as no call *)
(* fails and Redis keeps its data, no message replaces another, although   *)
(* servers restart while executors hold ids they took and have not used.   *)
NothingOverwritten == memoryFaults = 0 => ~overwritten

(* A task whose progress is 1.0 has everything it extracted in the store, *)
(* whatever failed and died before, except what made room for later        *)
(* messages or went with the memory (save_extracted_to_memory_only,        *)
(* embed_and_save); ids used twice apart, see NothingOverwritten.          *)
ExtractedIsStored ==
    (known /\ ~overwritten) =>
        \A t \in Turns : progress[t] = "done" =>
          \A i \in saver[Facts(t)].batch \ evicted :
            i \in Stored /\ messages[i].source = t

(* web/src/locales/en.ts: the size accounts for each message, "The 5 MB    *)
(* default limit holds ~500 such messages": once no save is under way the  *)
(* memory is within its limit (embed_and_save).                            *)
MemoryWithinLimit ==
    (\A s \in Savers : saver[s].pc \notin UnderWay) => Cardinality(Stored) <= Limit

=============================================================================
