--------------------------- MODULE UploadPipeline ---------------------------
(***************************************************************************)
(* The upload path of the cloud server.  One upload session runs two       *)
(* threads: DataReceiver takes batches from the edge, deduplicates each    *)
(* chunk against the index shared by all sessions (PlainIndex) and packs   *)
(* the new ones into the session's open container (StorageCore); full      *)
(* containers go through a bounded lock-free queue (MessageQueue) to       *)
(* DataWriter, which writes one file per container.  The index lives in    *)
(* memory and is saved when the server is closed with ctrl + c, and only   *)
(* then.                                                                   *)
(*                                                                         *)
(* A step is a stretch of code between two points where another thread can *)
(* see or change something shared: the index lock, the two writes of an    *)
(* insertion, the done flag, the queue, the two states of a file.          *)
(***************************************************************************)
EXTENDS Integers, Sequences, FiniteSets

CONSTANTS
    Session,            \* upload connections, each used once
    Chunk,              \* chunks, named by their SHA-256 fingerprint
    ContainerID,        \* container ids
    CreateUUID(_),      \* the ids that may be drawn when these are unused
    ChunkSize,          \* the length of each chunk
    MAX_CONTAINER_SIZE, \* size of the buffer of one serialised container
    QueueCapacity,      \* containers the queue holds before Push spins
    Residue,            \* values an uninitialised chunkNum can have
    Batch,              \* bound: the chunk lists the edge may send in a message
    MaxMsgs,            \* bound: messages of one session
    MaxCrashes,         \* bound: abnormal ends of the process
    None,               \* no container, no file, no holder, no such key
    Empty,              \* the value of a key that operator[] just inserted
    Garbled,            \* what OpenDB makes up for a record that was cut: no place of the chunk
    Partial             \* a file that fopen truncated and fwrite has not filled

CHUNK_HASH_SIZE == 32
CountSize == 4                           \* the chunk count that leads a file
EntrySize == CHUNK_HASH_SIZE + 2 * 4     \* fingerprint, offset, length

\* The edge cuts chunks of at least one byte that fit an empty container.
ASSUME ChunkAssumption ==
    /\ ChunkSize \in [Chunk -> Nat \ {0}]
    /\ MAX_CONTAINER_SIZE \in Nat /\ MAX_CONTAINER_SIZE >= CountSize
    /\ \A c \in Chunk : ChunkSize[c] + EntrySize + CountSize < MAX_CONTAINER_SIZE

ASSUME BoundAssumption ==
    /\ QueueCapacity \in Nat \ {0}
    /\ Residue \subseteq Nat
    /\ Batch \subseteq Seq(Chunk) \ {<< >>}
    /\ MaxMsgs \in Nat /\ MaxCrashes \in Nat

\* InmemoryContainer_t; the order of the chunks in it is left out.
Container == [id : ContainerID, chunks : SUBSET Chunk,
              chunkNum : Nat, header : Nat, body : Nat]

ASSUME MarkAssumption ==
    /\ None \notin ContainerID \union Session \union Container
    /\ Empty \notin ContainerID \union {None}
    /\ Garbled \notin ContainerID \union {None, Empty}
    /\ Partial \notin Container \union {None}

\* Eight random letters never repeat an id in use; nothing else is assumed.
ASSUME UUIDAssumption ==
    \A S \in SUBSET ContainerID : CreateUUID(S) \subseteq S

VARIABLES
    phase,          \* "running", the stages of CTRLC, "down"
    index,          \* indexObj_: fingerprint -> container name
    uniqueChunkNum, \* AbsIndex::_uniqueChunkNum
    db,             \* the saved copy of index (the db file)
    statFile,       \* the saved copy of uniqueChunkNum
    disk,           \* container files
    used,           \* ids CreateUUID has returned so far
    idxLock,        \* outIdxLck_: its holder
    crashes,        \* abnormal ends so far
    torn,           \* history: did one of them cut the saving short?
    rpc,            \* where the receiver thread of a session stands
    todo,           \* rest of the batch being processed
    cur,            \* curClient->_curContainer
    recipe,         \* fingerprints written to the session's secure recipes
    owed,           \* chunks the edge was told to send and has not sent yet
    msgs,           \* messages received
    fate,           \* history: is the session's work in db, or lost in a crash?
    mq,             \* curClient->_inputMQ
    done,           \* _inputMQ->done_
    wpc,            \* where the writer thread of a session stands
    jobDone,        \* jobDoneFlag
    tmp             \* tmpContainer, while it is being saved

serverVars == <<phase, db, statFile, crashes, torn>>
indexVars  == <<index, uniqueChunkNum, idxLock>>
recvVars   == <<rpc, todo, cur, recipe, owed, msgs, fate>>
queueVars  == <<mq, done>>
writerVars == <<wpc, jobDone, tmp, disk>>
vars == <<serverVars, indexVars, recvVars, queueVars, writerVars, used>>

-----------------------------------------------------------------------------
NewContainer(id, n) ==
    [id |-> id, chunks |-> {}, chunkNum |-> n, header |-> 0, body |-> 0]

\* Fault: the chunk count is left out of the sum.
FullWithoutCount(k, c) ==
    ChunkSize[c] + EntrySize + k.body + k.header >= MAX_CONTAINER_SIZE

\* The test that sends the open container off before a chunk is added.
Full(k, c) ==
    ChunkSize[c] + EntrySize + k.body + k.header + CountSize >= MAX_CONTAINER_SIZE

\* Fault: chunkNum is not counted up.
AddChunkUncounted(k, c) ==
    [id |-> k.id, chunks |-> k.chunks \union {c}, chunkNum |-> k.chunkNum,
     header |-> k.header + EntrySize, body |-> k.body + ChunkSize[c]]

AddChunk(k, c) ==
    [id |-> k.id, chunks |-> k.chunks \union {c}, chunkNum |-> k.chunkNum + 1,
     header |-> k.header + EntrySize, body |-> k.body + ChunkSize[c]]

\* Container_t::currentSize after Ocall_WriteContainer has serialised it.
SerialisedSize(k) == CountSize + k.header + k.body

\* Fault: the generator is seeded alike in every life of the server.
FreshIDsReseeded == CreateUUID(ContainerID)

\* Ids CreateUUID may return now.
FreshIDs == CreateUUID(ContainerID \ used)

\* Fault: a last container with a single chunk is taken for an empty one.
HasChunksOffByOne(k) == k.header > EntrySize

\* DataReceiver::Run pushes the last container only if it has a header.
HasChunks(k) == k.header # 0

\* Fault: a push that does not wait.
RoomAlways(s) == TRUE

\* try_enqueue succeeds; Push spins until it does.
Room(s) == Len(mq[s]) < QueueCapacity

\* Fault: done_ alone ends the writer.
IsEmptyIgnored(s) == TRUE

IsEmpty(s) == mq[s] = << >>

\* Fault: the index is not locked.
LockFreeAlways == TRUE

\* pthread_rwlock_wrlock returns.
LockFree == idxLock = None

ReceiverLoc == {"idle", "recv", "chunk", "lookup", "append", "insert", "assign",
                "answer", "last", "setdone", "join", "ended"}
WriterLoc == {"off", "check", "empty", "pop", "open", "write", "exit"}
Locked == {"lookup", "append", "insert", "assign"}   \* between wrlock and unlock
Gone == {"idle", "ended"}

Init ==
    /\ phase = "running"
    /\ index = [c \in Chunk |-> None]
    /\ db = [c \in Chunk |-> None]
    /\ uniqueChunkNum = 0 /\ statFile = 0
    /\ disk = [i \in ContainerID |-> None]
    /\ used = {} /\ idxLock = None /\ crashes = 0 /\ torn = FALSE
    /\ rpc = [s \in Session |-> "idle"]
    /\ todo = [s \in Session |-> << >>]
    /\ cur = [s \in Session |-> None]
    /\ recipe = [s \in Session |-> {}]
    /\ owed = [s \in Session |-> {}]
    /\ msgs = [s \in Session |-> 0]
    /\ fate = [s \in Session |-> "open"]
    /\ mq = [s \in Session |-> << >>]
    /\ done = [s \in Session |-> FALSE]
    /\ wpc = [s \in Session |-> "off"]
    /\ jobDone = [s \in Session |-> FALSE]
    /\ tmp = [s \in Session |-> None]

-----------------------------------------------------------------------------
(* The session thread.                                                     *)

\* ServerOptThread::EdgeUploadThread up to the joins: a ClientVar whose
\* InitUploadBuffer leaves chunkNum as the allocator returned it, and the two
\* threads.
Login(s) ==
    /\ phase = "running" /\ rpc[s] = "idle"
    /\ \E id \in FreshIDs, n \in Residue :
          /\ cur' = [cur EXCEPT ![s] = NewContainer(id, n)]
          /\ used' = used \union {id}
    /\ rpc' = [rpc EXCEPT ![s] = "recv"]
    /\ wpc' = [wpc EXCEPT ![s] = "check"]
    /\ fate' = [fate EXCEPT ![s] = "open"]
    /\ UNCHANGED <<serverVars, indexVars, todo, recipe, owed, msgs, queueVars,
                   jobDone, tmp, disk>>

\* Both joins, then ~ClientVar.  ~MessageQueue ends the process if the queue
\* still holds a container: WriterDrains says it never does.
Leave(s) ==
    /\ rpc[s] = "join" /\ wpc[s] = "exit"
    /\ rpc' = [rpc EXCEPT ![s] = "ended"]
    /\ cur' = [cur EXCEPT ![s] = None]
    /\ mq' = [mq EXCEPT ![s] = << >>]
    /\ UNCHANGED <<serverVars, indexVars, todo, recipe, owed, msgs, fate, done,
                   writerVars, used>>

-----------------------------------------------------------------------------
(* DataReceiver::Run and the index.                                        *)

\* After the entry at the head of a batch: the next one, or the next message.
NextEntry(s, loc) ==
    /\ todo' = [todo EXCEPT ![s] = Tail(@)]
    /\ rpc' = [rpc EXCEPT ![s] = IF Len(todo[s]) = 1 THEN "recv" ELSE loc]

\* ReceiveData returns a message of b entries.
Receive(s, b, loc) ==
    /\ rpc[s] = "recv" /\ msgs[s] < MaxMsgs
    /\ todo' = [todo EXCEPT ![s] = b]
    /\ msgs' = [msgs EXCEPT ![s] = @ + 1]
    /\ rpc' = [rpc EXCEPT ![s] = loc]

RecvChunks(s) ==
    /\ \E b \in Batch : Receive(s, b, "chunk")
    /\ UNCHANGED <<serverVars, indexVars, cur, recipe, owed, fate, queueVars,
                   writerVars, used>>

LockIndex(s) ==
    /\ rpc[s] = "chunk" /\ LockFree
    /\ idxLock' = s
    /\ rpc' = [rpc EXCEPT ![s] = "lookup"]
    /\ UNCHANGED <<serverVars, index, uniqueChunkNum, todo, cur, recipe, owed,
                   msgs, fate, queueVars, writerVars, used>>

\* Fault: a duplicate leaves the loop body before the unlock.
DuplicateChunkLocked(s) ==
    /\ rpc[s] = "lookup" /\ index[Head(todo[s])] # None
    /\ owed' = [owed EXCEPT ![s] = @ \ {Head(todo[s])}]
    /\ NextEntry(s, "chunk")
    /\ UNCHANGED <<serverVars, indexVars, cur, recipe, msgs, fate, queueVars,
                   writerVars, used>>

\* ReadIndexStore finds the fingerprint: nothing to store.
DuplicateChunk(s) ==
    /\ rpc[s] = "lookup" /\ index[Head(todo[s])] # None
    /\ idxLock' = None
    /\ owed' = [owed EXCEPT ![s] = @ \ {Head(todo[s])}]
    /\ NextEntry(s, "chunk")
    /\ UNCHANGED <<serverVars, index, uniqueChunkNum, cur, recipe, msgs, fate,
                   queueVars, writerVars, used>>

\* WriteContainer, the chunk does not fit: Ocall_WriteContainer pushes the open
\* container (Push spins while the queue is full, with the index lock held) and
\* a fresh one replaces it.
FlushFull(s) ==
    /\ rpc[s] = "lookup" /\ index[Head(todo[s])] = None
    /\ Full(cur[s], Head(todo[s]))
    /\ Room(s)
    /\ mq' = [mq EXCEPT ![s] = Append(@, cur[s])]
    /\ \E id \in FreshIDs :
          /\ cur' = [cur EXCEPT ![s] = NewContainer(id, 0)]
          /\ used' = used \union {id}
    /\ rpc' = [rpc EXCEPT ![s] = "append"]
    /\ UNCHANGED <<serverVars, indexVars, todo, recipe, owed, msgs, fate, done,
                   writerVars>>

\* WriteContainer, the rest: the chunk goes into the open container.
WriteChunk(s) ==
    /\ \/ rpc[s] = "append"
       \/ /\ rpc[s] = "lookup" /\ index[Head(todo[s])] = None
          /\ ~ Full(cur[s], Head(todo[s]))
    /\ cur' = [cur EXCEPT ![s] = AddChunk(@, Head(todo[s]))]
    /\ rpc' = [rpc EXCEPT ![s] = "insert"]
    /\ UNCHANGED <<serverVars, indexVars, todo, recipe, owed, msgs, fate,
                   queueVars, writerVars, used>>

\* indexObj_[key] = value, first half: operator[] adds the key.
InsertKey(s) ==
    /\ rpc[s] = "insert"
    /\ index' = [index EXCEPT ![Head(todo[s])] = Empty]
    /\ rpc' = [rpc EXCEPT ![s] = "assign"]
    /\ UNCHANGED <<serverVars, uniqueChunkNum, idxLock, todo, cur, recipe, owed,
                   msgs, fate, queueVars, writerVars, used>>

\* Second half: the value is assigned, the chunk counted, the lock released.
AssignValue(s) ==
    /\ rpc[s] = "assign"
    /\ index' = [index EXCEPT ![Head(todo[s])] = cur[s].id]
    /\ uniqueChunkNum' = uniqueChunkNum + 1
    /\ idxLock' = None
    /\ owed' = [owed EXCEPT ![s] = @ \ {Head(todo[s])}]
    /\ NextEntry(s, "chunk")
    /\ UNCHANGED <<serverVars, cur, recipe, msgs, fate, queueVars, writerVars, used>>

\* PlainIndex::ProcessRecipeBatch writes the secure recipe before it looks at
\* the index.
RecvRecipe(s) ==
    /\ \E b \in Batch :
          /\ Receive(s, b, "answer")
          /\ recipe' = [recipe EXCEPT ![s] = @ \union {b[i] : i \in DOMAIN b}]
    /\ UNCHANGED <<serverVars, indexVars, cur, owed, fate, queueVars, writerVars, used>>

\* Its lookups take no lock.  One that meets an insertion may walk a table that
\* is being rehashed and miss a key that is there.
Mutating == \E s \in Session : rpc[s] \in {"insert", "assign"}

AnswerStored(s) ==
    /\ rpc[s] = "answer" /\ index[Head(todo[s])] # None
    /\ NextEntry(s, "answer")
    /\ UNCHANGED <<serverVars, indexVars, cur, recipe, owed, msgs, fate,
                   queueVars, writerVars, used>>

\* Fault: a miss reserves the key (the two lines commented out in the code).
AnswerMissingReserved(s) ==
    /\ rpc[s] = "answer" /\ index[Head(todo[s])] = None
    /\ owed' = [owed EXCEPT ![s] = @ \union {Head(todo[s])}]
    /\ index' = [index EXCEPT ![Head(todo[s])] = Empty]
    /\ NextEntry(s, "answer")
    /\ UNCHANGED <<serverVars, uniqueChunkNum, idxLock, cur, recipe, msgs, fate,
                   queueVars, writerVars, used>>

AnswerMissing(s) ==
    /\ rpc[s] = "answer" /\ (index[Head(todo[s])] = None \/ Mutating)
    /\ owed' = [owed EXCEPT ![s] = @ \union {Head(todo[s])}]
    /\ NextEntry(s, "answer")
    /\ UNCHANGED <<serverVars, indexVars, cur, recipe, msgs, fate, queueVars,
                   writerVars, used>>

\* ReceiveData fails: the edge closed, or the connection broke.  The code does
\* not tell the two apart.
Close(s) ==
    /\ rpc[s] = "recv"
    /\ rpc' = [rpc EXCEPT ![s] = "last"]
    /\ UNCHANGED <<serverVars, indexVars, todo, cur, recipe, owed, msgs, fate,
                   queueVars, writerVars, used>>

\* The last container, if anything was put in it.
FlushLast(s) ==
    /\ rpc[s] = "last"
    /\ IF HasChunks(cur[s])
       THEN /\ Room(s)
            /\ mq' = [mq EXCEPT ![s] = Append(@, cur[s])]
       ELSE UNCHANGED mq
    /\ rpc' = [rpc EXCEPT ![s] = "setdone"]
    /\ UNCHANGED <<serverVars, indexVars, todo, cur, recipe, owed, msgs, fate,
                   done, writerVars, used>>

SetDone(s) ==
    /\ rpc[s] = "setdone"
    /\ done' = [done EXCEPT ![s] = TRUE]
    /\ rpc' = [rpc EXCEPT ![s] = "join"]
    /\ UNCHANGED <<serverVars, indexVars, todo, cur, recipe, owed, msgs, fate,
                   mq, writerVars, used>>

-----------------------------------------------------------------------------
(* DataWriter::Run.                                                        *)

\* done_ && IsEmpty(): the two operands are read one after the other.
CheckDone(s) ==
    /\ wpc[s] = "check"
    /\ wpc' = [wpc EXCEPT ![s] = IF done[s] THEN "empty" ELSE "pop"]
    /\ UNCHANGED <<serverVars, indexVars, recvVars, queueVars, jobDone, tmp, disk, used>>

CheckEmpty(s) ==
    /\ wpc[s] = "empty"
    /\ jobDone' = [jobDone EXCEPT ![s] = IsEmpty(s)]
    /\ wpc' = [wpc EXCEPT ![s] = "pop"]
    /\ UNCHANGED <<serverVars, indexVars, recvVars, queueVars, tmp, disk, used>>

\* Fault: jobDoneFlag does not end the loop.
NextRoundForever(s) == wpc' = [wpc EXCEPT ![s] = "check"]

\* The end of the loop body.
NextRound(s) == wpc' = [wpc EXCEPT ![s] = IF jobDone[s] THEN "exit" ELSE "check"]

Pop(s) ==
    /\ wpc[s] = "pop" /\ ~ IsEmpty(s)
    /\ tmp' = [tmp EXCEPT ![s] = Head(mq[s])]
    /\ mq' = [mq EXCEPT ![s] = Tail(@)]
    /\ wpc' = [wpc EXCEPT ![s] = "open"]
    /\ UNCHANGED <<serverVars, indexVars, recvVars, done, jobDone, disk, used>>

PopNothing(s) ==
    /\ wpc[s] = "pop" /\ IsEmpty(s)
    /\ NextRound(s)
    /\ UNCHANGED <<serverVars, indexVars, recvVars, queueVars, jobDone, tmp, disk, used>>

\* SaveToFile: fopen "wb" truncates what is there, fwrite and fclose fill it.
OpenFile(s) ==
    /\ wpc[s] = "open"
    /\ disk' = [disk EXCEPT ![tmp[s].id] = Partial]
    /\ wpc' = [wpc EXCEPT ![s] = "write"]
    /\ UNCHANGED <<serverVars, indexVars, recvVars, queueVars, jobDone, tmp, used>>

WriteFile(s) ==
    /\ wpc[s] = "write"
    /\ disk' = [disk EXCEPT ![tmp[s].id] = tmp[s]]
    /\ tmp' = [tmp EXCEPT ![s] = None]
    /\ NextRound(s)
    /\ UNCHANGED <<serverVars, indexVars, recvVars, queueVars, jobDone, used>>

-----------------------------------------------------------------------------
(* The server process: ctrl + c, crash, restart.                           *)

\* SIGINT reaches the main thread: it leaves the accept loop for CTRLC.
Interrupt ==
    /\ phase = "running"
    /\ phase' = "closing"
    /\ UNCHANGED <<db, statFile, crashes, torn, indexVars, recvVars, queueVars,
                   writerVars, used>>

\* Fault: the handler does not join the sessions.
SaveStatUnjoined ==
    /\ phase = "closing"
    /\ statFile' = uniqueChunkNum
    /\ phase' = "saving"
    /\ UNCHANGED <<db, crashes, torn, indexVars, recvVars, queueVars, writerVars, used>>

\* CTRLC has joined every session; ~AbsIndex writes the statistics.
SaveStat ==
    /\ phase = "closing" /\ \A s \in Session : rpc[s] \in Gone
    /\ statFile' = uniqueChunkNum
    /\ phase' = "saving"
    /\ UNCHANGED <<db, crashes, torn, indexVars, recvVars, queueVars, writerVars, used>>

\* ~InMemoryDatabase truncates the db file in place ...
TruncDB ==
    /\ phase = "saving"
    /\ db' = [c \in Chunk |-> None]
    /\ phase' = "writing"
    /\ UNCHANGED <<statFile, crashes, torn, indexVars, recvVars, queueVars, writerVars, used>>

\* ... and writes every entry; then the process exits.
WriteDB ==
    /\ phase = "writing"
    /\ db' = index
    /\ index' = [c \in Chunk |-> None]
    /\ uniqueChunkNum' = 0
    /\ fate' = [s \in Session |-> IF fate[s] = "lost" THEN "lost" ELSE "saved"]
    /\ phase' = "down"
    /\ UNCHANGED <<statFile, crashes, torn, idxLock, rpc, todo, cur, recipe, owed,
                   msgs, queueVars, writerVars, used>>

\* The process ends: any exit(EXIT_FAILURE), a signal.  Everything in memory is
\* gone, and what was written to a file is kept; a db file being written keeps some
\* of its records, and one more may be cut: OpenDB does not look at how much a read
\* returned, and loads that key with a wrong value (module IndexStore): zeros, or
\* the name in the record before it.
Crash ==
    /\ phase # "down" /\ crashes < MaxCrashes
    /\ crashes' = crashes + 1
    /\ torn' = (torn \/ phase \in {"saving", "writing"})
    /\ phase' = "down"
    /\ IF phase = "writing"
       THEN \E K \in SUBSET Chunk, cut \in Chunk \union {None} :
               db' = [c \in Chunk |->
                         IF c = cut /\ index[c] # None THEN Garbled
                         ELSE IF c \in K THEN index[c] ELSE None]
       ELSE UNCHANGED db
    /\ fate' = [s \in Session |-> IF fate[s] = "saved" /\ phase # "writing"
                                  THEN "saved" ELSE "lost"]
    /\ index' = [c \in Chunk |-> None]
    /\ uniqueChunkNum' = 0
    /\ idxLock' = None
    /\ rpc' = [s \in Session |-> IF rpc[s] = "idle" THEN "idle" ELSE "ended"]
    /\ wpc' = [s \in Session |-> IF rpc[s] = "idle" THEN "off" ELSE "exit"]
    /\ todo' = [s \in Session |-> << >>]
    /\ cur' = [s \in Session |-> None]
    /\ mq' = [s \in Session |-> << >>]
    /\ tmp' = [s \in Session |-> None]
    /\ UNCHANGED <<statFile, disk, recipe, owed, msgs, done, jobDone, used>>

\* main up to the accept loop: OpenDB loads the db file, AbsIndex the statistics.
Restart ==
    /\ phase = "down"
    /\ phase' = "running"
    /\ index' = db
    /\ uniqueChunkNum' = statFile
    /\ UNCHANGED <<db, statFile, crashes, torn, idxLock, recvVars, queueVars, writerVars, used>>

-----------------------------------------------------------------------------
Receiver(s) ==
    \/ LockIndex(s) \/ DuplicateChunk(s) \/ FlushFull(s) \/ WriteChunk(s)
    \/ InsertKey(s) \/ AssignValue(s) \/ AnswerStored(s) \/ AnswerMissing(s)
    \/ FlushLast(s) \/ SetDone(s) \/ Leave(s)

Edge(s) == Login(s) \/ RecvChunks(s) \/ RecvRecipe(s) \/ Close(s)

Writer(s) ==
    \/ CheckDone(s) \/ CheckEmpty(s) \/ Pop(s) \/ PopNothing(s)
    \/ OpenFile(s) \/ WriteFile(s)

Handler == SaveStat \/ TruncDB \/ WriteDB

Next ==
    \/ \E s \in Session : Edge(s) \/ Receiver(s) \/ Writer(s)
    \/ Interrupt \/ Handler \/ Crash \/ Restart

Spec == Init /\ [][Next]_vars

\* Every thread of a live process is scheduled.  Nothing is assumed of the edge,
\* of ctrl + c or of a restart.
Fairness ==
    /\ \A s \in Session : WF_vars(Receiver(s)) /\ WF_vars(Writer(s))
    /\ WF_vars(Handler)

FairSpec == Spec /\ Fairness

-----------------------------------------------------------------------------
(* Properties.                                                             *)

Busy == {"chunk", "answer"} \union Locked

TypeServer ==
    /\ phase \in {"running", "closing", "saving", "writing", "down"}
    /\ index \in [Chunk -> ContainerID \union {None, Empty, Garbled}]
    /\ db \in [Chunk -> ContainerID \union {None, Empty, Garbled}]
    /\ uniqueChunkNum \in Nat /\ statFile \in Nat /\ crashes \in Nat
    /\ torn \in BOOLEAN
    /\ used \in SUBSET ContainerID
    /\ idxLock \in Session \union {None}

TypeReceiver ==
    /\ rpc \in [Session -> ReceiverLoc]
    /\ todo \in [Session -> Seq(Chunk)]
    /\ cur \in [Session -> Container \union {None}]
    /\ recipe \in [Session -> SUBSET Chunk]
    /\ owed \in [Session -> SUBSET Chunk]
    /\ msgs \in [Session -> Nat]
    /\ fate \in [Session -> {"open", "saved", "lost"}]

TypeWriter ==
    /\ mq \in [Session -> Seq(Container)]
    /\ done \in [Session -> BOOLEAN]
    /\ wpc \in [Session -> WriterLoc]
    /\ jobDone \in [Session -> BOOLEAN]
    /\ tmp \in [Session -> Container \union {None}]
    /\ disk \in [ContainerID -> Container \union {None, Partial}]

\* A thread inside a batch has an entry at hand, a running session an open
\* container, a writer that saves something to save; no queue is overfull.
Shape(s) ==
    /\ rpc[s] \in Busy => todo[s] # << >>
    /\ rpc[s] \notin Gone => cur[s] \in Container
    /\ wpc[s] \in {"open", "write"} => tmp[s] \in Container
    /\ Len(mq[s]) <= QueueCapacity

\* The type invariant.
TypeOK == TypeServer /\ TypeReceiver /\ TypeWriter /\ \A s \in Session : Shape(s)

\* What the server knows of a chunk: the index, or what a restart will load.
Directory == IF phase = "down" THEN db ELSE index

\* A container on its way to the disk is in one of the slots of its session:
\* 0 is the open container, 1 .. n the queue, -1 the one the writer is saving.
Slot == -1 .. QueueCapacity

Occupied(s, l) ==
    \/ l = 0 /\ rpc[s] \notin Gone \union {"setdone", "join"}
    \/ l = -1 /\ wpc[s] \in {"open", "write"}
    \/ l \in 1 .. Len(mq[s])

At(s, l) == IF l = 0 THEN cur[s] ELSE IF l = -1 THEN tmp[s] ELSE mq[s][l]

InMemory(id, c) ==
    \E s \in Session, l \in Slot :
        Occupied(s, l) /\ At(s, l).id = id /\ c \in At(s, l).chunks

OnDisk(id, c) == disk[id] \in Container /\ c \in disk[id].chunks

\* IndexSound: the container the index names for a chunk holds that chunk, in
\* its file or on its way there.  No order of the threads, full queue, closing
\* session, crash or restart leaves an entry that points at nothing, except for
\* the record that was cut when the saving of the index was.
IndexSound ==
    \A c \in Chunk :
        \/ Directory[c] \in {None, Empty}
        \/ Directory[c] = Garbled /\ torn
        \/ Directory[c] \in ContainerID
             /\ (OnDisk(Directory[c], c) \/ InMemory(Directory[c], c))

\* NoAmbiguity: a file the index refers to holds only chunks the index places
\* there.  RecvDecoder::IndexConstruct merges the headers of up to sixteen files
\* into one table keyed by fingerprint, so a chunk stored twice would be cut out
\* of one file at the other's offset.  Only a save of the index that was cut
\* short can break this.
NoAmbiguity ==
    ~ torn =>
        \A id \in ContainerID :
            (disk[id] \in Container /\ \E c \in Chunk : Directory[c] = id)
                => \A c \in disk[id].chunks : Directory[c] = id

\* WriterDrains: when DataWriter has returned and DataReceiver too, nothing is
\* left in the queue, whatever the order in which done_ was set, the queue
\* filled and the two tests of the loop made.
WriterDrains ==
    \A s \in Session : wpc[s] = "exit" => mq[s] = << >> /\ rpc[s] \in {"join", "ended"}

\* ContainerFits: what Ocall_WriteContainer serialises fits Container_t::body.
ContainerFits ==
    \A s \in Session, l \in Slot :
        Occupied(s, l) => SerialisedSize(At(s, l)) <= MAX_CONTAINER_SIZE

\* A chunk has its place in the index, or the thread that inserts it is about
\* to give it one, or its record was cut.
Placed(c) ==
    \/ Directory[c] \in ContainerID
    \/ Directory[c] = Garbled /\ torn
    \/ \E s \in Session : rpc[s] = "assign" /\ Head(todo[s]) = c

\* ProcessRecipeBatch has written c to the recipe and not looked it up yet.
Pending(s, c) == rpc[s] = "answer" /\ \E i \in DOMAIN todo[s] : todo[s][i] = c

\* RecipeCovered: every fingerprint of a secure recipe is in the index, or the
\* edge was told to send the chunk and has not, or its answer is still being
\* worked out.  It survives clean restarts; a crash excuses the sessions whose
\* entries had not been saved.
RecipeCovered ==
    \A s \in Session : fate[s] # "lost" =>
        \A c \in recipe[s] : Placed(c) \/ c \in owed[s] \/ Pending(s, c)

\* NoOverwrite: a complete container file never changes again.
NoOverwrite ==
    [][\A id \in ContainerID : disk[id] \in Container => disk'[id] = disk[id]]_vars

\* BodyWhereDecoderLooks: RecvDecoder::IndexConstruct takes the bodies to start
\* chunkNum entries after the count; they start where the header ends.
BodyWhereDecoderLooks ==
    \A id \in ContainerID :
        disk[id] \in Container => disk[id].chunkNum * EntrySize = disk[id].header

\* BatchProcessed: a batch is always finished, although the receiver waits for
\* the index lock and its holder may be spinning on a full queue.
BatchProcessed ==
    \A s \in Session : rpc[s] \in {"chunk", "answer"} ~> rpc[s] \in {"recv", "ended"}

\* CloseCompletes: once a connection is closed the last container is pushed, the
\* writer drains the queue and the session ends; and ctrl + c ends the server once
\* every edge has disconnected.
CloseCompletes ==
    /\ \A s \in Session : rpc[s] = "last" ~> rpc[s] = "ended"
    /\ (phase = "closing" /\ \A s \in Session : rpc[s] \in Gone \union {"last", "setdone", "join"})
          ~> phase = "down"
=============================================================================
