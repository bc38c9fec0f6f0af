# The cloud server in TLA+

TLA+ models of the deduplicating cloud server in `src/`: what it keeps, how its
threads and sessions interact, what TLC checks of that on small instances and what
TLAPS proves for all of them.

## The system

Edges connect over TLS.  A connection is one session: an upload ("migration"), a
download of a file's recipes, or a download of chunks.

| Component | State | Operations | Interacts with |
|---|---|---|---|
| `DataReceiver` (Server/dataReceiver.cc) | the batch at hand, the session's open container | message loop, last container, `done_` | index, queue, recipe files |
| `PlainIndex`, `AbsIndex` (Index/) | fingerprint -> container name, accumulated statistics | `ProcessOneBatch` (locked), `ProcessRecipeBatch` (not locked), load and save of the statistics | shared by all sessions |
| `StorageCore`, `Ocall_WriteContainer` (Server/) | sizes and content of the open container | `SaveChunk`, `WriteContainer`, serialisation | queue |
| `MessageQueue` (include/messageQueue.h) | bounded queue, `done_` | `Push` (spins), `Pop`, `IsEmpty` | receiver and writer of one session |
| `ReaderWriterQueue`, `BlockingReaderWriterQueue` (include/messageQueue/) | circle of ring-buffer blocks, a semaphore | enqueue, dequeue, peek, size, wait | `MessageQueue` |
| `LeveldbDatabase`, `DatabaseFactory` (Database/) | a LevelDB directory | `Query`, `Insert`, `OpenDB` | index; the server makes the in-memory one |
| `CryptoPrimitive` (Util/) | type of hash and cipher, one vector for all | `GenerateHash`, `EncryptWithKey`, `DecryptWithKey`, the two for session keys | one object, contexts of the sessions |
| `DataWriter` (Server/dataWriter.cc) | container being saved | `Run`, `SaveToFile` | queue, container files |
| `InMemoryDatabase` (Database/) | the index, the db file | `Query`, `Insert`, save on destruction, `OpenDB` | index, process |
| `daeServer` (App/) | the process, the list of session threads | start, accept loop, `CTRLC` | everything |
| `ServerOptThread` (Server/) | lock per client id | login, dispatch, the three kinds of session | sessions |
| `ClientVar` (Util/clientVar.cc) | buffers, recipe streams, container, queue of a session | construction, `ChangeFile`, destruction | session threads |
| `RecvDecoder` (Server/recvDecoder.cc) | the request, the group of containers, the message being filled | `Run`, `ProcessRecipeBatch`, `GetReqContainers`, `IndexConstruct` | index (not locked), container files, cache |
| `ReadCache`, `lru11::Cache` | LRU list over a pool of buffers | insert, get, evict | one download session |
| `RecipeSender` (Server/recipeSender.cc) | three recipe files and a handshake | `Run` | recipe files |
| `SSLConnection` (Comm/sslConnect.cc) | sockets and TLS objects | constructor, `ConnectSSL`, `ListenSSL`, `SendData`, `ReceiveData`, `Finish`, `ClearAcceptedClientSd` | all sessions |

What is hard in it, and listed with its lines under `hazards` in PROJECT.json: lookups
that take no lock beside insertions that do; a receiver that spins on a full queue with
the index lock held; two unsynchronised tests that end the writer; an index that names
containers which are not files yet, and that is written to disk only by ctrl + c, in
place; files read while they are written, and cached then; a cache and groups at their limits;
a queue without locks on memory that reorders stores; an SSL object that two threads use
and one of them frees; counters that all sessions add to;
`exit(EXIT_FAILURE)` in one session that ends all of them.

What makes each part correct: every index entry leads to its chunk (IndexSound), a
chunk has one place (NoAmbiguity), nothing is left behind in a queue (WriterDrains,
CloseCompletes), containers fit their buffer and are laid out as the decoder expects
(ContainerFits, BodyWhereDecoderLooks), recipes refer to stored chunks (RecipeCovered),
files are written once (NoOverwrite), what is saved is on disk (SavedOnDisk), downloads
return what was asked for (RestoredInOrder), the queue is a FIFO
(ElementsInOrder), a save that was cut short loads as what was saved of it (LoadFaithful),
no thread works on what another has freed (PatientEdge, ObjectsLive), and no wait is for
ever (BatchProcessed, CloseCompletes, BatchAnswered, WaitsEnd, WaitReturns, Released).

## The modules

| Module | Models | State and steps |
|---|---|---|
| `UploadPipeline` | `DataReceiver`, `PlainIndex`, `StorageCore`, `MessageQueue`, `DataWriter`, `InMemoryDatabase`, ctrl + c, crash and restart | one record of program counters per session: `rpc` for `DataReceiver`, `wpc` for `DataWriter`; `index`, `db`, `disk`, the queue `mq` |
| `ChunkStore` | what an upload path promises (abstract) | the chunks known, in open containers, durable and saved |
| `UploadRefinement` | the mapping from `UploadPipeline` to `ChunkStore` | no state of its own |
| `UploadInvariant` | the inductive invariant of `UploadPipeline`, part by part | no state of its own |
| `ReadCache` | `ReadCache` and the part of `lru11::Cache` it calls | LRU list `keys`, buffers `pool`, `currentIndex`; the history `whole`: which buffers hold a file that was complete when it was read |
| `RestoreSession` | `RecvDecoder::Run`, `ProcessRecipeBatch`, `GetReqContainers`, `IndexConstruct` | one request, its groups of containers, the message being filled |
| `RecipeSession` | `DataReceiver`'s recipe messages, `ClientVar::ChangeFile` and the recipe streams, `EdgeDownloadRecipeThread`, `RecipeSender::Run` | three files per name, their buffered streams, the two threads of a download |
| `LruCache` | all of `lru11::Cache`, and `ReadCache` on top of it | the map, the nodes by address, the list, the pool |
| `IndexStore` | `InMemoryDatabase` to the byte of its file, `LeveldbDatabase`, `DatabaseFactory`, the counters of `AbsIndex` and their file, `GenerateHash` as `ProcessOneBatch` calls it | `dbFile` and `statFile`, `reader` for the variables of `OpenDB`, registers of the unlocked additions, the hash context of each session |
| `CryptoPrimitive` | `CryptoPrimitive` as calls on a context | operators only |
| `ServerSessions` | `main`, `CTRLC`, `ServerOptThread::Run` | accept loop, thread list, table of client locks and the locks |
| `Channel` | `SSLConnection::SendData`, `ReceiveData` | the items on the wire, a call in progress on either side |
| `Connection` | the rest of `SSLConnection`, and the two threads of a session that use it | the edge, the server, the session thread, its worker, the SSL object, what is on its way back |
| `SessionObjects` | the constructors and destructors of `main`, `ServerOptThread`, `ClientVar`, `MessageQueue`, `ReadCache` | the set of objects that are allocated, the writer's thread |
| `StoreBuffer` | the memory that `weak_atomic` and `fence` of atomicops.h give two threads | operators only |
| `ReaderWriterQueue` | `moodycamel::ReaderWriterQueue` | shared memory by location, a store buffer per thread, the call each is in |
| `QueueInvariant` | the inductive invariant of `BlockingQueue`, part by part | no state of its own; a history that is not kept |
| `Fifo` | what a queue promises (abstract) | what is published and what is taken |
| `LightweightSemaphore` | `spsc_sema::LightweightSemaphore` | the count, the kernel semaphore, both threads |
| `BlockingQueue` | `BlockingReaderWriterQueue`, and the plain queue as `MessageQueue` uses it | which of the two is used |

`MC...` modules give the constants their values; `...Proofs` modules hold theorems.
PROJECT.json maps every definition to its lines.

How they fit together:

- `UploadPipeline` has any number of sessions.  They share the index and its lock, the
  files and the process.  A step is a stretch of code between two points where
  another thread can see or change something shared.
- `UploadPipeline` implements `ChunkStore` (run UploadSafety, theorem Refinement).
  `RestoreSession` runs beside an instance of `ChunkStore` and not beside the whole
  pipeline: what a download may meet is what `ChunkStore` allows.
- `RestoreSession` extends `ReadCache`: a session owns its cache, so the two share steps.
- `ServerSessions` takes a session for a thread that a worker and its edge end at some
  time; the three session modules say what happens inside.
- `Connection` extends `Channel`, and `SessionObjects` extends `Connection`: one connection
  from `connect` to the last `delete`.  The session modules let a connection end between
  two messages; what a break inside a message does is shown here.
- `LruCache` implements `ReadCache` (run CacheSafety), so that `RestoreSession` works with
  the list and not with nodes.
- `ReaderWriterQueue` implements `Fifo` (run QueueSafety, theorem QueueIsFifo).
  `UploadPipeline` takes the queue of a session for a sequence; that is what `Fifo` and
  AnswersHonest justify.
- `IndexStore` is the storage behind `index` and `db` of `UploadPipeline`, which cuts a save
  after any record and lets it make up one entry; LoadFaithful shows that a cut at any byte
  gives no more than that.

### UploadPipeline, step by step

`Login` is `EdgeUploadThread`: a `ClientVar` with a fresh container and two threads.
`RecvChunks` starts a batch.  For each chunk `LockIndex` takes `outIdxLck_` and looks it
up; `DuplicateChunk` ends the entry, or `FlushFull` (when the container is full, `Push`
waiting for `Room`), `WriteChunk`, `InsertKey` and `AssignValue` store it: `operator[]`
makes the key with an empty value first, and `ProcessRecipeBatch` (`AnswerStored`,
`AnswerMissing`), which takes no lock, can run in between.  A lookup beside an insertion
is undefined in C++; it may miss the key or find it without a value, and in the model
it may give either.  `Close`, `FlushLast` and `SetDone` end the receiver;
`CheckDone`, `CheckEmpty`, `Pop`, `PopNothing`, `OpenFile`, `WriteFile`, `NextRound` are
the writer's loop with its two separate tests and the two states of a file.  `Leave` is
the end of the session after both joins.  `Interrupt`, `SaveStat`, `TruncDB` and
`WriteDB` are `CTRLC`; `Crash` is the end of the process anywhere (an `exit(EXIT_FAILURE)`
in one session included, a loss of power not: what was written stays) and may cut the db
file after any record; `Restart` is `OpenDB`.

### RestoreSession, step by step

A request is looked up entry by entry and cut into groups that need at most
`CONTAINER_CAPPING_VALUE` containers.  The lookup takes no lock: beside an insertion
(`LookupRacing`) it may miss a key that is there, and the entry gets the name of the one
before it, or find a key without its value, an empty name.  Containers of a group come from
the cache or the file; a missing file ends the server.  A file that is read before it is
complete (`FetchPartial`) has a part of the container or nothing; that much is copied, to
the array and to the buffer of the cache, over what was there before.  The headers of a
group make one table, the last container with a fingerprint winning; chunks are cut and sent
in messages of `SendChunkBatchSize`, the last of them short.

### RecipeSession, step by step

A file is the number of the upload that opened it and a length.  What a stream was given
reaches the file when its buffer spills or closes, so that a crash may leave any part of
it.  A download opens the three files, sends their headers, waits for the edge, and sends
each in batches; `eof` is the variable `end` of the code, whose last batch may be empty.  The
session thread reads the header of the file recipe after it has started `RecipeSender`: an
edge that sends its `EDGE_RECEIVE_READY` without waiting for the response makes both read
one stream (`Overtaking`).  That stream may stand anywhere afterwards, and such an edge is
promised nothing.
The pointer that is deleted without being set is a choice between no effect and the end
of the process.

### ServerSessions, step by step

`AcceptEdge`, `Start` and the listing of the thread are three steps of `main`, which a signal
may come between.  A session thread takes the lock of the table, then that of its client
with the first one held, as the code does.  A SIGINT goes to `main` unless it is in its
handler; then to another thread, where `CTRLC` joins threads too: a session thread that
joins itself makes boost throw and the process die, and a worker that joins the session
waiting for it never returns.

### Channel, Connection and SessionObjects, step by step

`SSL_write` writes all or fails; `SSL_read` returns any part of what is there.  Neither
result is tested in the loops of the code, and the model keeps both loops: after a break
inside a body `ReceiveData` spins, and an int that overflows may end the loop with a
message that is cut short.

`SetUp`, `Accept` and `Handshake` are the server's side of a connection; a handshake that
fails ends the server.  The session thread gets the login and starts the worker before it
sends the response, so that the worker can have met the close of a hasty edge and freed the
SSL object by then: `Respond`, `RespondFails` and `RespondFreed` are the three cases.
`ReceiveClosed` answers the edge's close_notify, `Finish` on the edge waits for that answer.
`worker` is "last" in the read of `RecipeSender` behind CLOUD_SEND_RECIPE_END: there the close
of the edge frees the connection (`ClearAcceptedClientSd`, as in the other workers) and a
message makes the thread return without freeing it (`RecipeDone`), while in its reads before
that a close ends the server (`ReceiveRequired`).  After a login for recipes that are not there
nobody frees the object; the model has no step for it either.

`SessionObjects` adds what each of these steps allocates or deletes.  The three objects that
nothing frees are in `Leak`: the send buffer of a recipe download, `tmpBuf` of
`RecipeSender::Run` and the status list of a recipe query.

### LruCache, step by step

An erased node's address can be used again, so that a map entry left behind would be seen
to refer to another key.  `Insert` ends in `prune`, with the limits of the constructor.
`InsertToCache` and `ReadFromCache` are `ReadCache` with these operations spelled out.

### IndexStore, step by step

`OpenDB`, `LoadRecord` and `LoadEnd` keep what the variables of the loop hold: `itemSize`, set
to 0 after each record, and the strings, which `resize` does not clear.  `TruncDB` and
`SaveRecord` are the destructor, with the map in any order.  `Crash` cuts the file being
written at any byte.  `counter += n` without a lock is a load and a store.  LevelDB is a
map that survives the process; the lock file its adapter looks for is created by nothing.
A session computes a fingerprint in three calls on the context it hands over, before it
takes the lock of the index.

### ReaderWriterQueue and BlockingQueue, step by step

Each step loads at most one location that the other thread writes.  Stores go to a buffer:
atomic ones leave it in order, as on x86, plain ones (an element, a shadow index) may be
moved across them by the compiler, and a release fence stops both.  Loads are taken in
program order, since an acquire fence follows each load that something depends on.
`fetch_add` waits until the buffer is empty.  `EnqueueTail`, `EnqueueFull` and
`EnqueueAhead` are `inner_enqueue`; `DequeueFirst` to `DequeueElement` are `try_dequeue`,
`pop` and `peek` with the second look at the front block; `SizeStep` is `size_approx`.  The semaphore is
one step per atomic access, with time-outs.

## The runs

| Run | Expect | What it shows |
|---|---|---|
| UploadSafety | pass | IndexSound, WriterDrains, RecipeCovered, NoOverwrite, SavedOnDisk, NoAmbiguity, ContainerFits, BodyWhereDecoderLooks and the refinement ImplementsStore: two sessions that send the same chunks, a queue of one, containers at the exact edge, one crash, ctrl + c and restarts |
| UploadLiveness | pass | BatchProcessed, CloseCompletes although a full queue is waited for with the index lock held |
| RestoreSafety | pass | TypeOK (a group fits its array), CacheCoherent, RestoredInOrder, beside uploads, with files read before they are complete and lookups that meet an insertion |
| RestoreLiveness | pass | BatchAnswered, with lookups that meet an insertion, for an edge that reads its answers |
| RecipeSafety | pass | ClosedOnDisk, RecipeRestored |
| SessionSafety | pass | OneSessionPerClient, CleanShutdown; WaitsEnd when ctrl + c comes once |
| ConnectionSafety | pass | Framing, PatientEdge, ObjectsLive, ObjectsReturned; Released: each kind of login, closing or breaking at any point |
| QueueSafety | pass | ElementsInOrder (the refinement of Fifo), AnswersHonest, AssertsHold, NothingLeaks, CountExact; WaitReturns: both queues, stores that become visible late and out of order |
| CacheSafety | pass | NoDanglingNode, KeepsMostRecent and the refinement ImplementsReadCache |
| IndexSafety | pass | LoadFaithful, Statistics, SavedSurvives, CryptoFaithful: both databases, a crash at any byte of a save |
| UploadResidue | violation | the first container's `chunkNum` is not initialised (clientVar.cc:90): the file's count is wrong and its chunks are cut at wrong offsets |
| RestoreKnown | violation | a chunk deduplicated against another session's open container cannot be downloaded yet; the request ends the server (recvDecoder.cc:275) |

What the models have as the code has it, and a reader may not expect:

- A second ctrl + c during the first can keep the server from ever stopping (daeServer.cc:46);
  WaitsEnd is about one.
- `ReceiveData` need not return after a break inside a body (sslConnect.cc:298), and
  `SendData` returns true when `SSL_write` failed in the body (sslConnect.cc:266).
- An edge that closes before it has read its login response makes the session thread use a
  freed SSL object, or ends the server (serverOptThread.cc:225); PatientEdge is about the others.
- Rejecting a name deletes an unset pointer (serverOptThread.cc:299).
- The SSL object and the socket of a recipe download stay if the edge writes once more behind
  the end of the recipes (recipeSender.cc:162).  The send buffer of its ClientVar, `tmpBuf`
  (recipeSender.cc:33) and the status list of a recipe query (plainIndex.cc:117) are never freed.
- A container file that is read between `fopen` and `fwrite` (dataWriter.cc:98) has a length of 0,
  and `InsertToCache` copies that much over the buffer it takes (readCache.cc:56): with a full
  cache the evicted container's bytes are then listed under the new name and served from
  there, also after the file is complete.  CacheCoherent is about the other buffers.
- After a cut save `OpenDB` makes one entry up from the record before (inMemoryDatabase.cc:86).
- Two sessions that start together may lose one of their additions to the logical counters,
  which count the file of the login only (dataReceiver.cc:53).  Nothing updates
  compressedDataSize.
- Decryption with GCM never sets a tag and may end the process (cryptoPrimitive.cc:213); the
  server calls neither function.

Each property of a passing run has a fault in PROJECT.json, an operator named beside the
definition it replaces, that makes TLC refute it.

### Bounds

- Sessions and sharing: two sessions meet each pair of conflicting accesses in the code (lock and
  lookup, insertion and lookup, save and write); the theorems cover any number.  `MaxMsgs` lets each send,
  come back to what the other one did, and close.
- `MAX_CONTAINER_SIZE`: SmallContainer (100) has room for one chunk of 50 bytes, so
  that each chunk makes a container and the queue fills; PairContainer (273) takes
  two, and with a third it would be one byte too long, so that the test is met at its limit.
- `QueueCapacity` 1: the second container waits.
- `MaxCrashes` 1: a crash is followed by a restart and by sessions that find what it
  left.  Two crashes are not model-checked; the theorems allow any number.
- Cache and capping of 2 with three containers: the cache evicts, groups split, a group
  may need what it has just evicted.  `SendChunkBatchSize` 3 with requests of two and three
  different chunks: full and short messages.  `MaxRaces` 1: one lookup of the session meets
  an insertion.
- Recipes of 0, 2 and 3 entries with batches of 2: an end at a batch's end, inside one,
  and an empty file.  `Batches` gives both sizes to the file recipe, which has most of the
  steps, and one each to the others.
- Three connections of two clients: two that contend for a client's lock, and one of another
  client that is kept waiting by the table's.
- Three messages of lengths 0, 1, 3: no body, a body read at once, a body read in parts; a
  login, a message, and one more.
- Blocks of two slots: constructor arguments 1, 3 and 4 make one small block, one of twice
  the size, and a circle of five; `MaxBlocks` 3 lets the small one grow until `malloc`
  fails.  Four elements go round each ring.  `MaxPending` 1: a store of a call may still wait
  when its thread begins the next.
- Four keys and sizes of 0 to 2 with elasticity 0 to 2: unbounded, exact and elastic caches that
  evict; the pooled one has two buffers.
- Fingerprints of 3 and names of 2 bytes, lengths of 4 bytes as in the code: a cut falls in
  each field, and key and value differ in length so that what is left of one shows.  Two
  chunks, two sessions, two crashes, four lives: a cut save is loaded, saved and loaded again.
- Symmetry is used in safety runs only.  Liveness runs draw one fixed id (`OneID`), as
  ids are interchangeable.

### Fairness

Weak fairness for each running thread: receiver, writer, the `CTRLC` handler, the
decoder while it waits for nobody, lock steps and handlers of sessions, a `SendData`,
`ReceiveData` or `Finish` in progress, a call of the queue in progress and its stores.
The kernel schedules runnable threads, and each of these steps stays enabled until taken
(a spinning `Push` counts as a wait for `Room`).  The mutexes are granted weakly in
`UploadLiveness`: a batch is finite and the sessions' messages are bounded, so that no
receiver can be overtaken for ever.  A message of `RecvDecoder` is written only when its edge
reads: the steps that send one (`Writing`) are not in the fairness, and BatchAnswered has it
as a hypothesis that the edge reads or hangs up (EdgeReads).  Nothing is assumed of other
edges, of ctrl + c or of a restart: CloseCompletes starts from edges that have left, and
WaitsEnd has it as a hypothesis that the edges leave (EdgesLeave) and that ctrl + c comes
once.

### Assumptions and abstractions

- `CreateUUID` never repeats an id in use (eight random letters in the code).
- A chunk is named by its fingerprint; two chunks have different ones.
- An edge asks for at most `SendChunkBatchSize` fingerprints at once; the code does not
  test it.
- One producer and one consumer use a lock-free queue, as its comment asks; a session's
  receiver and writer do.  Reordering of loads is left out, see above.  The
  beginning of a fingerprint with the end of another, or with zeros, is no fingerprint of a
  third chunk (StoreAssumption).
- OpenSSL is external: a digest is a constant function, a byte of ciphertext is the byte and
  all it was combined with.  LevelDB is external: a map on disk.
- The heap is a set of names, one object per name: a leak is seen, its size is not.
- A container is the set of its chunks with its sizes; byte order inside is left out, and
  an offset is meaningful in the file it was read from only.
- A full stream buffer is written whole.  A recipe download that overlaps an upload of its
  name, or whose edge does not wait for the response, is promised nothing.  The three recipe
  files are opened in one step.
- A buffer that was overwritten in part is told apart from one that holds a container or its
  predecessor; which bytes of it are which is left out.
- CleanShutdown leaves out the window between starting a thread and listing it, recorded
  in `unlisted`: `CTRLC` there does not know of the thread.
- `ReceiveData` that adds -1 until an int overflows is undefined; it does not return, or
  returns what it has.
- Use of a freed SSL object is undefined; the server goes on, or ends.

## What is proved

Eight modules hold theorems, for all values of the constants that satisfy the named
assumptions, each from an inductive invariant.  Every invariant of a passing run but
BodyWhereDecoderLooks is stated by one of them, and every refinement.

### Uploads

`UploadProofs`: **TypeCorrect**; **Inductive**, that `IndInv` is an invariant, and
from it **IndexSoundness**, **Unambiguous**, **Drained**, **Fitting**, **Covered**,
**WrittenOnce**, **SavedChunks**.  The parts of `IndInv`:

- LockInv: the receiver in the critical section holds the lock, so that what one found in
  the index stays so until it has inserted.
- DrainInv: `done_` follows the last push, and the writer's two tests are made in the
  order that makes an empty queue final.
- PhaseInv: the index is saved without sessions.
- SlotInv: a container is in one slot (being saved, queued or open), and its file is absent
  or being written by the thread that has it.  Without it a step of another
  session could overwrite a file.
- InsertInv, ContentInv: the stages of an insertion, and that whatever is in a
  slot is in the index under that slot's id.
- PlaceInv: an entry leads to a slot or file, a saved one to a file; this gives
  IndexSound and SavedOnDisk.
- SizeInv: sizes in memory; ContainerFits alone is not inductive, since the
  test is made before the flush and the append after it.
- ClosedInv: a referenced file holds only chunks placed there, in the index and in the db
  file, unless a save was cut short; a restart passes it from the db file to the index.
- RecipeInv: recipe entries are accounted for through a save and a restart.

**OnlyResidueDisplaces** says how far the uninitialised `chunkNum` of the run UploadResidue
goes.  Whatever the memory holds (`Residue`), the bodies of a file are displaced by one value
of it in whole entries and by nothing else.  BodyWhereDecoderLooks itself is false of the code
and is only checked, for sessions whose memory was zero.

Assumed: ChunkAssumption (a chunk fits an empty container), BoundAssumption,
MarkAssumption (marks differ from ids and containers), UUIDAssumption.

**Refinement**, in the same module: every step of the pipeline is a step of `ChunkStore` or a
stutter, from `IndInv`.

### Downloads

`RestoreSessionProofs`: **CacheAloneCoherent** for `ReadCache` by itself, then for a download
beside any uploads **DownloadTypes**, **CacheStaysCoherent** and **DownloadsRestored**.  The
invariant `DownloadInv` has four parts:

- StoreInv: an unfinished file is not also a complete one.
- CacheInv: the buffers in use are the ones handed out so far, so that the one taken from
  the evicted node is in use by no other.
- RequestInv: how far the request is looked up, grouped, fetched and answered, and that
  these four positions follow each other.
- RestoreInv: every buffer holds the whole of the container it is listed for, the containers
  of a group are distinct, and what was sent and what waits is the beginning of the request.

RestoreInv holds as long as the edge asked for durable chunks and no lookup met an insertion
(Undisturbed): a raced lookup can give a wrong or empty name, which is what the code does.
RestoredInOrder has that as a hypothesis on the state, for its first part only; that as many
answers go out as there were entries is shown of every request.  Assumed: RestoreAssumption
(an edge asks for no more than a batch), NoneAssumption, and CacheAssumption.

`LruCacheProofs`: **LruInvariant**, **NothingDangles**, **MostRecentKept**, and
**CacheImplementsReadCache**, the refinement of `ReadCache` by map, nodes and list.  `LruInv`
is Linked (map and list name the same live nodes, each once), Ordered (the list is the
beginning of the history of uses) and Sized (the limit of the constructor, and a pooled
buffer per node).  Ordered is needed for both results: which node `prune` drops is
determined by the history only if the list is its beginning.  Assumed: LruAssumption,
FreeAssumption (a mark is no node and no address).

`RecipeSessionProofs`: **RecipesKept** (ClosedOnDisk), from StreamInv (what the streams of
the open file were given is what the file will have), and **RecipesRestored**, from
DownloadInv: what a download of a stored name has sent is the recipes before the current
one whole, of the current one what was read, and nothing after it; and that its sender
has not begun before the header is sent, since otherwise nothing is due.  Assumed:
RecipeAssumption.

### Sessions and connections

`SessionProofs`: **TypeCorrect**, **Exclusive** and **Clean**, from a lock part (who
holds which lock) and a list part (who is joined when), assuming SessionAssumption.

In the same module, for any number of messages of any lengths: **SessionInvariant**,
**MessagesFramed**, **PatientEdgesSafe**, **WorkedOnIsLive**, **EverythingReturned**.
`SessionInv` has three parts:

- StreamInv: what is on the wire is a stretch of the stream of messages without gaps, which
  begins with the item `ReceiveData` waits for; every message received is whole, but the
  last after a break.  Framing is not inductive without the stretch.
- ConnectionInv: which thread of which side may be where, which edges can have left before the
  session thread responds or the recipes have ended, and where a worker takes a close for the
  end; this gives PatientEdge.
- HeapInv: which objects exist at each pair of places of the session thread and worker.

### The index on disk

`IndexStoreProofs`, to the byte of the file, any number of crashes and lives:
**IndexInvariant**, **IndexTypes**, **FingerprintsFaithful**, **SavedEntriesSurvive** and
**LoadsFaithful**.  The parts of `IndexInv` that carry it:

- HashInv: what a session's context was fed is the chunk it is at, so that the digest is
  that chunk's.
- FileInv: the db file is a beginning of the records saved (`written`), cut anywhere.
- WholeInv: it is all of them unless a crash cut it, and they are the entries saved.
- LoadInv: `OpenDB` stands at the beginning of a record with those before it loaded, and
  `key` and `value` still hold the bytes of the last one; at the end all complete records
  are loaded and at most one entry besides.
- KeptInv: what was saved last is in the index, or in LevelDB always.

Assumed: HashAssumption (digests are different and none is all zeros), StoreAssumption,
CountAssumption.  LoadFaithful bounds what a cut save makes up: at most one entry, and if the
records around the cut are of chunks its key is that of no chunk but the cut record's.  The
condition is needed: made-up entries are saved as others are, and from a third crash on a
blend of them can be the key of a chunk (TLC shows it with `MaxCrashes` 3).

**StatisticsRight** follows the counters of `AbsIndex` from memory to their file and back.
`CounterInv` is SavedInv (the db file has everything that was saved), UniqueInv (what is in
memory, in the file, and what a load will find are the number and the size of the entries
there, or behind LevelDB, not ahead of them) and LogicalInv (what a session has loaded for an
addition is not ahead of what is due, and is the counter itself as long as no other session
came between).  UniqueInv has to say, for each place of a start and of a shutdown, which entries the
counters in memory and those in the file belong to.  A crash while one of the two files is
written (`torn`) is excepted: it can bring the counters of one save together with the entries
of another.

The size is a fold of the community modules over the set of entries, which takes out an
element that is chosen.  That a stored chunk adds its size, whichever the fold takes first,
is shown by a least counterexample (LeastOf, FoldsAgree, FoldExists, FoldAdds, Sizes), as the
provers have no induction over data.

### The queue

`QueueProofs`, for every size of the queue and of a block, every number of blocks and every
order in which stores become visible: **QueueInvariance**, **QueueIsFifo** (the refinement
ElementsInOrder), **AnswersAreHonest**, **AssertsAlwaysHold**, **NothingLeaksHolds** and
**CountIsExact**.  `QueueMemoryProofs` has the lemmas about memory: the producer, and the
stores of either thread that reach memory.

An index of the ring says little by itself: 0 is the first element or the first after any
number of rounds, a block may be the one before the front or the one after the tail, and
each thread sees indices that memory has not yet.  So `QueueInv` (module `QueueInvariant`)
says that there is a history h that the state agrees with.  In it the visits of the producer to
blocks are numbered 1, 2, 3, ... without wrapping round, and elements by the order they were
enqueued in, so that every index is an element number modulo the block's size and every
block pointer is a visit.  The parts:

- Counters, Circular, Visits, Positions: where memory's and each thread's front and tail are,
  that the visits between them are to different blocks and make the circle, and that no
  block holds more elements than it has slots.
- PendingTags, PendingStores, PendingFronts: a store on its way has a tag, its element and its
  place in the code; which tags may wait together, and what each will write.  The order of the
  plain stores is free between two fences, and this is where a missing fence would show.
- Views: what memory, the producer (with its pending stores) and the consumer read of tails,
  fronts, free blocks, links, elements and the shadow copies.  The links need most care: with
  a new block still on its way the block before it may point past it or not.
- ProducerCall, ConsumerCall: what the thread has read at each place of its call and what is
  still true of it; for size_approx, how far it has walked and what it has counted.
- Semaphore: the count is elements signalled less elements taken, one less while the consumer
  sleeps, with a wake-up on its way exactly if the count is not negative; a consumer that has
  acquired it will find an element.

An invariant that exists for some history cannot be evaluated by TLC; what follows from it is
checked by the run QueueSafety.  Assumed: QueueAssumption (the largest block is a power of
two, as the code asserts; finitely many sizes, so that there is a largest), and
PowerAssumption, which is arithmetic: the provers do not know `^`, and TLC evaluates it.

### Checked by TLC only

All liveness: BatchProcessed, CloseCompletes, BatchAnswered, WaitsEnd, Released,
WaitReturns.  Fairness and ENABLED are outside the provers' reach.

## Not modelled

- The configuration file (Util/configure.cc): read once before `main`; its values are
  constants.  Nothing is checked of them but that the recipe batch size is a multiple of the
  chunk batch size, so that the constants' assumptions are the operator's to keep.
- concurrentqueue.h, murmurHash.cc and compressGen.cc: nothing in the server uses them.
- TLS below `SSL_read` and `SSL_write`, the server log, and two sessions that write one
  recipe name at the same time (the three files are shared without a lock, clientVar.cc:110).

## Plan

1. Two upload sessions that write one recipe name; chunk downloads of a name whose recipe
   was downloaded, so that upload, recipe and chunk download meet in one run.
2. The container format as offsets: serialisation against `IndexConstruct`, with the
   order of chunks.
