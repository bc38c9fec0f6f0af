--------------------------- MODULE RestoreSession ---------------------------
(***************************************************************************)
(* A download session: RecvDecoder::Run answers the fingerprints the edge  *)
(* asks for with the chunks.  It runs beside the uploads, which are seen   *)
(* as the store they implement (ChunkStore, module UploadRefinement).      *)
(*                                                                         *)
(* The entries of a batch are looked up in the index, collected into       *)
(* groups that need at most CAPPING containers, the containers of a group  *)
(* fetched through the cache, their headers merged into one table, and the *)
(* chunks cut out of the containers and sent.                              *)
(*                                                                         *)
(* An offset is meaningful in the file whose header it was read from and   *)
(* in no other: restoreIndex maps a fingerprint to that file.              *)
(***************************************************************************)
EXTENDS ReadCache, FiniteSets

CONSTANTS
    Chunk,
    CONTAINER_CAPPING_VALUE, \* containers of a group
    SendChunkBatchSize,      \* chunks of a message to the edge
    Batch,                   \* bound: the lists of fingerprints the edge may ask for
    MaxMsgs,                 \* bound: requests of the session
    MaxRaces                 \* bound: lookups that meet an insertion

\* _downloadChunkBase has room for SendChunkBatchSize entries: the edge must not
\* ask for more.
ASSUME RestoreAssumption ==
    /\ CONTAINER_CAPPING_VALUE \in Nat \ {0} /\ SendChunkBatchSize \in Nat \ {0}
    /\ Batch \subseteq {b \in Seq(Chunk) : Len(b) <= SendChunkBatchSize}
    /\ MaxMsgs \in Nat /\ MaxRaces \in Nat

ASSUME NoneAssumption == None \notin ContainerID \union Chunk

VARIABLES
    up, known, opened, durable, saved, \* the store: see ChunkStore
    dpc,             \* where the session stands
    entries,         \* fingerprints of the batch, in _downloadChunkBase
    names,           \* their container names, as far as they are looked up
    ids,             \* idBuffer: containers of the group
    start, end,      \* startEntry, endEntry: the group is start .. end - 1
    containerArray,  \* the buffers the containers of a group are read into
    fetched,         \* containers of the group that were read so far
    out,             \* chunks in sendChunkBuf, not sent yet
    sent,            \* history: chunks of the batch sent so far
    asked,           \* history: what was true of every batch when it arrived
    requests, races

storeVars == <<up, known, opened, durable, saved>>
batchVars == <<entries, names>>
groupVars == <<ids, start, end, containerArray, fetched>>
sendVars  == <<out, sent>>
countVars == <<asked, requests, races>>
sessionVars == <<dpc, batchVars, groupVars, sendVars, countVars, cacheVars>>
vars == <<storeVars, sessionVars>>

Uploads == INSTANCE ChunkStore

Array == 1 .. CONTAINER_CAPPING_VALUE

Init ==
    /\ Uploads!Init /\ CacheInit
    /\ dpc = "off"
    /\ entries = << >> /\ names = << >> /\ ids = << >> /\ start = 1 /\ end = 1
    /\ containerArray = [i \in Array |-> None] /\ fetched = 0
    /\ out = << >> /\ sent = << >>
    /\ asked = "durable" /\ requests = 0 /\ races = 0

-----------------------------------------------------------------------------
\* EdgeDownloadChunkThread: buffers, an empty cache, the response to the edge.
Login ==
    /\ dpc = "off" /\ up
    /\ dpc' = "ready"
    /\ UNCHANGED <<storeVars, batchVars, groupVars, sendVars, countVars, cacheVars>>

\* EDGE_RECEIVE_READY arrives.
Ready ==
    /\ dpc = "ready"
    /\ dpc' = "recv"
    /\ UNCHANGED <<storeVars, batchVars, groupVars, sendVars, countVars, cacheVars>>

Durable(c) == known[c] # None /\ <<c, known[c]>> \in durable

\* A file that the index refers to holds only chunks that the index places there.
\* UploadPipeline keeps this (NoAmbiguity) unless a save was cut short.
Unambiguous ==
    \A p \in durable : (\E d \in Chunk : known[d] = p[2]) => known[p[1]] = p[2]

\* What the store has of a request.
Standing(b) ==
    IF ~ Unambiguous \/ \E i \in DOMAIN b : known[b[i]] = None THEN "nothing"
    ELSE IF \A i \in DOMAIN b : Durable(b[i]) THEN "durable" ELSE "known"

Weaker(x, y) ==
    IF "nothing" \in {x, y} THEN "nothing" ELSE IF "known" \in {x, y} THEN "known" ELSE "durable"

\* A request.  How it and the ones before it stand is recorded for the properties.
RecvBatch ==
    /\ dpc = "recv" /\ requests < MaxMsgs
    /\ \E b \in Batch :
          /\ entries' = b
          /\ dpc' = IF b = << >> THEN "tail" ELSE "lookup"
          /\ asked' = Weaker(asked, Standing(b))
    /\ names' = << >> /\ start' = 1 /\ end' = 1
    /\ out' = << >> /\ sent' = << >>
    /\ requests' = requests + 1
    /\ UNCHANGED <<storeVars, ids, containerArray, fetched, races, cacheVars>>

\* The edge closes: the session ends.
Close ==
    /\ dpc = "recv"
    /\ dpc' = "end"
    /\ UNCHANGED <<storeVars, batchVars, groupVars, sendVars, countVars, cacheVars>>

\* ReadIndexStore, without a lock, for the next entry.  A miss is logged, and the
\* entry gets the name of the entry before it: tmpContainerNameStr is not cleared.
Found(name) ==
    /\ names' = Append(names, name)
    /\ dpc' = IF Len(names) + 1 = Len(entries) THEN "collect" ELSE "lookup"
    /\ UNCHANGED <<storeVars, entries, groupVars, sendVars, asked, requests, cacheVars>>

LookupKey == entries[Len(names) + 1]

Missed == IF names = << >> THEN None ELSE Last(names)

Lookup ==
    /\ dpc = "lookup"
    /\ Found(IF known[LookupKey] = None THEN Missed ELSE known[LookupKey])
    /\ UNCHANGED races

\* A lookup beside an insertion: during a rehash it misses a key that is there, and
\* it may find a new key before its value, the empty string, which names no file.
LookupRacing ==
    /\ dpc = "lookup" /\ races < MaxRaces
    /\ Found(Missed) \/ (known[LookupKey] = None /\ Found(None))
    /\ races' = races + 1

\* An entry joins the group; its container is added to the group's.
Collect ==
    /\ dpc = "collect"
    /\ ids' = IF names[end] \in ToSet(ids) THEN ids ELSE Append(ids, names[end])
    /\ end' = end + 1
    /\ dpc' = IF Len(ids') = CONTAINER_CAPPING_VALUE \/ end = Len(entries)
              THEN "fetch" ELSE "collect"
    /\ fetched' = 0
    /\ UNCHANGED <<storeVars, batchVars, start, containerArray, sendVars, countVars, cacheVars>>

-----------------------------------------------------------------------------
(* GetReqContainers, one container at a time.                              *)

Fetching == dpc = "fetch" /\ fetched < Len(ids)

\* The container is in containerArray[fetched + 1].
Fetched(content) ==
    /\ containerArray' = [containerArray EXCEPT ![fetched + 1] = content]
    /\ fetched' = fetched + 1
    /\ dpc' = IF fetched + 1 = Len(ids) THEN "send" ELSE "fetch"
    /\ UNCHANGED <<storeVars, batchVars, ids, start, end, sendVars, countVars>>

\* Fault: a hit goes on with the same container.
FetchCachedAgain ==
    LET name == ids[fetched + 1] IN
    /\ Fetching /\ ExistsInCache(name)
    /\ containerArray' = [containerArray EXCEPT ![fetched + 1] = Cached(name)]
    /\ ReadFromCache(name)
    /\ UNCHANGED <<storeVars, dpc, batchVars, ids, start, end, fetched, sendVars, countVars,
                   pool, currentIndex, whole>>

FetchCached ==
    LET name == ids[fetched + 1] IN
    /\ Fetching /\ ExistsInCache(name)
    /\ Fetched(Cached(name))
    /\ ReadFromCache(name)
    /\ UNCHANGED <<pool, currentIndex, whole>>

\* Fault: the cache is not asked first.
FetchFileAlways ==
    LET name == ids[fetched + 1] IN
    /\ Fetching
    /\ Uploads!Sealed(name)
    /\ Fetched(name)
    /\ InsertToCache(name, "all")

FetchFile ==
    LET name == ids[fetched + 1] IN
    /\ Fetching /\ ~ ExistsInCache(name)
    /\ Uploads!Sealed(name)
    /\ Fetched(name)
    /\ InsertToCache(name, "all")

\* The file is there and incomplete: what it lacks stays as it was, in the array and
\* in the buffer of the cache, which keeps it under the name.
FetchPartial ==
    LET name == ids[fetched + 1] IN
    /\ Fetching /\ ~ ExistsInCache(name)
    /\ name \in opened
    /\ \E length \in Length \ {"all"} :
          /\ Fetched(Copied(containerArray[fetched + 1], name, length))
          /\ InsertToCache(name, length)

\* exit(EXIT_FAILURE) ends the server, and with it the index in memory.
Exit(loc) ==
    /\ up' = FALSE /\ known' = Uploads!Nothing
    /\ dpc' = loc
    /\ UNCHANGED <<opened, durable, saved, batchVars, groupVars, sendVars, countVars, cacheVars>>

\* There is no such file.
FetchMissing ==
    LET name == ids[fetched + 1] IN
    /\ Fetching /\ ~ ExistsInCache(name)
    /\ ~ Uploads!Sealed(name) /\ name \notin opened
    /\ Exit("exit")

-----------------------------------------------------------------------------
(* IndexConstruct, RecoverOneChunk, SendBatchChunks.                       *)

Header(content) == {c \in Chunk : <<c, content>> \in durable}

\* Headers are merged in the order of the array: the last one wins.
RestoreIndex(c) ==
    LET has == {i \in 1 .. Len(ids) : c \in Header(containerArray[i])} IN
    IF has = {} THEN None
    ELSE containerArray[CHOOSE i \in has : \A j \in has : i >= j]

\* tmpContainerMap: the place of a container in the array.
ContainerIndex(name) == CHOOSE i \in 1 .. Len(ids) : ids[i] = name

\* What is sent for an entry: the chunk if the offset belongs to the container it
\* is applied to, else other bytes.
RecoverOneChunk(e) ==
    LET from == containerArray[ContainerIndex(names[e])] IN
    IF from # None /\ RestoreIndex(entries[e]) = from THEN entries[e] ELSE None

\* A chunk is added to the message; a full message is sent.
Send ==
    LET buf == Append(out, RecoverOneChunk(start)) IN
    /\ dpc = "send" /\ start < end
    /\ start' = start + 1
    /\ IF Len(buf) % SendChunkBatchSize = 0
       THEN sent' = sent \o buf /\ out' = << >>
       ELSE sent' = sent /\ out' = buf
    /\ UNCHANGED <<storeVars, dpc, batchVars, ids, end, containerArray, fetched,
                   countVars, cacheVars>>

\* restoreIndex.find returned end(): the program reads what is not there.
SendNotFound ==
    /\ dpc = "send" /\ start < end
    /\ RestoreIndex(entries[start]) = None
    /\ Exit("exit")

LastGroup == end > Len(entries)

\* Fault: idNum is not reset.
EndGroupKept ==
    /\ dpc = "send" /\ start = end
    /\ IF LastGroup /\ out # << >>
       THEN sent' = sent \o out /\ out' = << >>
       ELSE UNCHANGED sendVars
    /\ dpc' = IF LastGroup THEN "tail" ELSE "collect"
    /\ UNCHANGED <<storeVars, batchVars, ids, start, end, containerArray, fetched,
                   countVars, cacheVars>>

\* After the last group the message goes out even if it is not full.
EndGroup ==
    /\ dpc = "send" /\ start = end
    /\ IF LastGroup /\ out # << >>
       THEN sent' = sent \o out /\ out' = << >>
       ELSE UNCHANGED sendVars
    /\ ids' = << >>
    /\ dpc' = IF LastGroup THEN "tail" ELSE "collect"
    /\ UNCHANGED <<storeVars, batchVars, start, end, containerArray, fetched,
                   countVars, cacheVars>>

\* CLOUD_SEND_CHUNK_END.
ProcessRecipeTailBatch ==
    /\ dpc = "tail"
    /\ dpc' = "recv"
    /\ UNCHANGED <<storeVars, batchVars, groupVars, sendVars, countVars, cacheVars>>

\* The next step sends a message: it waits until the edge has read enough.
Writing ==
    \/ dpc = "send" /\ start < end /\ (Len(out) + 1) % SendChunkBatchSize = 0
    \/ dpc = "send" /\ start = end /\ LastGroup /\ out # << >>
    \/ dpc = "tail"

\* The edge hangs up while the server waits for its ready message or sends to it:
\* that, too, ends the server.
HangUp ==
    /\ dpc = "ready" \/ Writing
    /\ Exit("hungup")

-----------------------------------------------------------------------------
Decoder ==
    \/ Lookup \/ LookupRacing \/ Collect
    \/ FetchCached \/ FetchFile \/ FetchPartial \/ FetchMissing
    \/ Send \/ SendNotFound \/ EndGroup \/ ProcessRecipeTailBatch

\* The uploads go on during the session.  The index is saved, and the server
\* started again, only without it: CTRLC joins the session.
Store ==
    /\ \/ \E c \in Chunk, id \in ContainerID : Uploads!Store(c, id)
       \/ \E id \in ContainerID : Uploads!Open(id) \/ Uploads!Seal(id)
       \/ dpc = "off" /\ (Uploads!Discard \/ Uploads!Save \/ Uploads!Crash \/ Uploads!Restart)
    /\ UNCHANGED sessionVars

Next ==
    \/ Store
    \/ Login \/ Ready \/ RecvBatch \/ Close \/ HangUp
    \/ Decoder

Spec == Init /\ [][Next]_vars

\* The session thread goes on as long as it waits for nobody.
FairSpec == Spec /\ WF_vars(Decoder /\ ~ Writing)

\* The edge reads what it is sent, or hangs up.
EdgeReads == WF_vars((Decoder \/ HangUp) /\ Writing)

-----------------------------------------------------------------------------
\* The type invariant: in particular a group never needs more containers than
\* containerArray has.
TypeOK ==
    /\ CacheTypeOK
    /\ dpc \in {"off", "ready", "recv", "lookup", "collect", "fetch", "send", "tail",
                "end", "exit", "hungup"}
    /\ entries \in Seq(Chunk) /\ names \in Seq(ContainerID \union {None})
    /\ ids \in Seq(ContainerID \union {None}) /\ Len(ids) <= CONTAINER_CAPPING_VALUE
    /\ start \in Nat /\ end \in Nat /\ fetched \in Nat
    /\ containerArray \in [Array -> ContainerID \union {None}]
    /\ out \in Seq(Chunk \union {None}) /\ sent \in Seq(Chunk \union {None})
    /\ asked \in {"nothing", "known", "durable"}

\* The session asked for nothing but chunks in complete files, and no lookup of it met
\* an insertion.
Undisturbed == asked = "durable" /\ races = 0

\* RestoredInOrder: if every chunk the edge asked for was in a complete file and no
\* lookup met an insertion, it gets exactly those chunks, in the order asked for,
\* across groups, messages, cache evictions and files that are written meanwhile.  It
\* takes all requests of the session: one that met an incomplete file leaves it in the
\* cache.  Such a request does not end the server.  When CLOUD_SEND_CHUNK_END goes
\* out, for any request and also after a lookup that met an insertion, an answer to
\* every entry went out before it and none is left over for the next one.
RestoredInOrder ==
    /\ Undisturbed => dpc # "exit" /\ IsPrefix(sent \o out, entries)
    /\ dpc = "tail" => Len(sent) = Len(entries) /\ out = << >>

\* BatchAnswered: a request of an edge that reads its answer is answered to the end,
\* unless the edge hangs up, or the server ends over a request for what is in no
\* complete file or over a lookup that met an insertion.
BatchAnswered ==
    EdgeReads =>
        (dpc = "lookup" ~> (dpc \in {"recv", "hungup"} \/ (dpc = "exit" /\ ~ Undisturbed)))

\* KnownRestorable: a request for chunks that are all in the index (which is what
\* an upload that has ended leaves behind) does not end the server.
KnownRestorable == asked \in {"known", "durable"} => dpc # "exit"
=============================================================================
