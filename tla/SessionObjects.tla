--------------------------- MODULE SessionObjects ---------------------------
(***************************************************************************)
(* The objects behind a connection, from the constructors of main to the   *)
(* deletes of CTRLC: what a session allocates when its login arrives, what *)
(* its threads work on, and what it gives back after it has joined them.   *)
(*                                                                         *)
(* Every session works on the objects of ServerOptThread, which there is   *)
(* one of, and on a ClientVar of its own.  An upload has two threads, and  *)
(* the one that has the connection is not the last to end.                 *)
(***************************************************************************)
EXTENDS Connection

VARIABLES
    heap,   \* the objects that are allocated
    writer  \* the thread of DataWriter

objectVars == <<heap, writer>>
sessionVars == <<allVars, objectVars>>

ObjectsInit == ConnectionInit /\ heap = {} /\ writer = "off"

-----------------------------------------------------------------------------
(* The objects of the process                                              *)

NewCryptoPrimitive == {"cryptoObj", "iv"}
DeleteCryptoPrimitive == NewCryptoPrimitive

\* ServerOptThread and what it makes; the index makes the CryptoPrimitive.
NewServerOptThread ==
    {"serverThreadObj", "dataWriterObj", "storageCoreObj", "absIndexObj", "dataReceiverObj",
     "recipeSenderObj", "recvDecoderObj"} \union NewCryptoPrimitive

DeleteServerOptThread ==
    {"serverThreadObj", "dataWriterObj", "storageCoreObj", "absIndexObj", "dataReceiverObj",
     "recipeSenderObj", "recvDecoderObj"} \union DeleteCryptoPrimitive

\* What the threads keep pointers to.
ReceiverUses == {"dataReceiverObj", "absIndexObj", "cryptoObj", "storageCoreObj",
                 "serverChannelObj", "fp2ChunkDB"}
WriterUses == {"dataWriterObj", "inputMQ", "lockFreeQueue"}
DecoderUses == {"recvDecoderObj", "absIndexObj", "serverChannelObj", "fp2ChunkDB"}
SenderUses == {"recipeSenderObj", "serverChannelObj"}

-----------------------------------------------------------------------------
(* ClientVar                                                               *)

\* The ClientVar itself with its three streams, which its destructor closes.
Members == {"client", "recipe", "secureRecipe", "keyRecipe"}

NewMessageQueue == {"inputMQ", "lockFreeQueue"}
DeleteMessageQueue == NewMessageQueue

NewReadCache == {"containerCache", "readCache", "containerPool"}
DeleteReadCache == NewReadCache

InitUploadBuffer == {"recvChunkBuf", "mdCtx", "cipherCtx"} \union NewMessageQueue
InitDownloadRecipeBuffer == {"sendRecipeBuf"}
InitDownloadChunkBuffer ==
    {"idBuffer", "containerArray", "containers", "sendChunkBuf", "downloadChunkBase"} \union NewReadCache

DestoryUploadBuffer == {"recvChunkBuf", "mdCtx", "cipherCtx"} \union DeleteMessageQueue

\* It closes the streams, and does not free the buffer.
DestoryDownloadRecipeBuffer == {}

\* Fault: the buffers of the array are not freed with it.
DestoryDownloadChunkArray ==
    {"idBuffer", "containerArray", "sendChunkBuf", "downloadChunkBase"} \union DeleteReadCache

DestoryDownloadChunkBuffer ==
    {"idBuffer", "containerArray", "containers", "sendChunkBuf", "downloadChunkBase"} \union DeleteReadCache

\* new ClientVar and the threads of a session.
NewClient ==
    Members \union
    CASE login = "upload" -> InitUploadBuffer \union {"receiverThread", "writerThread"}
      [] login = "recipe" -> InitDownloadRecipeBuffer \union {"senderThread"}
      [] login = "chunk"  -> InitDownloadChunkBuffer \union {"decoderThread"}

\* delete of both.
DeleteClient ==
    Members \union
    CASE login = "upload" -> DestoryUploadBuffer \union {"receiverThread", "writerThread"}
      [] login = "recipe" -> DestoryDownloadRecipeBuffer \union {"senderThread"}
      [] login = "chunk"  -> DestoryDownloadChunkBuffer \union {"decoderThread"}

-----------------------------------------------------------------------------
(* The steps of Connection that allocate and free                          *)

\* main: the database, the channel and ServerOptThread.
Construct ==
    /\ SetUp
    /\ heap' = {"fp2ChunkDB", "serverChannelObj"} \union NewServerOptThread
    /\ UNCHANGED writer

\* ListenSSL returns; ServerOptThread::Run begins with the buffer of the login.
BeginSession ==
    /\ Handshake
    /\ heap' = heap \union {"recvBuf"}
    /\ UNCHANGED writer

\* ReceiveData of the session thread: with the login the ClientVar and the threads.
RecvLogin ==
    /\ sess = "wait"
    /\ ServerReceive \/ ServerOverflows
    /\ IF sess' = "respond" /\ login # "absent"
       THEN heap' = heap \union NewClient /\ writer' = IF login = "upload" THEN "run" ELSE "off"
       ELSE UNCHANGED objectVars

\* ReceiveData of the session thread can return the login.
LoginThere ==
    /\ Receiving /\ sess = "wait"
    /\ \/ rpc = "length" /\ wire # << >> /\ size[1] = 0
       \/ rpc = "body" /\ Rest <= Len(wire)
       \/ rpc = "spin"

\* A recipe file cannot be opened: the constructor of ClientVar ends the server.
OpenFails ==
    /\ LoginThere /\ login \in {"upload", "recipe"}
    /\ Exit
    /\ UNCHANGED <<wire, sendVars, receiveVars, login, sess, worker, ssl, edgeVars, fin, back, lost, uaf,
                   objectVars>>

\* What the worker allocates for a message and does not free: the list of a recipe query,
\* which every other message of an upload may be, and tmpBuf for the first of a download.
Allocated ==
    IF received' = received THEN {{}}
    ELSE CASE login = "upload" -> {{}, {"statusList"}}
           [] login = "recipe" -> {IF Len(received) = 1 THEN {"tmpBuf"} ELSE {}}
           [] login = "chunk"  -> {{}}

\* ReceiveData of the worker.
RecvBatch ==
    /\ sess # "wait"
    /\ ServerReceive \/ ServerOverflows
    /\ \E new \in Allocated : heap' = heap \union new
    /\ UNCHANGED writer

\* DataWriter: the receiver has set the flag and the queue is drained.
WriterEnds ==
    /\ server = "up" /\ writer = "run" /\ worker = "done"
    /\ writer' = "done"
    /\ UNCHANGED <<allVars, heap>>

\* Fault: only the first thread of the list is joined.
JoinedFirst == worker \in {"done", "left"}

Joined == worker \in {"done", "left"} /\ writer # "run"

\* The threads are joined; they, the ClientVar and the buffer of the login are deleted.
FreeSession ==
    /\ Joined
    /\ EndSession
    /\ heap' = heap \ (DeleteClient \union {"recvBuf"})
    /\ UNCHANGED writer

FreeAbsent ==
    /\ EndAbsent
    /\ heap' = heap \ {"recvBuf"}
    /\ UNCHANGED writer

\* CTRLC joins the session, if there is one, and deletes the objects of main.
Close ==
    /\ server \in {"listen", "handshake"} \/ (server = "up" /\ sess = "ended")
    /\ server' = "down" /\ broken' = TRUE
    /\ heap' = heap \ ({"fp2ChunkDB", "serverChannelObj"} \union DeleteServerOptThread)
    /\ UNCHANGED <<wire, sendVars, receiveVars, login, sess, worker, ssl, edgeVars, fin, back,
                   lost, uaf, writer>>

ServerThreads ==
    \/ RecvLogin \/ RecvBatch \/ WriterEnds \/ FreeSession \/ FreeAbsent
    \/ (Worker \/ SessionThread) /\ UNCHANGED objectVars

ObjectsNext ==
    \/ Edge /\ UNCHANGED objectVars
    \/ (SetUpFails \/ Accept \/ HandshakeFails) /\ UNCHANGED objectVars
    \/ Construct \/ BeginSession \/ OpenFails \/ Close
    \/ ServerThreads

\* Both sides go on with a call they are in, and the threads of the server run.
ObjectsSpec ==
    /\ ObjectsInit /\ [][ObjectsNext]_sessionVars
    /\ WF_sessionVars(EdgeSend /\ wpc = "body" /\ UNCHANGED objectVars)
    /\ WF_sessionVars(Finish /\ UNCHANGED objectVars)
    /\ WF_sessionVars(RecvLogin \/ RecvBatch \/ (Worker /\ UNCHANGED objectVars))
    /\ WF_sessionVars(SessionThread /\ UNCHANGED objectVars)
    /\ WF_sessionVars(FreeSession \/ FreeAbsent) /\ WF_sessionVars(WriterEnds)

-----------------------------------------------------------------------------
(* Properties                                                              *)

\* The worker is in its Run.
Working == worker \in {"run", "last"}

\* ObjectsLive: what a running thread works on is allocated.  The session deletes its
\* ClientVar after the slower of its threads, also when the connection breaks at any
\* point, and CTRLC the shared objects after the session.  The state is well typed.
ObjectsLive ==
    /\ ConnectionTypeOK /\ writer \in {"off", "run", "done"}
    /\ server = "up" =>
        /\ sess \in {"wait", "respond", "join"} => {"recvBuf", "serverThreadObj"} \subseteq heap
        /\ Working => Members \subseteq heap
        /\ Working /\ login = "upload" => ReceiverUses \union InitUploadBuffer \subseteq heap
        /\ Working /\ login = "recipe" => SenderUses \union InitDownloadRecipeBuffer \subseteq heap
        /\ Working /\ login = "chunk" => DecoderUses \union InitDownloadChunkBuffer \subseteq heap
        /\ writer = "run" => WriterUses \subseteq heap

\* Leak: what the code never frees.
Leak == {"sendRecipeBuf", "tmpBuf", "statusList"}

\* ObjectsReturned: a session that has ended has given back what it allocated, however it
\* ended, except for the two buffers of a recipe download and the lists of recipe queries;
\* its connection too, unless the edge wrote behind the end of the recipes; and when the
\* server has closed, nothing else is left.
ObjectsReturned ==
    /\ sess = "ended" => heap \ ({"fp2ChunkDB", "serverChannelObj"} \union NewServerOptThread) \subseteq Leak
    /\ server = "down" => heap \subseteq Leak
    /\ sess = "ended" /\ login # "absent" => ssl = "freed" \/ worker = "left"
=============================================================================
