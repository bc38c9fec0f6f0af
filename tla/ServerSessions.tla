--------------------------- MODULE ServerSessions ---------------------------
(***************************************************************************)
(* The threads of the process: main, which accepts connections and is      *)
(* interrupted by ctrl + c, and one session thread per connection, which   *)
(* reads the login, takes the lock of its client and runs the session      *)
(* (ServerOptThread::Run).  What a session does is in UploadPipeline,      *)
(* RestoreSession and RecipeSession.                                       *)
(*                                                                         *)
(* The kernel gives a SIGINT to main unless main is in its handler         *)
(* already; then to some other thread, which runs CTRLC as well.           *)
(***************************************************************************)
EXTENDS Integers, Sequences, SequencesExt

CONSTANTS
    Conn,         \* bound: the connections that are made
    Client,       \* client ids
    None,
    MaxInterrupts \* bound: SIGINTs

ASSUME SessionAssumption == None \notin Conn \union Client /\ MaxInterrupts \in Nat

VARIABLES
    proc,            \* the process: up, joining (in CTRLC), down, or dead
    main,            \* where main stands in its loop
    fresh,           \* the connection main is at
    thList,          \* the session threads CTRLC knows of
    pc,              \* where the thread of a connection stands
    id,              \* client id of its login
    clientLockSetLock, \* holder of the lock of the table, or None
    clientLockIndex, \* the clients that have a lock in the table
    holder,          \* holder of a client's lock, or None
    interrupts,
    unlisted         \* history: ctrl + c came between starting a thread and listing it

mainVars == <<main, fresh, thList>>
lockVars == <<clientLockSetLock, clientLockIndex, holder>>
vars == <<proc, mainVars, pc, id, lockVars, interrupts, unlisted>>

Running == proc \in {"up", "joining"}

Init ==
    /\ proc = "up" /\ main = "accept" /\ fresh = None /\ thList = << >>
    /\ pc = [c \in Conn |-> "idle"] /\ id = [c \in Conn |-> None]
    /\ clientLockSetLock = None /\ clientLockIndex = {}
    /\ holder = [i \in Client |-> None]
    /\ interrupts = 0 /\ unlisted = FALSE

-----------------------------------------------------------------------------
(* main                                                                    *)

\* accept returns a connection.
AcceptEdge(c) ==
    /\ proc = "up" /\ main = "accept" /\ pc[c] = "idle"
    /\ main' = "handshake" /\ fresh' = c
    /\ UNCHANGED <<proc, thList, pc, id, lockVars, interrupts, unlisted>>

\* SSL_accept, on the main thread, then a thread for the connection.
Start ==
    /\ proc = "up" /\ main = "handshake"
    /\ main' = "started"
    /\ pc' = [pc EXCEPT ![fresh] = "login"]
    /\ UNCHANGED <<proc, fresh, thList, id, lockVars, interrupts, unlisted>>

\* The thread is added to thList.
Enlist ==
    /\ proc = "up" /\ main = "started"
    /\ thList' = Append(thList, fresh)
    /\ main' = "accept" /\ fresh' = None
    /\ UNCHANGED <<proc, pc, id, lockVars, interrupts, unlisted>>

ExitProcess ==
    /\ proc' = "dead"
    /\ UNCHANGED <<mainVars, pc, id, lockVars, interrupts, unlisted>>

\* accept or the handshake fails.
ListenFails == proc = "up" /\ main \in {"accept", "handshake"} /\ ExitProcess

-----------------------------------------------------------------------------
(* The thread of connection c                                              *)

\* The login arrives.
LoginArrives(c) ==
    /\ Running /\ pc[c] = "login"
    /\ \E i \in Client : id' = [id EXCEPT ![c] = i]
    /\ pc' = [pc EXCEPT ![c] = "wantset"]
    /\ UNCHANGED <<proc, mainVars, lockVars, interrupts, unlisted>>

\* The connection breaks before the login.
LoginFails(c) == Running /\ pc[c] = "login" /\ ExitProcess

\* Fault: the lock of the table is not taken.
LockSetAlways(c) ==
    /\ Running /\ pc[c] = "wantset"
    /\ clientLockSetLock' = c
    /\ clientLockIndex' = clientLockIndex \union {id[c]}
    /\ pc' = [pc EXCEPT ![c] = "wantclient"]
    /\ UNCHANGED <<proc, mainVars, id, holder, interrupts, unlisted>>

\* clientLockSetLock_; a client without a lock gets one.
LockSet(c) ==
    /\ Running /\ pc[c] = "wantset" /\ clientLockSetLock = None
    /\ clientLockSetLock' = c
    /\ clientLockIndex' = clientLockIndex \union {id[c]}
    /\ pc' = [pc EXCEPT ![c] = "wantclient"]
    /\ UNCHANGED <<proc, mainVars, id, holder, interrupts, unlisted>>

\* Fault: the lock in the table is used without taking it.
FreeAlways(c) == TRUE

Free(c) == holder[id[c]] = None

\* Fault: the lock of the table is kept.
LockClientKeepsTable(c) ==
    /\ Running /\ pc[c] = "wantclient" /\ Free(c)
    /\ holder' = [holder EXCEPT ![id[c]] = c]
    /\ pc' = [pc EXCEPT ![c] = "session"]
    /\ UNCHANGED <<proc, mainVars, id, clientLockSetLock, clientLockIndex, interrupts, unlisted>>

\* The lock of the client, with the lock of the table still held.
LockClient(c) ==
    /\ Running /\ pc[c] = "wantclient" /\ Free(c)
    /\ holder' = [holder EXCEPT ![id[c]] = c]
    /\ clientLockSetLock' = None
    /\ pc' = [pc EXCEPT ![c] = "session"]
    /\ UNCHANGED <<proc, mainVars, id, clientLockIndex, interrupts, unlisted>>

\* A wrong login type, or a session in which the edge breaks the protocol or hangs up
\* where that ends the server.
SessionFails(c) == Running /\ pc[c] = "session" /\ ExitProcess

\* The session is over, the lock is released and the thread returns.
SessionEnds(c) ==
    /\ Running /\ pc[c] = "session"
    /\ pc' = [pc EXCEPT ![c] = "ended"]
    /\ holder' = [holder EXCEPT ![id[c]] = None]
    /\ UNCHANGED <<proc, mainVars, id, clientLockSetLock, clientLockIndex, interrupts, unlisted>>

-----------------------------------------------------------------------------
(* ctrl + c                                                                *)

\* The first SIGINT: main stops where it is and runs CTRLC.
Interrupt ==
    /\ proc = "up" /\ interrupts < MaxInterrupts
    /\ proc' = "joining"
    /\ interrupts' = interrupts + 1
    /\ unlisted' = (main = "started")
    /\ UNCHANGED <<mainVars, pc, id, lockVars>>

Alive(c) == pc[c] \in {"login", "wantset", "wantclient", "session"}

\* A further one: thread c leaves what it is doing and runs CTRLC.
InterruptAgain(c) ==
    /\ proc = "joining" /\ interrupts < MaxInterrupts /\ Alive(c)
    /\ interrupts' = interrupts + 1
    /\ pc' = [pc EXCEPT ![c] = "handler"]
    /\ UNCHANGED <<proc, mainVars, id, lockVars, unlisted>>

\* A further one, in a thread that session c has started: it joins the threads of thList,
\* among them the one that joins it.
InterruptWorker(c) ==
    /\ proc = "joining" /\ interrupts < MaxInterrupts /\ pc[c] = "session"
    /\ interrupts' = interrupts + 1
    /\ pc' = [pc EXCEPT ![c] = "stuck"]
    /\ UNCHANGED <<proc, mainVars, id, lockVars, unlisted>>

ThreadsJoined(n) == \A i \in 1 .. n : pc[thList[i]] = "ended"

\* The handler of thread c joins the threads before it and then itself, which throws:
\* the process is terminated.
JoinItself(c) ==
    /\ proc = "joining" /\ pc[c] = "handler"
    /\ \E i \in DOMAIN thList : thList[i] = c /\ ThreadsJoined(i - 1)
    /\ ExitProcess

\* It is not in thList: it joins all the others and deletes what main deletes too.
CloseUnlisted(c) ==
    /\ proc = "joining" /\ pc[c] = "handler" /\ c \notin ToSet(thList)
    /\ ThreadsJoined(Len(thList))
    /\ ExitProcess

\* Fault: the last thread is not joined.
JoinAllButLast == ThreadsJoined(Len(thList) - 1)

JoinAll == ThreadsJoined(Len(thList))

\* main has joined all threads; the locks, the index and the channel are deleted.
CTRLC ==
    /\ proc = "joining" /\ JoinAll
    /\ proc' = "down"
    /\ UNCHANGED <<mainVars, pc, id, lockVars, interrupts, unlisted>>

Thread(c) == LockSet(c) \/ LockClient(c) \/ JoinItself(c) \/ CloseUnlisted(c)
EdgeStep(c) == LoginArrives(c) \/ LoginFails(c) \/ SessionFails(c) \/ SessionEnds(c)

Next ==
    \/ \E c \in Conn : AcceptEdge(c) \/ Thread(c) \/ EdgeStep(c) \/ InterruptAgain(c) \/ InterruptWorker(c)
    \/ Start \/ Enlist \/ ListenFails \/ Interrupt \/ CTRLC

Spec == Init /\ [][Next]_vars

\* The threads and the handler go on; nothing is assumed of edges and of ctrl + c.
FairSpec ==
    /\ Spec /\ WF_vars(CTRLC)
    /\ \A c \in Conn : WF_vars(LockSet(c)) /\ WF_vars(LockClient(c))
                       /\ WF_vars(JoinItself(c)) /\ WF_vars(CloseUnlisted(c))

-----------------------------------------------------------------------------
(* Properties                                                              *)

\* Types; a thread past the login has a client id; the table lock is held by the thread that waits for a client's lock.
TypeOK ==
    /\ proc \in {"up", "joining", "down", "dead"}
    /\ main \in {"accept", "handshake", "started"}
    /\ fresh \in Conn \union {None} /\ (fresh = None <=> main = "accept")
    /\ thList \in Seq(Conn)
    /\ pc \in [Conn -> {"idle", "login", "wantset", "wantclient", "session", "handler", "stuck", "ended"}]
    /\ id \in [Conn -> Client \union {None}]
    /\ \A c \in Conn : pc[c] \in {"wantset", "wantclient", "session", "stuck"} => id[c] \in Client
    /\ clientLockSetLock \in Conn \union {None}
    /\ \A c \in Conn : pc[c] = "wantclient" => clientLockSetLock = c
    /\ clientLockIndex \subseteq Client
    /\ holder \in [Client -> Conn \union {None}]
    /\ interrupts \in 0 .. MaxInterrupts /\ unlisted \in BOOLEAN

\* Two connections of one client are never in a session at the same time
\* (serverOptThread.cc: "ensure exist only one client with the same client ID"), also
\* while the server is closing.
OneSessionPerClient ==
    \A c, d \in Conn : {pc[c], pc[d]} \subseteq {"session", "stuck"} /\ id[c] = id[d] => c = d

\* When CTRLC deletes the locks and saves the index, no session thread is running and no
\* lock is held, unless ctrl + c hit main between starting a thread and adding it to
\* thList: that thread is not joined and works on deleted objects.
CleanShutdown ==
    proc = "down" /\ ~ unlisted =>
        /\ \A c \in Conn : pc[c] \in {"idle", "ended"}
        /\ clientLockSetLock = None /\ \A i \in Client : holder[i] = None

\* The edges send their login and end their sessions.
EdgesLeave == \A c \in Conn : pc[c] \in {"login", "session"} ~> (pc[c] \notin {"login", "session"} \/ ~ Running)

\* ctrl + c is pressed at most once.
OneInterrupt == [](interrupts <= 1)

\* WaitsEnd: no wait is for ever when the edges leave and ctrl + c comes at most once.  A
\* connection that has sent its login is served, although the thread that waits for a
\* client holds the lock of the table meanwhile; and ctrl + c stops the server, since
\* CTRLC waits for no thread that waits for it, also with connections queued for the
\* table's lock.
WaitsEnd ==
    EdgesLeave /\ OneInterrupt =>
        /\ \A c \in Conn : pc[c] = "wantset" ~> (pc[c] \in {"session", "handler"} \/ ~ Running)
        /\ proc = "joining" ~> ~ Running
=============================================================================
