----------------------------- MODULE Connection -----------------------------
(***************************************************************************)
(* The life of one connection between an edge and the server: connect and  *)
(* accept, the handshake, the messages of Channel from the edge to the     *)
(* server, the login response, and the closing on both sides.              *)
(*                                                                         *)
(* On the server two threads use the SSL object of a connection.  The      *)
(* session thread reads the login, starts the worker (DataReceiver,        *)
(* RecvDecoder or RecipeSender) and only then sends the response; the      *)
(* worker reads on, and frees the object when the edge has closed.  Of     *)
(* what the server writes there are the response, the end of the recipes   *)
(* and close_notify; the batches between them are left out.                *)
(***************************************************************************)
EXTENDS Channel

CONSTANT Login   \* the logins an edge sends, "absent": of recipes that are not there

ASSUME LoginAssumption == Login \subseteq {"upload", "chunk", "recipe", "absent"}

VARIABLES
    login,  \* what the edge logs in for
    edge,   \* the edge: ConnectSSL, in the connection, Finish, the end
    server, \* the server: set up, ListenSSL, in the connection, exited or closed
    sess,   \* the session thread
    worker, \* the thread it has started: in its loop, in the last read of RecipeSender
            \* ("last"), returned with the connection freed ("done") or not ("left")
    ssl,    \* the SSL object and the socket of the server's side
    fin,    \* close_notify of the edge, behind what it has written
    back,   \* what the server has written and the edge not read
    heard,  \* what the edge has read of it
    lost,   \* history: the network or the edge's process broke the connection
    uaf     \* history: a thread used an object that was freed or never made

serverVars == <<server, sess, worker, ssl>>
edgeVars == <<edge, heard>>
connectionVars == <<login, serverVars, edgeVars, fin, back, lost, uaf>>
allVars == <<channelVars, connectionVars>>

ConnectionInit ==
    /\ ChannelInit
    /\ login \in Login
    /\ edge = "start" /\ server = "setup" /\ sess = "wait" /\ worker = "off"
    /\ ssl = "none" /\ fin = FALSE /\ back = << >> /\ heard = {}
    /\ lost = FALSE /\ uaf = FALSE

\* exit(EXIT_FAILURE) on the server.
Exit == server' = "exit" /\ broken' = TRUE

-----------------------------------------------------------------------------
(* SSLConnection, ConnectSSL and ListenSSL                                 *)

\* The constructor of the server: socket, bind, listen, the certificate and the key.
SetUp ==
    /\ server = "setup"
    /\ server' = "listen"
    /\ UNCHANGED <<channelVars, login, sess, worker, ssl, edgeVars, fin, back, lost, uaf>>

\* One of its calls fails.
SetUpFails ==
    /\ server = "setup"
    /\ Exit
    /\ UNCHANGED <<wire, sendVars, receiveVars, login, sess, worker, ssl, edgeVars, fin, back, lost, uaf>>

Connect ==
    /\ edge = "start" /\ server = "listen"
    /\ edge' = "handshake"
    /\ UNCHANGED <<channelVars, login, serverVars, heard, fin, back, lost, uaf>>

\* accept, SSL_new and SSL_set_fd.
Accept ==
    /\ server = "listen" /\ edge = "handshake"
    /\ server' = "handshake" /\ ssl' = "live"
    /\ UNCHANGED <<channelVars, login, sess, worker, edgeVars, fin, back, lost, uaf>>

\* SSL_connect meets SSL_accept, which main waits for before it listens again.
Handshake ==
    /\ server = "handshake" /\ edge = "handshake" /\ ~ broken
    /\ server' = "up" /\ edge' = "open"
    /\ UNCHANGED <<channelVars, login, sess, worker, ssl, heard, fin, back, lost, uaf>>

\* A handshake that fails ends the server.
HandshakeFails ==
    /\ server = "handshake" /\ broken
    /\ Exit
    /\ edge' = "failed"
    /\ UNCHANGED <<wire, sendVars, receiveVars, login, sess, worker, ssl, heard, fin, back, lost, uaf>>

-----------------------------------------------------------------------------
(* The edge                                                                *)

EdgeSend ==
    /\ edge = "open"
    /\ Send
    /\ UNCHANGED connectionVars

\* The edge reads the login response, or the end of the recipes.
Hear ==
    /\ edge = "open" /\ back # << >> /\ Head(back) # "notify"
    /\ heard' = heard \union {Head(back)} /\ back' = Tail(back)
    /\ UNCHANGED <<channelVars, login, edge, serverVars, fin, lost, uaf>>

\* Finish: the first SSL_shutdown, which sends close_notify.  On a broken connection
\* it fails and the edge exits.
Shutdown ==
    /\ edge = "open" /\ wpc = "idle"
    /\ edge' = IF broken THEN "failed" ELSE "closing"
    /\ fin' = ~ broken
    /\ UNCHANGED <<channelVars, login, serverVars, heard, back, lost, uaf>>

\* Finish: SSL_read and the second SSL_shutdown.  It is 1 only if the next thing from the
\* server is its close_notify.
Finish ==
    /\ edge = "closing" /\ (back # << >> \/ broken \/ ssl = "freed")
    /\ edge' = IF back # << >> /\ Head(back) = "notify" THEN "closed" ELSE "failed"
    /\ UNCHANGED <<channelVars, login, serverVars, heard, fin, back, lost, uaf>>

\* The network fails, or the process of the edge ends.
Lose ==
    /\ edge \notin {"start", "closed", "failed"} /\ ~ lost
    /\ Break
    /\ lost' = TRUE /\ fin' = FALSE
    /\ \E n \in 0 .. Len(back) : back' = SubSeq(back, 1, n)
    /\ UNCHANGED <<login, serverVars, edgeVars, uaf>>

-----------------------------------------------------------------------------
(* The server                                                              *)

\* The thread that is in ReceiveData: the session thread until the login is there, then
\* the worker.
Receiving == server = "up" /\ (sess = "wait" \/ worker \in {"run", "last"})

\* With the login the worker is started, if there is one.
Started == sess' = "respond" /\ worker' = IF login = "absent" THEN "done" ELSE "run"

\* A message behind the end of the recipes: RecipeSender returns, and frees nothing.
RecipeDone == worker' = "left" /\ sess' = sess

\* What the message that was read, if one was, starts or ends.
ReadMessage ==
    \/ received' # received /\ sess = "wait" /\ Started
    \/ received' # received /\ worker = "last" /\ RecipeDone
    \/ (received' = received \/ worker = "run") /\ UNCHANGED <<sess, worker>>

ServerReceive ==
    /\ Receiving
    /\ Receive
    /\ ReadMessage
    /\ UNCHANGED <<server, ssl, login, edgeVars, fin, back, lost, uaf>>

\* The endless loop of ReceiveData may come to an end, see ReceiveOverflows.
ServerOverflows ==
    /\ Receiving
    /\ ReceiveOverflows
    /\ ReadMessage
    /\ UNCHANGED <<server, ssl, login, edgeVars, fin, back, lost, uaf>>

\* ReceiveData meets close_notify: SSL_shutdown sends the server's, and false is returned.
ReceiveClosed ==
    /\ Receiving /\ rpc = "length" /\ wire = << >> /\ fin
    /\ rpc' = "false"
    /\ back' = Append(back, "notify")
    /\ UNCHANGED <<wire, broken, sendVars, len, data, received, login, serverVars, edgeVars, fin,
                   lost, uaf>>

ReceiveLost ==
    /\ Receiving
    /\ ReceiveLengthFails
    /\ UNCHANGED connectionVars

\* SSL_shutdown was called on the server's side.
Notified == rpc = "false" /\ fin

\* Where a worker takes false for the end of the connection: DataReceiver anywhere,
\* RecvDecoder behind its first message, RecipeSender behind the end of the recipes.
MayClose ==
    \/ worker = "run" /\ login = "upload"
    \/ worker = "run" /\ login = "chunk" /\ Len(received) > 1
    \/ worker = "last"

\* Fault: the workers return without ClearAcceptedClientSd.
ClearForgotten ==
    /\ server = "up" /\ rpc = "false" /\ MayClose
    /\ worker' = "done"
    /\ UNCHANGED <<channelVars, login, server, sess, ssl, edgeVars, fin, back, lost, uaf>>

\* Fault: the final message of the edge ends the receiver.
ClearAtFinal ==
    /\ server = "up" /\ worker = "run" /\ login \in {"upload", "chunk"} /\ Len(received) > 1
    /\ ssl' = "freed" /\ worker' = "done"
    /\ UNCHANGED <<channelVars, login, server, sess, edgeVars, fin, back, lost, uaf>>

\* There it calls GetClientIp and ClearAcceptedClientSd, which frees the object and closes
\* the socket.
ClearAcceptedClientSd ==
    /\ server = "up" /\ rpc = "false" /\ MayClose
    /\ ssl' = "freed" /\ worker' = "done"
    /\ UNCHANGED <<channelVars, login, server, sess, edgeVars, fin, back, lost, uaf>>

\* false where a message must come: the login, the first one of RecvDecoder, the answers
\* that RecipeSender waits for.
ReceiveRequired ==
    /\ Receiving /\ rpc = "false" /\ ~ MayClose
    /\ Exit
    /\ UNCHANGED <<wire, sendVars, receiveVars, login, sess, worker, ssl, edgeVars, fin, back, lost, uaf>>

\* RecipeSender between two reads, behind its first message.
Sending == server = "up" /\ worker = "run" /\ login = "recipe" /\ rpc = "length" /\ Len(received) > 1

\* It has sent its recipes and read as many answers: it sends the end of them.
RecipeEnd ==
    /\ Sending /\ ~ broken
    /\ back' = Append(back, "end")
    /\ worker' = "last"
    /\ UNCHANGED <<channelVars, login, server, sess, ssl, edgeVars, fin, lost, uaf>>

\* A batch or the end cannot be written.
RecipeSendFails ==
    /\ Sending /\ broken
    /\ Exit
    /\ UNCHANGED <<wire, sendVars, receiveVars, login, sess, worker, ssl, edgeVars, fin, back, lost, uaf>>

\* The session thread sends the login response.
Respond ==
    /\ server = "up" /\ sess = "respond" /\ ssl = "live" /\ ~ broken /\ ~ Notified
    /\ back' = Append(back, "response")
    /\ sess' = "join"
    /\ UNCHANGED <<channelVars, login, server, worker, ssl, edgeVars, fin, lost, uaf>>

\* SSL_write fails on a broken connection, and after the worker's SSL_shutdown.
RespondFails ==
    /\ server = "up" /\ sess = "respond" /\ ssl = "live" /\ (broken \/ Notified)
    /\ Exit
    /\ UNCHANGED <<wire, sendVars, receiveVars, login, sess, worker, ssl, edgeVars, fin, back, lost, uaf>>

\* The worker has freed the object: undefined.  The server goes on, or ends.
RespondFreed ==
    /\ server = "up" /\ sess = "respond" /\ ssl = "freed"
    /\ uaf' = TRUE
    /\ \/ sess' = "join" /\ UNCHANGED <<server, broken>>
       \/ Exit /\ UNCHANGED sess
    /\ UNCHANGED <<wire, sendVars, receiveVars, login, worker, ssl, edgeVars, fin, back, lost>>

\* The worker is joined.
EndSession ==
    /\ server = "up" /\ sess = "join" /\ worker \in {"done", "left"} /\ login # "absent"
    /\ sess' = "ended"
    /\ UNCHANGED <<channelVars, login, server, worker, ssl, edgeVars, fin, back, lost, uaf>>

\* Without the recipes there is no ClientVar, and delete is called on a pointer that was
\* never set: undefined, as above.
EndAbsent ==
    /\ server = "up" /\ sess = "join" /\ login = "absent"
    /\ uaf' = TRUE
    /\ \/ sess' = "ended" /\ UNCHANGED <<server, broken>>
       \/ Exit /\ UNCHANGED sess
    /\ UNCHANGED <<wire, sendVars, receiveVars, login, worker, ssl, edgeVars, fin, back, lost>>

Edge == Connect \/ EdgeSend \/ Hear \/ Shutdown \/ Finish \/ Lose
Worker ==
    \/ ReceiveClosed \/ ReceiveLost \/ ReceiveRequired \/ ClearAcceptedClientSd
    \/ RecipeEnd \/ RecipeSendFails
SessionThread == Respond \/ RespondFails \/ RespondFreed

-----------------------------------------------------------------------------
(* Properties                                                              *)

\* What an edge waits for before it closes.
Awaited == {"response"} \union IF login = "recipe" THEN {"end"} ELSE {}

\* An edge that closes before it has read that.
Hasty == fin /\ ~ (Awaited \subseteq heard)

\* PatientEdge: as long as an edge reads the response to its login, and of recipes the end,
\* before it closes, and the connection holds, no session works on an object that was freed
\* or never made, and no upload or download of recipes that has begun ends the server.
\* Finish of such an edge ends well, wherever the server's threads stand when it begins,
\* unless the server stops with the connection open.  The exception to the first and the
\* last is a login for recipes that are not there.
PatientEdge ==
    ~ lost /\ ~ Hasty =>
        /\ uaf => login = "absent"
        /\ login \in {"upload", "recipe"} /\ worker # "off" => server # "exit"
        /\ edge = "failed" /\ login # "absent" => server = "exit" \/ (server = "down" /\ ssl = "live")

\* Released: the connection of an edge that has closed is freed, its session ended and its
\* lock free, unless the connection breaks or the server has exited.  The session also ends
\* of an edge that writes behind the end of the recipes, but its connection stays.
Released ==
    fin /\ login # "absent" ~>
        \/ sess = "ended" /\ (ssl = "freed" \/ worker = "left")
        \/ server = "exit" \/ lost

\* Types of this module and of Channel.
ConnectionTypeOK ==
    /\ ChannelTypeOK
    /\ edge \in {"start", "handshake", "open", "closing", "closed", "failed"}
    /\ server \in {"setup", "listen", "handshake", "up", "exit", "down"}
    /\ sess \in {"wait", "respond", "join", "ended"} /\ worker \in {"off", "run", "last", "done", "left"}
    /\ ssl \in {"none", "live", "freed"} /\ (ssl = "freed" => worker = "done")
    /\ fin \in BOOLEAN /\ heard \subseteq {"response", "end"} /\ lost \in BOOLEAN /\ uaf \in BOOLEAN
    /\ Len(back) <= 3 /\ back \in Seq({"response", "end", "notify"})
=============================================================================
