--------------------------- MODULE SessionProofs ---------------------------
(***************************************************************************)
(* Connections and sessions: the framing of messages, the order of the     *)
(* threads of a session at the end of a connection and the life of its     *)
(* objects (SessionObjects), for any lengths and number of messages; and   *)
(* the locks of the clients and the end of the server (ServerSessions),    *)
(* for any number of connections, clients and interrupts.                  *)
(***************************************************************************)
EXTENDS SessionObjects, ServerSessions, SequenceTheorems, TLAPS

-----------------------------------------------------------------------------
(* The stream                                                              *)

Item == (1 .. MaxMsgs) \X Nat

\* The item that follows a on the stream of messages of the lengths sz.
After(sz, a) == IF a[2] < sz[a[1]] THEN <<a[1], a[2] + 1>> ELSE <<a[1] + 1, 0>>

\* The first d bytes of message n.
Bytes(n, d) == [i \in 1 .. d |-> <<n, i>>]

\* The item ReceiveData waits for, and the one SendData writes next.
Expected == IF rpc \in {"body", "spin"} THEN <<Len(received) + 1, Len(data) + 1>>
            ELSE <<Len(received) + 1, 0>>
Upcoming == IF wpc = "body" THEN <<Len(size), 1>> ELSE <<Len(size) + 1, 0>>

ChannelTypes ==
    /\ broken \in BOOLEAN /\ wpc \in {"idle", "body", "spin"}
    /\ size \in Seq(Lengths) /\ Len(size) <= MaxMsgs
    /\ sent \in Seq(BOOLEAN) /\ Len(sent) = Len(size) - (IF wpc = "idle" THEN 0 ELSE 1)
    /\ rpc \in {"length", "body", "spin", "false"} /\ wire \in Seq(Item)
    /\ len \in Nat /\ data \in Seq(Item) /\ received \in Seq(Seq(Item))

\* Every item of w is one of a message that was sent.
Items(w, sz) ==
    \A j \in 1 .. Len(w) : w[j][1] \in 1 .. Len(sz) /\ w[j][2] \in 0 .. sz[w[j][1]]

\* There is no gap between two of them.
Adjacent(w, sz) == \A j \in 1 .. Len(w) : j < Len(w) => w[j + 1] = After(sz, w[j])

\* Two items are of one message, as far apart as their numbers are, or the rest of the
\* first one's message lies between them.
Apart(w, sz) ==
    \A j, k \in 1 .. Len(w) : j < k =>
        \/ w[k][1] = w[j][1] /\ w[k][2] = w[j][2] + (k - j)
        \/ w[k][1] > w[j][1] /\ k - j > sz[w[j][1]] - w[j][2]

\* w is a stretch of the stream.
Stretch(w, sz) == Items(w, sz) /\ Adjacent(w, sz) /\ Apart(w, sz)

\* It begins with the item that is waited for, and ends before the one to be written, as
\* long as the connection holds.
WireEnds ==
    /\ wire # << >> => wire[1] = Expected
    /\ ~ broken => Upcoming = IF wire = << >> THEN Expected ELSE After(size, wire[Len(wire)])
    /\ wpc = "body" => Len(size) >= 1 /\ size[Len(size)] >= 1

\* The body that is being read; a body that cannot be completed is the last.
BodyInv ==
    /\ Len(received) <= Len(size)
    /\ rpc \in {"length", "false"} => data = << >> /\ len = 0
    /\ rpc \in {"body", "spin"} =>
          /\ Len(received) < Len(size) /\ len = size[Len(received) + 1]
          /\ Len(data) < len /\ data = Bytes(Len(received) + 1, Len(data))
    /\ rpc = "spin" => broken /\ wire = << >>

\* A message that was received whole, and one that was cut short.
Whole(n) == received[n] = Bytes(n, size[n])
Cut(n) ==
    /\ broken /\ wire = << >> /\ rpc \in {"length", "false"} /\ n = Len(received)
    /\ \E d \in 0 .. size[n] : received[n] = Bytes(n, d)

ReceivedInv == \A n \in 1 .. Len(received) : Whole(n) \/ Cut(n)

StreamInv == ChannelTypes /\ Stretch(wire, size) /\ WireEnds /\ BodyInv /\ ReceivedInv

-----------------------------------------------------------------------------
(* The connection                                                          *)

\* What an edge reads, and what else the server writes.
Told == {"response", "end"}
Written == Told \union {"notify"}

\* x is on its way to the edge.
Has(b, x) == \E i \in 1 .. Len(b) : b[i] = x

\* Nothing is written twice, and nothing behind the close_notify.
Once(b) == \A i, j \in 1 .. Len(b) : b[i] = b[j] => i = j
NotifyLast(b) == \A i \in 1 .. Len(b) : b[i] = "notify" => i = Len(b)

ConnectionTypes ==
    /\ login \in Login
    /\ edge \in {"start", "handshake", "open", "closing", "closed", "failed"}
    /\ server \in {"setup", "listen", "handshake", "up", "exit", "down"}
    /\ sess \in {"wait", "respond", "join", "ended"}
    /\ worker \in {"off", "run", "last", "done", "left"}
    /\ ssl \in {"none", "live", "freed"}
    /\ fin \in BOOLEAN /\ heard \subseteq Told /\ lost \in BOOLEAN /\ uaf \in BOOLEAN
    /\ back \in Seq(Written)

\* The server's threads: the worker is there with the login, and one that has returned has
\* freed the connection, unless it is a RecipeSender that has read one message more.
ThreadInv ==
    /\ sess = "wait" <=> worker = "off"
    /\ server \in {"setup", "listen", "handshake"} => sess = "wait"
    /\ server = "down" => sess \in {"wait", "ended"}
    /\ server \in {"handshake", "up"} => ssl # "none"
    /\ sess # "wait" => ssl # "none"
    /\ login = "absent" => worker \in {"off", "done"}
    /\ worker \in {"last", "left"} => login = "recipe"
    /\ sess = "ended" => worker \in {"done", "left"}
    /\ ssl = "freed" => worker = "done" /\ rpc = "false"
    /\ worker = "done" /\ login # "absent" => ssl = "freed"

\* What is on its way to the edge, and what it has read.
BackInv ==
    /\ Once(back) /\ NotifyLast(back)
    /\ \A x \in heard : ~ Has(back, x)
    /\ Has(back, "response") \/ "response" \in heard => sess \in {"join", "ended"}
    /\ Has(back, "end") \/ "end" \in heard => login = "recipe" /\ worker \in {"last", "done", "left"}
    /\ Has(back, "notify") => rpc = "false"
    /\ rpc = "false" => lost \/ (fin /\ Has(back, "notify"))

\* What the edge has done.
EdgeInv ==
    /\ edge \in {"start", "handshake"} \/ server \in {"up", "exit"} \/ (server = "down" /\ sess = "ended")
    /\ lost => broken
    /\ broken => lost \/ server \in {"exit", "down"}
    /\ fin => edge \in {"closing", "closed", "failed"}
    /\ edge \in {"closing", "closed"} => lost \/ fin
    /\ rpc = "false" => fin \/ broken

\* The three parts of PatientEdge, each with what excuses it.
PatientInv ==
    /\ uaf => login = "absent" \/ lost \/ Hasty
    /\ login \in {"upload", "recipe"} /\ worker # "off" /\ server = "exit" => lost \/ Hasty
    /\ edge = "failed" /\ login # "absent" =>
          server = "exit" \/ (server = "down" /\ ssl = "live") \/ lost \/ Hasty

-----------------------------------------------------------------------------
(* The objects                                                             *)

Base == {"fp2ChunkDB", "serverChannelObj"} \union NewServerOptThread

\* A session with a ClientVar.
HasClient == sess \in {"respond", "join"} /\ login # "absent"

HeapInv ==
    /\ writer \in {"off", "run", "done"}
    /\ writer = "run" => login = "upload" /\ sess \in {"respond", "join"}
    /\ server \in {"listen", "handshake", "up"} => Base \subseteq heap
    /\ server = "up" /\ sess # "ended" => "recvBuf" \in heap
    /\ server = "up" /\ HasClient => NewClient \subseteq heap
    /\ heap \subseteq Base \union Leak \union {"recvBuf"} \union (IF HasClient THEN NewClient ELSE {})
    /\ sess = "ended" \/ server \in {"setup", "listen", "handshake", "down"} => "recvBuf" \notin heap
    /\ server = "down" => heap \subseteq Leak
    /\ server = "down" => sess \in {"wait", "ended"}

-----------------------------------------------------------------------------
(* What the server has written                                             *)

\* One more of what was not there.
LEMMA BackAppend ==
    ASSUME NEW b \in Seq(Written), NEW x \in Written, ~ Has(b, x), Once(b), ~ Has(b, "notify")
    PROVE  /\ Append(b, x) \in Seq(Written) /\ Once(Append(b, x)) /\ NotifyLast(Append(b, x))
           /\ \A y : Has(Append(b, x), y) <=> Has(b, y) \/ y = x
<1> DEFINE c == Append(b, x)
<1>1. /\ Len(b) \in Nat /\ Len(c) = Len(b) + 1 /\ c \in Seq(Written)
      /\ (\A i \in 1 .. Len(b) : c[i] = b[i]) /\ c[Len(b) + 1] = x
  BY AppendProperties
<1> HIDE DEF c
<1>2. \A i \in 1 .. Len(c) : i \in 1 .. Len(b) \/ i = Len(b) + 1 BY <1>1
<1>3. \A i \in 1 .. Len(b) : c[i] = b[i] /\ c[i] # x BY <1>1 DEF Has
<1>4. Once(c)
  <2> SUFFICES ASSUME NEW i \in 1 .. Len(c), NEW j \in 1 .. Len(c), c[i] = c[j] PROVE i = j
    BY DEF Once
  <2>1. CASE i \in 1 .. Len(b) /\ j \in 1 .. Len(b) BY <1>1, <2>1 DEF Once
  <2>2. CASE i = Len(b) + 1 \/ j = Len(b) + 1 BY <1>1, <1>2, <1>3, <2>2
  <2> QED BY <1>2, <2>1, <2>2
<1>5. NotifyLast(c)
  <2> SUFFICES ASSUME NEW i \in 1 .. Len(c), c[i] = "notify" PROVE i = Len(c) BY DEF NotifyLast
  <2>1. i \notin 1 .. Len(b) BY <1>1 DEF Has
  <2> QED BY <1>1, <1>2, <2>1
<1>6. ASSUME NEW y PROVE Has(c, y) <=> Has(b, y) \/ y = x
  <2>1. ASSUME Has(c, y) PROVE Has(b, y) \/ y = x BY <1>1, <1>2, <2>1 DEF Has
  <2>2. ASSUME Has(b, y) \/ y = x PROVE Has(c, y)
    <3>1. CASE Has(b, y)
      <4>1. PICK i \in 1 .. Len(b) : b[i] = y BY <3>1 DEF Has
      <4>2. i \in 1 .. Len(c) /\ c[i] = y BY <1>1, <4>1
      <4> QED BY <4>2 DEF Has
    <3>2. CASE y = x
      <4>1. Len(b) + 1 \in 1 .. Len(c) /\ c[Len(b) + 1] = y BY <1>1, <3>2
      <4> QED BY <4>1 DEF Has
    <3> QED BY <2>2, <3>1, <3>2
  <2> QED BY <2>1, <2>2
<1> QED BY <1>1, <1>4, <1>5, <1>6 DEF c

\* The edge reads the first of it.
LEMMA BackTail ==
    ASSUME NEW b \in Seq(Written), b # << >>, Once(b), NotifyLast(b)
    PROVE  /\ Tail(b) \in Seq(Written) /\ Once(Tail(b)) /\ NotifyLast(Tail(b))
           /\ Head(b) \in Written /\ Has(b, Head(b)) /\ ~ Has(Tail(b), Head(b))
           /\ \A y : Has(Tail(b), y) => Has(b, y)
           /\ \A y : Has(b, y) => Has(Tail(b), y) \/ y = Head(b)
<1> DEFINE c == Tail(b)
<1>1. /\ Len(b) \in Nat /\ Len(b) >= 1 /\ Len(c) = Len(b) - 1 /\ c \in Seq(Written)
      /\ (\A i \in 1 .. Len(c) : c[i] = b[i + 1]) /\ Head(b) = b[1] /\ 1 \in 1 .. Len(b)
      /\ Head(b) \in Written
  OBVIOUS
<1> HIDE DEF c
<1>2. \A i \in 1 .. Len(c) : i + 1 \in 1 .. Len(b) /\ i + 1 # 1 BY <1>1
<1>3. Once(c)
  <2> SUFFICES ASSUME NEW i \in 1 .. Len(c), NEW j \in 1 .. Len(c), c[i] = c[j] PROVE i = j
    BY DEF Once
  <2>1. b[i + 1] = b[j + 1] BY <1>1
  <2>2. i + 1 = j + 1 BY <1>2, <2>1 DEF Once
  <2> QED BY <2>2
<1>4. NotifyLast(c)
  <2> SUFFICES ASSUME NEW i \in 1 .. Len(c), c[i] = "notify" PROVE i = Len(c) BY DEF NotifyLast
  <2>1. b[i + 1] = "notify" /\ i + 1 \in 1 .. Len(b) BY <1>1, <1>2
  <2>2. i + 1 = Len(b) BY <2>1 DEF NotifyLast
  <2> QED BY <1>1, <2>2
<1>5. Has(b, Head(b)) BY <1>1 DEF Has
<1>6. ASSUME Has(c, Head(b)) PROVE FALSE
  <2>1. PICK i \in 1 .. Len(c) : c[i] = Head(b) BY <1>6 DEF Has
  <2>2. b[i + 1] = b[1] /\ i + 1 \in 1 .. Len(b) /\ i + 1 # 1 BY <1>1, <1>2, <2>1
  <2> QED BY <1>1, <2>2 DEF Once
<1>7. ASSUME NEW y, Has(c, y) PROVE Has(b, y)
  <2>1. PICK i \in 1 .. Len(c) : c[i] = y BY <1>7 DEF Has
  <2>2. b[i + 1] = y /\ i + 1 \in 1 .. Len(b) BY <1>1, <1>2, <2>1
  <2> QED BY <2>2 DEF Has
<1>8. ASSUME NEW y, Has(b, y) PROVE Has(c, y) \/ y = Head(b)
  <2>1. PICK i \in 1 .. Len(b) : b[i] = y BY <1>8 DEF Has
  <2>2. CASE i = 1 BY <1>1, <2>1, <2>2
  <2>3. CASE i # 1
    <3>1. i - 1 \in 1 .. Len(c) /\ (i - 1) + 1 = i BY <1>1, <2>3
    <3>2. c[i - 1] = y BY <1>1, <2>1, <3>1
    <3> QED BY <3>1, <3>2 DEF Has
  <2> QED BY <2>2, <2>3
<1> QED BY <1>1, <1>3, <1>4, <1>5, <1>6, <1>7, <1>8 DEF c

\* The rest of it is lost.
LEMMA BackPiece ==
    ASSUME NEW b \in Seq(Written), NEW n \in 0 .. Len(b), Once(b), NotifyLast(b)
    PROVE  /\ SubSeq(b, 1, n) \in Seq(Written) /\ Once(SubSeq(b, 1, n)) /\ NotifyLast(SubSeq(b, 1, n))
           /\ \A y : Has(SubSeq(b, 1, n), y) => Has(b, y)
<1> DEFINE c == SubSeq(b, 1, n)
<1>1. /\ Len(b) \in Nat /\ n \in Nat /\ n <= Len(b) /\ Len(c) = n /\ c \in Seq(Written)
      /\ \A i \in 1 .. n : c[i] = b[i] /\ i \in 1 .. Len(b)
  OBVIOUS
<1> HIDE DEF c
<1>2. Once(c) BY <1>1 DEF Once
<1>3. NotifyLast(c)
  <2> SUFFICES ASSUME NEW i \in 1 .. Len(c), c[i] = "notify" PROVE i = Len(c) BY DEF NotifyLast
  <2>1. i = Len(b) BY <1>1 DEF NotifyLast
  <2> QED BY <1>1, <2>1
<1>4. ASSUME NEW y, Has(c, y) PROVE Has(b, y) BY <1>1, <1>4 DEF Has
<1> QED BY <1>1, <1>2, <1>3, <1>4 DEF c

\* There are three things it can be.
LEMMA BackShort == ASSUME NEW b \in Seq(Written), Once(b) PROVE Len(b) <= 3
<1>1. Len(b) \in Nat /\ \A i \in 1 .. Len(b) : b[i] \in Written OBVIOUS
<1> SUFFICES ASSUME Len(b) > 3 PROVE FALSE BY <1>1
<1>2. 1 \in 1 .. Len(b) /\ 2 \in 1 .. Len(b) /\ 3 \in 1 .. Len(b) /\ 4 \in 1 .. Len(b) BY <1>1
<1>3. /\ b[1] # b[2] /\ b[1] # b[3] /\ b[1] # b[4] /\ b[2] # b[3] /\ b[2] # b[4] /\ b[3] # b[4]
  BY <1>2 DEF Once
<1>4. b[1] \in Written /\ b[2] \in Written /\ b[3] \in Written /\ b[4] \in Written BY <1>1, <1>2
<1> QED BY <1>3, <1>4 DEF Written, Told

-----------------------------------------------------------------------------
(* The order of the threads                                                *)

ConnectionInv == ConnectionTypes /\ ThreadInv /\ BackInv /\ EdgeInv /\ PatientInv

\* ReceiveData that goes on or returns a message neither ends the reading nor finds it ended.
LEMMA ReceiveGoesOn ==
    ASSUME Receive \/ ReceiveOverflows
    PROVE  /\ rpc # "false" /\ rpc' # "false" /\ broken' = broken
<1>1. CASE ReceiveLength BY <1>1 DEF ReceiveLength, ReceiveReturns
<1>2. CASE ReceiveBody BY <1>2 DEF ReceiveBody, ReceiveReturns
<1>3. CASE ReceiveBodyFails BY <1>3 DEF ReceiveBodyFails
<1>4. CASE ReceiveOverflows BY <1>4 DEF ReceiveOverflows, ReceiveReturns
<1> QED BY <1>1, <1>2, <1>3, <1>4 DEF Receive

\* SendData changes neither the reader nor the connection.
LEMMA SendFacts == ASSUME Send PROVE rpc' = rpc /\ broken' = broken
  BY DEF Send, SendLength, SendLengthFails, SendBody, SendBodyFails, SendBodySpins, receiveVars

\* A session that has not its login yet: a message starts the worker, if there is one.  A
\* message behind the end of the recipes lets RecipeSender return.
LEMMA ReceiveKeeps ==
    ASSUME ConnectionInv, Receiving, Receive \/ ReceiveOverflows, ReadMessage,
           UNCHANGED <<server, ssl, login, edgeVars, fin, back, lost, uaf>>
    PROVE  ConnectionInv'
<1> USE DEF ConnectionTypes, edgeVars
<1>1. rpc # "false" /\ rpc' # "false" /\ broken' = broken BY ReceiveGoesOn
<1>2. \/ UNCHANGED <<sess, worker>>
      \/ /\ sess = "wait" /\ sess' = "respond"
         /\ worker' = IF login = "absent" THEN "done" ELSE "run"
      \/ sess' = sess /\ worker = "last" /\ worker' = "left"
  BY DEF ReadMessage, Started, RecipeDone
<1>3. ssl # "freed" BY <1>1 DEF ConnectionInv, ThreadInv
<1>4. ConnectionTypes' BY <1>2 DEF ConnectionInv
<1>5. ThreadInv' BY <1>1, <1>2, <1>3 DEF ConnectionInv, ThreadInv, Receiving
<1>6. BackInv' BY <1>1, <1>2 DEF ConnectionInv, BackInv, ThreadInv, Receiving
<1>7. EdgeInv' BY <1>1, <1>2 DEF ConnectionInv, EdgeInv, ThreadInv, Receiving
<1>8. PatientInv' BY <1>1, <1>2, <1>3 DEF ConnectionInv, PatientInv, Hasty, Awaited, Receiving
<1> QED BY <1>4, <1>5, <1>6, <1>7, <1>8 DEF ConnectionInv

\* Every step keeps the connection in order.
LEMMA ConnectionStep ==
    ASSUME ConnectionInv, [ObjectsNext]_sessionVars PROVE ConnectionInv'
<1> USE DEF ConnectionInv, ConnectionTypes, ThreadInv, BackInv, EdgeInv, PatientInv, Hasty, Awaited, Exit,
            Receiving, channelVars, sendVars, receiveVars, serverVars, edgeVars, connectionVars
<1>0. "response" \in Written /\ "end" \in Written /\ "notify" \in Written /\ "notify" \notin Told
      /\ Told = {"response", "end"}
  BY DEF Written, Told
<1>1. CASE EdgeSend
  <2>1. rpc' = rpc /\ broken' = broken BY <1>1, SendFacts DEF EdgeSend
  <2> QED BY <1>1, <2>1 DEF EdgeSend
<1>2. CASE Lose
  <2>1. PICK n \in 0 .. Len(back) : back' = SubSeq(back, 1, n) BY <1>2 DEF Lose
  <2>2. broken' = TRUE /\ rpc' = rpc BY <1>2 DEF Lose, Break
  <2>3. /\ back' \in Seq(Written) /\ Once(back') /\ NotifyLast(back')
        /\ \A y : Has(back', y) => Has(back, y)
    BY <2>1, BackPiece
  <2>4. /\ lost' = TRUE /\ fin' = FALSE /\ UNCHANGED <<login, server, sess, worker, ssl, edge, heard, uaf>>
        /\ edge \notin {"start", "closed", "failed"}
    BY <1>2 DEF Lose
  <2>5. ConnectionTypes' BY <2>3, <2>4
  <2>6. ThreadInv' BY <2>2, <2>4
  <2>7. BackInv' BY <2>2, <2>3, <2>4
  <2>8. EdgeInv' BY <2>2, <2>4
  <2>9. PatientInv' BY <2>4
  <2> QED BY <2>5, <2>6, <2>7, <2>8, <2>9
<1>3. CASE (ServerReceive \/ ServerOverflows)
  BY <1>3, ReceiveKeeps DEF ServerReceive, ServerOverflows
<1>4. CASE SetUp
  BY <1>4 DEF SetUp
<1>5. CASE SetUpFails
  BY <1>5 DEF SetUpFails
<1>6. CASE Connect
  BY <1>6 DEF Connect
<1>7. CASE Accept
  BY <1>7 DEF Accept
<1>8. CASE Handshake
  BY <1>8 DEF Handshake
<1>9. CASE HandshakeFails
  BY <1>9 DEF HandshakeFails
<1>10. CASE Hear
  <2>1. /\ edge = "open" /\ back # << >> /\ Head(back) # "notify"
        /\ heard' = heard \union {Head(back)} /\ back' = Tail(back)
        /\ UNCHANGED <<rpc, broken, login, edge, server, sess, worker, ssl, fin, lost, uaf>>
    BY <1>10 DEF Hear
  <2>2. /\ back' \in Seq(Written) /\ Once(back') /\ NotifyLast(back')
        /\ Head(back) \in Written /\ Has(back, Head(back)) /\ ~ Has(back', Head(back))
        /\ \A y : Has(back', y) => Has(back, y)
        /\ \A y : Has(back, y) => Has(back', y) \/ y = Head(back)
    BY <2>1, BackTail
  <2>3. Head(back) \in Told BY <2>1, <2>2 DEF Written
  <2>4. ConnectionTypes' BY <2>1, <2>2, <2>3
  <2>5. ThreadInv' BY <2>1
  <2>6. ~ fin BY <2>1
  <2>7. BackInv' BY <2>1, <2>2
  <2>8. EdgeInv' BY <2>1
  <2>9. PatientInv' BY <2>1, <2>6
  <2> QED BY <2>4, <2>5, <2>7, <2>8, <2>9
<1>11. CASE Shutdown
  <2>1. /\ edge = "open" /\ edge' = IF broken THEN "failed" ELSE "closing"
        /\ fin' = ~ broken
        /\ UNCHANGED <<rpc, broken, login, heard, server, sess, worker, ssl, back, lost, uaf>>
    BY <1>11 DEF Shutdown
  <2>2. ~ fin /\ ~ Hasty BY <2>1
  <2>3. CASE broken
    <3>1. edge' = "failed" /\ fin' = FALSE BY <2>1, <2>3
    <3>2. rpc = "false" => lost BY <2>2
    <3>3. ConnectionTypes' /\ ThreadInv' /\ BackInv' BY <2>1, <3>1, <3>2
    <3>4. EdgeInv' BY <2>1, <2>3, <3>1
    <3>5. ~ lost => server = "exit" \/ (server = "down" /\ sess = "ended") BY <2>1, <2>3
    <3>6. sess = "ended" /\ ~ lost => ssl = "live" BY <3>2
    <3>7. PatientInv' BY <2>1, <2>2, <3>1, <3>5, <3>6
    <3> QED BY <3>3, <3>4, <3>7
  <2>4. CASE ~ broken
    <3>1. edge' = "closing" /\ fin' = TRUE BY <2>1, <2>4
    <3>2. rpc # "false" /\ ~ lost BY <2>2, <2>4
    <3>3. ConnectionTypes' /\ ThreadInv' /\ BackInv' BY <2>1, <3>1, <3>2
    <3>4. EdgeInv' BY <2>1, <2>4, <3>1, <3>2
    <3>5. PatientInv' BY <2>1, <2>2, <3>1, <3>2
    <3> QED BY <3>3, <3>4, <3>5
  <2> QED BY <2>3, <2>4
<1>12. CASE Finish
  <2>1. /\ edge = "closing" /\ (back # << >> \/ broken \/ ssl = "freed")
        /\ edge' = IF back # << >> /\ Head(back) = "notify" THEN "closed" ELSE "failed"
        /\ UNCHANGED <<rpc, broken, login, heard, server, sess, worker, ssl, fin, back, lost, uaf>>
    BY <1>12 DEF Finish
  <2>2. ConnectionTypes' /\ ThreadInv' /\ BackInv' BY <2>1
  <2>3. EdgeInv' BY <2>1
  <2>4. ASSUME edge' = "failed", login # "absent", server # "exit", ~ (server = "down" /\ ssl = "live"), ~ lost,
               ~ Hasty
        PROVE  FALSE
    <3>1. fin /\ "response" \in heard /\ (login = "recipe" => "end" \in heard) BY <2>1, <2>4
    <3>2. broken => server = "down" /\ sess = "ended" /\ ssl = "freed" BY <2>1, <2>4
    <3>3. ssl = "freed" => Has(back, "notify") BY <2>4
    <3>4. back # << >> BY <2>1, <3>2, <3>3 DEF Has
    <3>5. Head(back) \in Written /\ Has(back, Head(back)) BY <3>4, BackTail
    <3>6. Head(back) # "response" BY <3>1, <3>5
    <3>7. Head(back) # "end" BY <3>1, <3>5
    <3>8. Head(back) = "notify" BY <3>5, <3>6, <3>7 DEF Written, Told
    <3> QED BY <2>1, <2>4, <3>4, <3>8
  <2>5. PatientInv' BY <2>1, <2>4
  <2> QED BY <2>2, <2>3, <2>5
<1>13. CASE ReceiveClosed
  <2>1. /\ server = "up" /\ rpc = "length" /\ fin /\ rpc' = "false" /\ back' = Append(back, "notify")
        /\ UNCHANGED <<broken, login, edge, heard, server, sess, worker, ssl, fin, lost, uaf>>
    BY <1>13 DEF ReceiveClosed
  <2>2. ~ Has(back, "notify") BY <2>1
  <2>3. /\ back' \in Seq(Written) /\ Once(back') /\ NotifyLast(back')
        /\ \A y : Has(back', y) <=> Has(back, y) \/ y = "notify"
    BY <1>0, <2>1, <2>2, BackAppend
  <2>4. ConnectionTypes' /\ ThreadInv' BY <2>1, <2>3
  <2>5. BackInv' BY <1>0, <2>1, <2>3
  <2>6. EdgeInv' /\ PatientInv' BY <2>1
  <2> QED BY <2>4, <2>5, <2>6
<1>14. CASE ReceiveLost
  BY <1>14 DEF ReceiveLost, ReceiveLengthFails
<1>15. CASE ClearAcceptedClientSd
  BY <1>15 DEF ClearAcceptedClientSd, MayClose
<1>16. CASE ReceiveRequired
  <2>1. /\ server = "up" /\ rpc = "false" /\ server' = "exit" /\ broken' = TRUE
        /\ UNCHANGED <<rpc, login, edge, heard, sess, worker, ssl, fin, back, lost, uaf>>
        /\ ~ MayClose /\ (sess = "wait" \/ worker \in {"run", "last"})
    BY <1>16 DEF ReceiveRequired
  <2>2. ConnectionTypes' /\ ThreadInv' /\ BackInv' /\ EdgeInv' BY <2>1
  <2>3. login \in {"upload", "recipe"} /\ worker # "off" => login = "recipe" /\ worker = "run"
    BY <2>1 DEF MayClose
  <2>4. login = "recipe" /\ worker = "run" => lost \/ Hasty BY <2>1
  <2>5. PatientInv' BY <2>1, <2>3, <2>4
  <2> QED BY <2>2, <2>5
<1>17. CASE RecipeEnd
  <2>1. /\ server = "up" /\ worker = "run" /\ login = "recipe" /\ rpc = "length"
        /\ back' = Append(back, "end") /\ worker' = "last"
        /\ UNCHANGED <<rpc, broken, login, edge, heard, server, sess, ssl, fin, lost, uaf>>
    BY <1>17 DEF RecipeEnd, Sending
  <2>2. ~ Has(back, "end") /\ ~ Has(back, "notify") /\ "end" \notin heard BY <2>1
  <2>3. /\ back' \in Seq(Written) /\ Once(back') /\ NotifyLast(back')
        /\ \A y : Has(back', y) <=> Has(back, y) \/ y = "end"
    BY <1>0, <2>1, <2>2, BackAppend
  <2>4. ConnectionTypes' /\ ThreadInv' BY <2>1, <2>3
  <2>5. BackInv' BY <1>0, <2>1, <2>2, <2>3
  <2>6. EdgeInv' /\ PatientInv' BY <2>1
  <2> QED BY <2>4, <2>5, <2>6
<1>18. CASE Respond
  <2>1. /\ server = "up" /\ sess = "respond" /\ ~ broken /\ ~ (rpc = "false" /\ fin)
        /\ back' = Append(back, "response") /\ sess' = "join"
        /\ UNCHANGED <<rpc, broken, login, edge, heard, server, worker, ssl, fin, lost, uaf>>
    BY <1>18 DEF Respond, Notified
  <2>2. ~ Has(back, "response") /\ ~ Has(back, "notify") /\ "response" \notin heard BY <2>1
  <2>3. /\ back' \in Seq(Written) /\ Once(back') /\ NotifyLast(back')
        /\ \A y : Has(back', y) <=> Has(back, y) \/ y = "response"
    BY <1>0, <2>1, <2>2, BackAppend
  <2>4. ConnectionTypes' /\ ThreadInv' BY <2>1, <2>3
  <2>5. BackInv' BY <1>0, <2>1, <2>2, <2>3
  <2>6. EdgeInv' /\ PatientInv' BY <2>1
  <2> QED BY <2>4, <2>5, <2>6
<1>19. CASE RespondFails
  BY <1>19 DEF RespondFails, Notified
<1>20. CASE RespondFreed
  BY <1>20 DEF RespondFreed
<1>21. CASE EndSession
  BY <1>21 DEF EndSession
<1>22. CASE EndAbsent
  BY <1>22 DEF EndAbsent
<1>23. CASE Close
  BY <1>23 DEF Close
<1>24. CASE OpenFails
  BY <1>24 DEF OpenFails, LoginThere
<1>25. CASE RecipeSendFails
  BY <1>25 DEF RecipeSendFails, Sending
<1>26. CASE UNCHANGED allVars
  BY <1>26 DEF allVars
<1> QED
  BY <1>1, <1>2, <1>3, <1>4, <1>5, <1>6, <1>7, <1>8, <1>9, <1>10, <1>11, <1>12, <1>13, <1>14, <1>15, <1>16, <1>17, <1>18, <1>19, <1>20, <1>21, <1>22, <1>23, <1>24, <1>25, <1>26
     DEF ObjectsNext, Edge, Construct, BeginSession, ServerThreads, RecvLogin, RecvBatch, WriterEnds,
         FreeSession, FreeAbsent, Worker, SessionThread, sessionVars

-----------------------------------------------------------------------------
(* The objects                                                             *)

\* What a session allocates it frees, but for the send buffer of a recipe download, and it
\* frees nothing of the process.
LEMMA ClientFacts ==
    ASSUME login \in {"upload", "chunk", "recipe"}
    PROVE  /\ NewClient \ DeleteClient \subseteq Leak
           /\ Base \intersect DeleteClient = {} /\ "recvBuf" \notin Base
           /\ Members \subseteq NewClient
           /\ login = "upload" => InitUploadBuffer \subseteq NewClient
           /\ login = "recipe" => InitDownloadRecipeBuffer \subseteq NewClient
           /\ login = "chunk" => InitDownloadChunkBuffer \subseteq NewClient
<1> USE DEF Base, NewServerOptThread, NewCryptoPrimitive, Members, Leak
<1>1. CASE login = "upload"
  <2>1. NewClient = Members \union InitUploadBuffer \union {"receiverThread", "writerThread"}
    BY <1>1 DEF NewClient
  <2>2. DeleteClient = Members \union DestoryUploadBuffer \union {"receiverThread", "writerThread"}
    BY <1>1 DEF DeleteClient
  <2> QED BY <1>1, <2>1, <2>2 DEF InitUploadBuffer, DestoryUploadBuffer, NewMessageQueue, DeleteMessageQueue
<1>2. CASE login = "recipe"
  <2>1. NewClient = Members \union InitDownloadRecipeBuffer \union {"senderThread"}
    BY <1>2 DEF NewClient
  <2>2. DeleteClient = Members \union DestoryDownloadRecipeBuffer \union {"senderThread"}
    BY <1>2 DEF DeleteClient
  <2> QED BY <1>2, <2>1, <2>2 DEF InitDownloadRecipeBuffer, DestoryDownloadRecipeBuffer
<1>3. CASE login = "chunk"
  <2>1. NewClient = Members \union InitDownloadChunkBuffer \union {"decoderThread"}
    BY <1>3 DEF NewClient
  <2>2. DeleteClient = Members \union DestoryDownloadChunkBuffer \union {"decoderThread"}
    BY <1>3 DEF DeleteClient
  <2> QED BY <1>3, <2>1, <2>2 DEF InitDownloadChunkBuffer, DestoryDownloadChunkBuffer, NewReadCache, DeleteReadCache
<1> QED BY <1>1, <1>2, <1>3

\* The logins that the server knows.
LEMMA Logins == login \in Login => login \in {"upload", "chunk", "recipe", "absent"}
  BY LoginAssumption

\* The objects of a session depend on its login only.
LEMMA SameClient == login' = login => NewClient' = NewClient
  BY DEF NewClient

\* What the worker allocates for a message is not freed.
LEMMA ObjectsAllocated ==
    ASSUME login \in {"upload", "chunk", "recipe"}, NEW new \in Allocated PROVE new \subseteq Leak
<1>1. {} \subseteq Leak /\ {"statusList"} \subseteq Leak /\ {"tmpBuf"} \subseteq Leak BY DEF Leak
<1>2. CASE login = "upload"
  <2>1. new \in {{}, {"statusList"}} BY <1>2 DEF Allocated
  <2> QED BY <1>1, <2>1
<1>3. CASE login = "recipe"
  <2>1. new \in {{}, {"tmpBuf"}} BY <1>3 DEF Allocated
  <2> QED BY <1>1, <2>1
<1>4. CASE login = "chunk"
  <2>1. new = {} BY <1>4 DEF Allocated
  <2> QED BY <1>1, <2>1
<1> QED BY <1>2, <1>3, <1>4

\* Steps that neither allocate nor free.
LEMMA HeapSame ==
    ASSUME HeapInv, UNCHANGED <<login, heap, writer>>,
           sess' = sess \/ (sess = "respond" /\ sess' = "join"),
           server' = server \/ server' = "exit" \/ (server = "listen" /\ server' = "handshake")
    PROVE  HeapInv'
<1>1. NewClient' = NewClient BY SameClient
<1>2. HasClient' <=> HasClient BY DEF HasClient
<1> QED BY <1>1, <1>2 DEF HeapInv

\* Every step keeps the heap as it should be.
LEMMA HeapStep ==
    ASSUME ConnectionInv, HeapInv, [ObjectsNext]_sessionVars PROVE HeapInv'
<1> USE DEF ConnectionInv, ConnectionTypes, channelVars, sendVars, receiveVars, serverVars, edgeVars,
            connectionVars, allVars, objectVars
<1>1. CASE Edge /\ UNCHANGED objectVars
  <2>1. UNCHANGED <<login, sess, server>>
    BY <1>1 DEF Edge, Connect, EdgeSend, Hear, Shutdown, Finish, Lose
  <2> QED BY <1>1, <2>1, HeapSame
<1>2. CASE (SetUpFails \/ Accept \/ HandshakeFails) /\ UNCHANGED objectVars
  <2>1. /\ UNCHANGED <<login, sess>>
        /\ server' = "exit" \/ (server = "listen" /\ server' = "handshake")
    BY <1>2 DEF SetUpFails, Accept, HandshakeFails, Exit
  <2> QED BY <1>2, <2>1, HeapSame
<1>3. CASE Construct
  <2>1. heap' = Base /\ UNCHANGED <<writer, login, sess>> /\ server' = "listen" /\ sess = "wait"
    BY <1>3 DEF Construct, SetUp, Base, ThreadInv
  <2>2. "recvBuf" \notin Base BY DEF Base, NewServerOptThread, NewCryptoPrimitive
  <2> QED BY <2>1, <2>2 DEF HeapInv, HasClient
<1>4. CASE BeginSession
  <2>1. /\ heap' = heap \union {"recvBuf"} /\ UNCHANGED <<writer, login, sess>>
        /\ server = "handshake" /\ server' = "up" /\ sess = "wait"
    BY <1>4 DEF BeginSession, Handshake, ThreadInv
  <2> QED BY <2>1 DEF HeapInv, HasClient
<1>5. CASE OpenFails
  BY <1>5, HeapSame DEF OpenFails, LoginThere, Exit
<1>6. CASE Close
  <2>1. /\ heap' = heap \ Base /\ UNCHANGED <<writer, login, sess>> /\ server' = "down"
        /\ server \in {"listen", "handshake"} \/ (server = "up" /\ sess = "ended")
    BY <1>6 DEF Close, Base, DeleteServerOptThread, NewServerOptThread, DeleteCryptoPrimitive
  <2>2. sess \in {"wait", "ended"} /\ "recvBuf" \notin heap BY <2>1 DEF ThreadInv, HeapInv
  <2>3. heap \subseteq Base \union Leak BY <2>2 DEF HeapInv, HasClient
  <2> QED BY <2>1, <2>2, <2>3 DEF HeapInv, HasClient
<1>7. CASE RecvLogin
  <2>1. /\ sess = "wait" /\ server = "up" /\ UNCHANGED <<server, login>>
        /\ sess' = "wait" \/ sess' = "respond"
    BY <1>7 DEF RecvLogin, ServerReceive, ServerOverflows, Receiving, ReadMessage, Started, RecipeDone
  <2>2. NewClient' = NewClient BY <2>1, SameClient
  <2>3. ~ HasClient BY <2>1 DEF HasClient
  <2>4. CASE sess' = "respond" /\ login # "absent"
    <3>1. heap' = heap \union NewClient /\ writer' = IF login = "upload" THEN "run" ELSE "off"
      BY <1>7, <2>4 DEF RecvLogin
    <3>2. HasClient' BY <2>1, <2>4 DEF HasClient
    <3> QED BY <2>1, <2>2, <2>3, <2>4, <3>1, <3>2 DEF HeapInv
  <2>5. CASE ~ (sess' = "respond" /\ login # "absent")
    <3>1. heap' = heap /\ writer' = writer BY <1>7, <2>5 DEF RecvLogin
    <3>2. ~ HasClient' BY <2>1, <2>5 DEF HasClient
    <3> QED BY <2>1, <2>2, <2>3, <3>1, <3>2 DEF HeapInv
  <2> QED BY <2>4, <2>5
<1>8. CASE RecvBatch
  <2>1. /\ sess # "wait" /\ server = "up" /\ UNCHANGED <<server, login, sess, writer>>
        /\ worker \in {"run", "last"}
    BY <1>8 DEF RecvBatch, ServerReceive, ServerOverflows, Receiving, ReadMessage, RecipeDone
  <2>2. NewClient' = NewClient BY <2>1, SameClient
  <2>3. HasClient' <=> HasClient BY <2>1 DEF HasClient
  <2>4. PICK new \in Allocated : heap' = heap \union new BY <1>8 DEF RecvBatch
  <2>5. login \in {"upload", "chunk", "recipe"} BY <2>1, Logins DEF ThreadInv
  <2>6. new \subseteq Leak BY <2>5, ObjectsAllocated
  <2>7. "recvBuf" \notin Leak BY DEF Leak
  <2> QED BY <2>1, <2>2, <2>3, <2>4, <2>6, <2>7 DEF HeapInv
<1>9. CASE WriterEnds
  <2>1. UNCHANGED <<login, sess, server, heap>> /\ writer' = "done" BY <1>9 DEF WriterEnds
  <2>2. NewClient' = NewClient BY <2>1, SameClient
  <2>3. HasClient' <=> HasClient BY <2>1 DEF HasClient
  <2> QED BY <2>1, <2>2, <2>3 DEF HeapInv
<1>10. CASE FreeSession
  <2>1. /\ heap' = heap \ (DeleteClient \union {"recvBuf"}) /\ UNCHANGED <<writer, login, server>>
        /\ sess = "join" /\ sess' = "ended" /\ login # "absent" /\ server = "up" /\ writer # "run"
    BY <1>10 DEF FreeSession, EndSession, Joined
  <2>2. login \in {"upload", "chunk", "recipe"} BY <2>1, Logins
  <2>3. NewClient \ DeleteClient \subseteq Leak /\ Base \intersect DeleteClient = {} /\ "recvBuf" \notin Base
    BY <2>2, ClientFacts
  <2>4. HasClient /\ ~ HasClient' BY <2>1 DEF HasClient
  <2> QED BY <2>1, <2>3, <2>4 DEF HeapInv
<1>11. CASE FreeAbsent
  <2>1. /\ heap' = heap \ {"recvBuf"} /\ UNCHANGED <<writer, login>>
        /\ sess = "join" /\ login = "absent" /\ server = "up"
        /\ (sess' = "ended" /\ server' = "up") \/ (server' = "exit" /\ sess' = sess)
    BY <1>11 DEF FreeAbsent, EndAbsent, Exit
  <2>2. ~ HasClient /\ ~ HasClient' BY <2>1 DEF HasClient
  <2>3. "recvBuf" \notin Base BY DEF Base, NewServerOptThread, NewCryptoPrimitive
  <2> QED BY <2>1, <2>2, <2>3 DEF HeapInv
<1>12. CASE (Worker \/ SessionThread) /\ UNCHANGED objectVars
  <2>1. /\ login' = login /\ (server' = server \/ server' = "exit")
        /\ sess' = sess \/ (sess = "respond" /\ sess' = "join")
    BY <1>12 DEF Worker, SessionThread, ReceiveClosed, ReceiveLost, ClearAcceptedClientSd, RecipeEnd,
       RecipeSendFails, ReceiveRequired, Respond, RespondFails, RespondFreed, Exit
  <2> QED BY <1>12, <2>1, HeapSame
<1>13. CASE UNCHANGED sessionVars
  BY <1>13, HeapSame DEF sessionVars
<1> QED
  BY <1>1, <1>2, <1>3, <1>4, <1>5, <1>6, <1>7, <1>8, <1>9, <1>10, <1>11, <1>12, <1>13
     DEF ObjectsNext, ServerThreads

-----------------------------------------------------------------------------
(* Stretches of the stream                                                 *)

\* A stretch stays one when a message is added.
LEMMA StretchSize ==
    ASSUME NEW sz \in Seq(Nat), NEW w \in Seq(Item), NEW l \in Nat, Stretch(w, sz)
    PROVE  Stretch(w, Append(sz, l))
<1> DEFINE new == Append(sz, l)
<1>1. Len(new) = Len(sz) + 1 /\ \A n \in 1 .. Len(sz) : new[n] = sz[n] BY AppendProperties
<1>2. \A j \in 1 .. Len(w) : w[j][1] \in 1 .. Len(sz) /\ w[j][2] \in 0 .. sz[w[j][1]]
  BY DEF Stretch, Items
<1> HIDE DEF new
<1>3. \A j \in 1 .. Len(w) : w[j][1] \in 1 .. Len(new) /\ new[w[j][1]] = sz[w[j][1]]
  BY <1>1, <1>2
<1>4. Items(w, new) BY <1>2, <1>3 DEF Items
<1>5. Adjacent(w, new) BY <1>3 DEF Stretch, Adjacent, After
<1>6. Apart(w, new) BY <1>3 DEF Stretch, Apart
<1> QED BY <1>4, <1>5, <1>6 DEF Stretch, new

\* A piece of a stretch is one.
LEMMA StretchPiece ==
    ASSUME NEW sz \in Seq(Nat), NEW w \in Seq(Item), Stretch(w, sz),
           NEW a \in 1 .. Len(w) + 1, NEW b \in 0 .. Len(w), a <= b + 1
    PROVE  /\ SubSeq(w, a, b) \in Seq(Item) /\ Len(SubSeq(w, a, b)) = b + 1 - a
           /\ \A j \in 1 .. b + 1 - a : SubSeq(w, a, b)[j] = w[j + a - 1]
           /\ Stretch(SubSeq(w, a, b), sz)
<1> DEFINE p == SubSeq(w, a, b)
           c == a - 1
<1>1. /\ c \in Nat /\ Len(p) = b - c /\ Len(p) \in Nat /\ p \in Seq(Item)
      /\ \A j \in 1 .. Len(p) : p[j] = w[j + c]
  OBVIOUS
<1>2. Len(p) + c = b /\ b <= Len(w) /\ b \in Nat /\ Len(w) \in Nat OBVIOUS
<1> HIDE DEF p, c
<1>3. \A j \in 1 .. Len(p) : j + c \in 1 .. Len(w) BY <1>1, <1>2
<1>4. Items(p, sz) BY <1>1, <1>3 DEF Stretch, Items
<1>5. Adjacent(p, sz)
  <2> SUFFICES ASSUME NEW j \in 1 .. Len(p), j < Len(p) PROVE p[j + 1] = After(sz, p[j])
    BY DEF Adjacent
  <2>1. p[j] = w[j + c] /\ j + 1 \in 1 .. Len(p) BY <1>1
  <2>2. p[j + 1] = w[(j + 1) + c] BY <1>1, <2>1
  <2>3. j + c \in 1 .. Len(w) /\ (j + 1) + c = (j + c) + 1 /\ j + c < Len(w)
    BY <1>1, <1>2, <2>1
  <2> QED BY <2>1, <2>2, <2>3 DEF Stretch, Adjacent
<1>6. Apart(p, sz)
  <2> SUFFICES ASSUME NEW j \in 1 .. Len(p), NEW k \in 1 .. Len(p), j < k
               PROVE  \/ p[k][1] = p[j][1] /\ p[k][2] = p[j][2] + (k - j)
                      \/ p[k][1] > p[j][1] /\ k - j > sz[p[j][1]] - p[j][2]
    BY DEF Apart
  <2>1. p[j] = w[j + c] /\ p[k] = w[k + c] BY <1>1
  <2>2. /\ j + c \in 1 .. Len(w) /\ k + c \in 1 .. Len(w) /\ j + c < k + c
        /\ (k + c) - (j + c) = k - j
    BY <1>1, <1>3
  <2> QED BY <2>1, <2>2, SMTT(30) DEF Stretch, Apart
<1>7. Stretch(p, sz) BY <1>4, <1>5, <1>6 DEF Stretch
<1>8. a \in Int /\ b \in Int /\ b - c = b + 1 - a /\ \A j \in Int : j + c = j + a - 1 BY <1>2 DEF c
<1>9. /\ p \in Seq(Item) /\ Len(p) = b + 1 - a
      /\ \A j \in 1 .. b + 1 - a : p[j] = w[j + a - 1]
  <2>1. p \in Seq(Item) /\ Len(p) = b + 1 - a BY <1>1, <1>8
  <2>2. ASSUME NEW j \in 1 .. Len(p) PROVE p[j] = w[j + a - 1]
    <3>1. j \in Int /\ p[j] = w[j + c] BY <1>1
    <3> QED BY <1>8, <3>1
  <2> QED BY <2>1, <2>2
<1> QED BY <1>7, <1>9 DEF p

\* The length of the next message continues a stretch.
LEMMA StretchLength ==
    ASSUME NEW sz \in Seq(Nat), NEW w \in Seq(Item), Stretch(w, sz),
           NEW n \in 1 .. Len(sz), \A j \in 1 .. Len(w) : w[j][1] < n,
           w # << >> => After(sz, w[Len(w)]) = <<n, 0>>
    PROVE  Stretch(Append(w, <<n, 0>>), sz)
<1> DEFINE W == Len(w)
           v == Append(w, <<n, 0>>)
<1>1. W \in Nat /\ Len(v) = W + 1 /\ (\A j \in 1 .. W : v[j] = w[j]) /\ v[W + 1] = <<n, 0>>
  OBVIOUS
<1>2. \A j \in 1 .. W : /\ w[j][1] \in Nat /\ w[j][2] \in Nat /\ w[j][1] \in 1 .. Len(sz)
                        /\ sz[w[j][1]] \in Nat /\ w[j][2] <= sz[w[j][1]]
  BY SMTT(30) DEF Stretch, Items, Item
<1>3. sz[n] \in Nat OBVIOUS
<1>4. W # 0 => W \in 1 .. W /\ After(sz, w[W]) = <<n, 0>> OBVIOUS
<1> HIDE DEF v, W
<1>5. Items(v, sz)
  <2> SUFFICES ASSUME NEW j \in 1 .. Len(v)
               PROVE  v[j][1] \in 1 .. Len(sz) /\ v[j][2] \in 0 .. sz[v[j][1]]
    BY DEF Items
  <2>1. CASE j \in 1 .. W
    <3>1. v[j] = w[j] BY <1>1, <2>1
    <3>2. w[j][1] \in 1 .. Len(sz) /\ w[j][2] \in 0 .. sz[w[j][1]] BY <2>1 DEF Stretch, Items, W
    <3> QED BY <3>1, <3>2
  <2>2. CASE j = W + 1
    <3>1. v[j][1] = n /\ v[j][2] = 0 BY <1>1, <2>2
    <3> QED BY <1>3, <3>1
  <2> QED BY <1>1, <2>1, <2>2
<1>6. Adjacent(v, sz)
  <2> SUFFICES ASSUME NEW j \in 1 .. Len(v), j < Len(v) PROVE v[j + 1] = After(sz, v[j])
    BY DEF Adjacent
  <2>1. j \in 1 .. W /\ v[j] = w[j] BY <1>1
  <2>2. CASE j < W
    <3>1. v[j + 1] = w[j + 1] BY <1>1, <2>1, <2>2
    <3> QED BY <2>1, <2>2, <3>1 DEF Stretch, Adjacent, W
  <2>3. CASE j = W
    <3>1. v[j + 1] = <<n, 0>> /\ W # 0 BY <1>1, <2>1, <2>3
    <3> QED BY <1>4, <2>1, <2>3, <3>1
  <2> QED BY <1>1, <2>1, <2>2, <2>3
<1>7. Apart(v, sz)
  <2> SUFFICES ASSUME NEW j \in 1 .. Len(v), NEW k \in 1 .. Len(v), j < k
               PROVE  \/ v[k][1] = v[j][1] /\ v[k][2] = v[j][2] + (k - j)
                      \/ v[k][1] > v[j][1] /\ k - j > sz[v[j][1]] - v[j][2]
    BY DEF Apart
  <2>1. j \in 1 .. W /\ v[j] = w[j] BY <1>1
  <2>2. CASE k <= W
    <3>1. k \in 1 .. W /\ v[k] = w[k] BY <1>1, <2>2
    <3> QED BY <2>1, <3>1 DEF Stretch, Apart, W
  <2>3. CASE k = W + 1
    <3>1. v[k] = <<n, 0>> /\ v[k][1] > v[j][1] BY <1>1, <1>2, <2>1, <2>3 DEF W
    <3>2. W \in 1 .. W /\ After(sz, w[W]) = <<n, 0>> BY <1>1, <1>4, <2>1
    <3>3. w[W][2] >= sz[w[W][1]]
      <4>1. w[W][2] \in Nat /\ sz[w[W][1]] \in Nat BY <1>2, <3>2
      <4>2. After(sz, w[W])[2] = 0 BY <3>2
      <4>3. w[W][2] < sz[w[W][1]] => After(sz, w[W])[2] = w[W][2] + 1 BY DEF After
      <4>4. w[W][2] < sz[w[W][1]] => 0 = w[W][2] + 1 BY <4>2, <4>3
      <4>5. \A a, b \in Nat : (a < b => 0 = a + 1) => a >= b OBVIOUS
      <4> QED BY <4>1, <4>4, <4>5
    <3>4. W + 1 - j > sz[w[j][1]] - w[j][2]
      <4>1. CASE j = W
        <5>1. w[j][2] >= sz[w[j][1]] /\ W + 1 - j = 1 BY <1>1, <3>3, <4>1
        <5>2. w[j][2] \in Nat /\ sz[w[j][1]] \in Nat BY <1>2, <2>1
        <5>3. \A a, b \in Nat : a >= b => 1 > b - a OBVIOUS
        <5>4. 1 > sz[w[j][1]] - w[j][2] BY <5>1, <5>2, <5>3
        <5> QED BY <5>1, <5>4
      <4>2. CASE j < W
        <5>1. \/ w[W][1] = w[j][1] /\ w[W][2] = w[j][2] + (W - j)
              \/ W - j > sz[w[j][1]] - w[j][2]
          BY <2>1, <3>2, <4>2 DEF Stretch, Apart, W
        <5>2. w[j][2] \in Nat /\ sz[w[j][1]] \in Nat BY <1>2, <2>1
        <5>3. W \in Nat /\ j \in Nat BY <1>1, <2>1
        <5>4. CASE w[W][1] = w[j][1] /\ w[W][2] = w[j][2] + (W - j)
          <6>1. w[j][2] + (W - j) >= sz[w[j][1]] BY <3>3, <5>4
          <6>2. \A a, b \in Nat : a + (W - j) >= b => W + 1 - j > b - a BY <5>3
          <6> QED BY <5>2, <6>1, <6>2
        <5>5. CASE W - j > sz[w[j][1]] - w[j][2]
          <6>1. \A a, b \in Nat : W - j > b - a => W + 1 - j > b - a BY <5>3
          <6> QED BY <5>2, <5>5, <6>1
        <5> QED BY <5>1, <5>4, <5>5
      <4>3. j = W \/ j < W BY <1>1, <2>1
      <4> QED BY <4>1, <4>2, <4>3
    <3>5. k - j = W + 1 - j BY <1>1, <2>3
    <3>6. k - j > sz[v[j][1]] - v[j][2] BY <2>1, <3>4, <3>5
    <3> QED BY <3>1, <3>6
  <2>4. k <= W \/ k = W + 1
    <3>1. W \in Nat /\ Len(v) = W + 1 BY <1>1
    <3> QED BY <3>1
  <2> QED BY <2>2, <2>3, <2>4
<1> QED BY <1>5, <1>6, <1>7 DEF Stretch, v

\* So does the body of the last message after its length, or on a wire that is empty.
LEMMA StretchBody ==
    ASSUME NEW sz \in Seq(Nat), NEW w \in Seq(Item), Stretch(w, sz),
           NEW n \in 1 .. Len(sz), sz[n] >= 1, w # << >> => w[Len(w)] = <<n, 0>>
    PROVE  Stretch(w \o Bytes(n, sz[n]), sz)
<1> DEFINE W == Len(w)
           S == sz[n]
           v == w \o Bytes(n, S)
<1>1. S \in Nat /\ S >= 1 OBVIOUS
<1>2. /\ Len(Bytes(n, S)) = S /\ Bytes(n, S) \in Seq(Nat \X Nat)
      /\ \A i \in 1 .. S : Bytes(n, S)[i] = <<n, i>>
  <2>1. n \in Nat /\ \A i \in 1 .. S : <<n, i>> \in Nat \X Nat BY <1>1
  <2> HIDE DEF S
  <2> QED BY <1>1, <2>1 DEF Bytes
<1>3. w \in Seq(Nat \X Nat) BY DEF Item
<1>4. /\ W \in Nat /\ Len(v) = W + S /\ (\A j \in 1 .. W : v[j] = w[j])
      /\ \A j \in 1 .. W + S : j > W => v[j] = <<n, j - W>>
  <2> HIDE DEF S
  <2>1. W \in Nat BY <1>3
  <2>2. /\ Len(v) = W + S /\ (\A j \in 1 .. W : v[j] = w[j])
        /\ \A j \in 1 .. W + S : j > W => v[j] = Bytes(n, S)[j - W]
    <3> DEFINE B == Bytes(n, S)
    <3>1. B \in Seq(Nat \X Nat) /\ Len(B) = S /\ v = w \o B BY <1>2
    <3> HIDE DEF B, v
    <3>2. /\ Len(v) = W + S
          /\ \A j \in 1 .. W + S : v[j] = IF j <= W THEN w[j] ELSE B[j - W]
      BY <1>3, <3>1, ConcatProperties
    <3>3. \A j \in 1 .. W : j \in 1 .. W + S /\ j <= W BY <1>1, <2>1
    <3>4. \A j \in 1 .. W + S : j > W => ~ j <= W BY <1>1, <2>1
    <3> QED BY <3>2, <3>3, <3>4 DEF B
  <2>3. \A j \in 1 .. W + S : j > W => j - W \in 1 .. S BY <1>1, <2>1
  <2> QED BY <1>2, <2>1, <2>2, <2>3
<1>5. \A j \in 1 .. W : /\ w[j][1] \in Nat /\ w[j][2] \in Nat /\ w[j][1] \in 1 .. Len(sz)
                        /\ sz[w[j][1]] \in Nat /\ w[j][2] \in 0 .. sz[w[j][1]]
  BY SMTT(30) DEF Stretch, Items, Item
<1>6. W # 0 => W \in 1 .. W /\ w[W] = <<n, 0>> OBVIOUS
<1>7. sz[n] = S OBVIOUS
<1> HIDE DEF v, W, S
<1>8. \A j \in 1 .. Len(v) : j \in 1 .. W \/ (j > W /\ j - W \in 1 .. S /\ j \in 1 .. W + S)
  BY <1>1, <1>4
<1>9. Items(v, sz)
  <2> SUFFICES ASSUME NEW j \in 1 .. Len(v)
               PROVE  v[j][1] \in 1 .. Len(sz) /\ v[j][2] \in 0 .. sz[v[j][1]]
    BY DEF Items
  <2>1. CASE j \in 1 .. W BY <1>4, <1>5, <2>1
  <2>2. CASE j > W /\ j - W \in 1 .. S
    <3>1. v[j] = <<n, j - W>> BY <1>4, <2>2
    <3>2. v[j][1] = n /\ v[j][2] = j - W BY <3>1
    <3>3. j - W \in 0 .. S BY <1>1, <2>2
    <3> QED BY <1>7, <3>2, <3>3
  <2> QED BY <1>8, <2>1, <2>2
<1>10. Adjacent(v, sz)
  <2> SUFFICES ASSUME NEW j \in 1 .. Len(v), j < Len(v) PROVE v[j + 1] = After(sz, v[j])
    BY DEF Adjacent
  <2>1. \A i \in 0 .. S : i < S => After(sz, <<n, i>>) = <<n, i + 1>> BY <1>7 DEF After
  <2>2. CASE j < W
    <3>1. j \in 1 .. W /\ j + 1 \in 1 .. W BY <1>4, <2>2
    <3> QED BY <1>4, <2>2, <3>1 DEF Stretch, Adjacent, W
  <2>3. CASE j = W
    <3>1. W # 0 /\ j + 1 \in 1 .. W + S /\ j + 1 > W /\ (j + 1) - W = 1 BY <1>1, <1>4, <2>3
    <3>2. v[j] = <<n, 0>> BY <1>4, <1>6, <2>3, <3>1
    <3>3. v[j + 1] = <<n, 1>> BY <1>4, <3>1
    <3>4. 0 \in 0 .. S /\ 0 < S /\ 0 + 1 = 1 BY <1>1
    <3>5. After(sz, <<n, 0>>) = <<n, 0 + 1>> BY <2>1, <3>4
    <3> QED BY <3>2, <3>3, <3>4, <3>5
  <2>4. CASE j > W
    <3>1. /\ j \in 1 .. W + S /\ j + 1 \in 1 .. W + S /\ j + 1 > W /\ (j + 1) - W = (j - W) + 1
          /\ j - W \in 0 .. S /\ j - W < S
      BY <1>1, <1>4, <2>4
    <3>2. v[j] = <<n, j - W>> BY <1>4, <2>4, <3>1
    <3>3. v[j + 1] = <<n, (j - W) + 1>> BY <1>4, <3>1
    <3> QED BY <2>1, <3>1, <3>2, <3>3
  <2>5. j < W \/ j = W \/ j > W BY <1>4
  <2> QED BY <2>2, <2>3, <2>4, <2>5
<1>11. Apart(v, sz)
  <2> SUFFICES ASSUME NEW j \in 1 .. Len(v), NEW k \in 1 .. Len(v), j < k
               PROVE  \/ v[k][1] = v[j][1] /\ v[k][2] = v[j][2] + (k - j)
                      \/ v[k][1] > v[j][1] /\ k - j > sz[v[j][1]] - v[j][2]
    BY DEF Apart
  <2>0. j \in Nat /\ k \in Nat BY <1>1, <1>4
  <2>1. CASE k \in 1 .. W
    <3>1. j \in 1 .. W BY <1>4, <2>0, <2>1
    <3>2. v[j] = w[j] /\ v[k] = w[k] BY <1>4, <2>1, <3>1
    <3>3. \/ w[k][1] = w[j][1] /\ w[k][2] = w[j][2] + (k - j)
          \/ w[k][1] > w[j][1] /\ k - j > sz[w[j][1]] - w[j][2]
      BY <2>1, <3>1 DEF Stretch, Apart, W
    <3> QED BY <3>2, <3>3
  <2>2. CASE j > W /\ k > W
    <3>1. v[j] = <<n, j - W>> /\ v[k] = <<n, k - W>> BY <1>4, <2>2
    <3>2. v[k][1] = v[j][1] /\ v[k][2] = k - W /\ v[j][2] = j - W BY <3>1
    <3>3. k - W = (j - W) + (k - j) BY <1>4, <2>0
    <3> QED BY <3>2, <3>3
  <2>3. CASE j \in 1 .. W /\ k > W
    <3>1. v[k] = <<n, k - W>> BY <1>4, <2>3
    <3>2. v[k][1] = n /\ v[k][2] = k - W BY <3>1
    <3>3. W # 0 /\ v[j] = w[j] BY <1>4, <2>3
    <3>4. w[W][1] = n /\ w[W][2] = 0 /\ W \in 1 .. W BY <1>6, <3>3
    <3>5. CASE j = W
      <4>1. k - W = 0 + (k - j) BY <1>4, <2>0, <3>5
      <4>2. v[j][1] = n /\ v[j][2] = 0 BY <3>3, <3>4, <3>5
      <4> QED BY <3>2, <4>1, <4>2
    <3>6. CASE j < W
      <4>1. \/ w[W][1] = w[j][1] /\ w[W][2] = w[j][2] + (W - j)
            \/ w[W][1] > w[j][1] /\ W - j > sz[w[j][1]] - w[j][2]
        BY <2>3, <3>4, <3>6 DEF Stretch, Apart, W
      <4>2. w[j][2] \in Nat /\ sz[w[j][1]] \in Nat BY <1>5, <2>3
      <4>3. \A a \in Nat : 0 # a + (W - j) BY <1>4, <2>0, <3>6
      <4>4. n > w[j][1] /\ W - j > sz[w[j][1]] - w[j][2] BY <3>4, <4>1, <4>2, <4>3
      <4>5. \A a, b \in Nat : W - j > b - a => k - j > b - a BY <1>4, <2>0, <2>3
      <4>6. k - j > sz[w[j][1]] - w[j][2] BY <4>2, <4>4, <4>5
      <4> QED BY <3>2, <3>3, <4>4, <4>6
    <3>7. j = W \/ j < W BY <1>4, <2>3
    <3> QED BY <3>5, <3>6, <3>7
  <2>4. (k \in 1 .. W) \/ (j > W /\ k > W) \/ (j \in 1 .. W /\ k > W) BY <1>8
  <2> QED BY <2>1, <2>2, <2>3, <2>4
<1> QED BY <1>9, <1>10, <1>11 DEF Stretch, v, S

-----------------------------------------------------------------------------
(* The bytes of a message                                                  *)

\* The first bytes of a message are a beginning of more of them.
LEMMA BytesFacts ==
    ASSUME NEW n, NEW e \in Nat, NEW d \in 0 .. e
    PROVE  /\ Len(Bytes(n, d)) = d /\ (d = 0 => Bytes(n, d) = << >>)
           /\ n \in 1 .. MaxMsgs => Bytes(n, d) \in Seq(Item)
           /\ IsPrefix(Bytes(n, d), Bytes(n, e))
<1> DEFINE T == {n} \X Nat
<1>1. Bytes(n, d) \in Seq(T) /\ Len(Bytes(n, d)) = d BY DEF Bytes
<1>2. Bytes(n, e) \in Seq(T) /\ Len(Bytes(n, e)) = e BY DEF Bytes
<1>3. \A i \in 1 .. d : Bytes(n, d)[i] = Bytes(n, e)[i] BY DEF Bytes
<1>4. n \in 1 .. MaxMsgs => Bytes(n, d) \in Seq(Item) BY DEF Bytes, Item
<1>5. d = 0 => Bytes(n, d) = << >> BY <1>1
<1>6. SubSeq(Bytes(n, d), 1, d) = SubSeq(Bytes(n, e), 1, d) BY <1>1, <1>2, <1>3
<1> QED BY <1>1, <1>2, <1>4, <1>5, <1>6 DEF IsPrefix

\* A read that starts where the last one ended extends the bytes.
LEMMA BytesExtends ==
    ASSUME NEW n \in 1 .. MaxMsgs, NEW d \in Nat, NEW j \in Nat, NEW s \in Seq(Item),
           Len(s) = j, \A i \in 1 .. j : s[i] = <<n, d + i>>
    PROVE  Bytes(n, d) \o s = Bytes(n, d + j)
<1>1. Bytes(n, d) \in Seq(Item) /\ Len(Bytes(n, d)) = d BY BytesFacts
<1>2. Bytes(n, d + j) \in Seq(Item) /\ Len(Bytes(n, d + j)) = d + j BY BytesFacts
<1>3. /\ Bytes(n, d) \o s \in Seq(Item) /\ Len(Bytes(n, d) \o s) = d + j
      /\ \A i \in 1 .. d + j : (Bytes(n, d) \o s)[i] = IF i <= d THEN Bytes(n, d)[i] ELSE s[i - d]
  <2> DEFINE B == Bytes(n, d)
  <2>1. B \in Seq(Item) /\ Len(B) = d BY <1>1
  <2> HIDE DEF B
  <2>2. /\ B \o s \in Seq(Item) /\ Len(B \o s) = d + j
        /\ \A i \in 1 .. d + j : (B \o s)[i] = IF i <= d THEN B[i] ELSE s[i - d]
    BY <2>1, ConcatProperties
  <2> QED BY <2>2 DEF B
<1>4. \A i \in 1 .. d + j : (Bytes(n, d) \o s)[i] = Bytes(n, d + j)[i]
  <2> SUFFICES ASSUME NEW i \in 1 .. d + j PROVE (Bytes(n, d) \o s)[i] = Bytes(n, d + j)[i]
    OBVIOUS
  <2>1. Bytes(n, d + j)[i] = <<n, i>> BY DEF Bytes
  <2>2. CASE i <= d
    <3>1. Bytes(n, d)[i] = <<n, i>> BY <2>2 DEF Bytes
    <3> QED BY <1>3, <2>1, <2>2, <3>1
  <2>3. CASE ~ i <= d
    <3>1. i - d \in 1 .. j /\ d + (i - d) = i BY <2>3
    <3>2. s[i - d] = <<n, i>> BY <3>1
    <3>3. (Bytes(n, d) \o s)[i] = s[i - d] BY <1>3, <2>3
    <3> QED BY <2>1, <3>2, <3>3
  <2> QED BY <2>2, <2>3
<1> QED BY <1>2, <1>3, <1>4, SeqEqual

-----------------------------------------------------------------------------
(* The steps of the channel                                                *)

\* What the sessions do to the channel: its own steps, a read that ends, and the end of
\* the server, which breaks the connection.
ReadEnds ==
    /\ rpc = "length" /\ wire = << >> /\ rpc' = "false"
    /\ UNCHANGED <<wire, broken, sendVars, len, data, received>>

Ends == broken' \in {broken, TRUE} /\ UNCHANGED <<wire, sendVars, receiveVars>>

\* What a step of a session can do to the channel.
LEMMA ChannelStep ==
    ASSUME [ObjectsNext]_sessionVars
    PROVE  Send \/ Receive \/ ReceiveOverflows \/ Break \/ ReadEnds \/ Ends
<1> USE DEF channelVars, allVars, Exit
<1>1. CASE Edge
  BY <1>1 DEF Edge, Connect, EdgeSend, Hear, Shutdown, Finish, Lose, Ends
<1>2. CASE SetUpFails \/ Accept \/ HandshakeFails \/ Construct \/ BeginSession \/ Close
  BY <1>2 DEF SetUpFails, Accept, HandshakeFails, Construct, SetUp, BeginSession, Handshake, Close, Ends
<1>3. CASE OpenFails \/ RecvLogin \/ RecvBatch
  BY <1>3 DEF OpenFails, RecvLogin, RecvBatch, ServerReceive, ServerOverflows, Ends
<1>4. CASE WriterEnds \/ FreeSession \/ FreeAbsent
  BY <1>4 DEF WriterEnds, FreeSession, EndSession, FreeAbsent, EndAbsent, Ends
<1>5. CASE Worker
  BY <1>5 DEF Worker, ReceiveClosed, ReceiveLost, ReceiveLengthFails, ClearAcceptedClientSd, RecipeEnd,
     RecipeSendFails, ReceiveRequired, ReadEnds, Ends
<1>6. CASE SessionThread
  BY <1>6 DEF SessionThread, Respond, RespondFails, RespondFreed, Ends
<1>7. CASE UNCHANGED sessionVars
  BY <1>7 DEF sessionVars, Ends
<1> QED BY <1>1, <1>2, <1>3, <1>4, <1>5, <1>6, <1>7 DEF ObjectsNext, ServerThreads

\* The lengths, the wire and the messages, as the lemmas above take them.
LEMMA StreamTypes ==
    ASSUME ChannelTypes
    PROVE  /\ MaxMsgs \in Nat /\ size \in Seq(Nat) /\ Len(size) \in Nat
           /\ \A n \in 1 .. Len(size) : size[n] \in Nat /\ n \in 1 .. MaxMsgs
           /\ wire \in Seq(Item) /\ Len(wire) \in Nat
           /\ Len(received) \in Nat /\ Len(data) \in Nat /\ len \in Nat
<1>1. MaxMsgs \in Nat /\ Lengths \subseteq Nat BY ChannelAssumption
<1>2. size \in Seq(Nat) /\ Len(size) \in Nat /\ Len(size) <= MaxMsgs
  <2>1. size \in Seq(Lengths) /\ Len(size) <= MaxMsgs BY DEF ChannelTypes
  <2>2. size \in Seq(Nat) BY <1>1, <2>1, SeqMonotonic
  <2> QED BY <2>1, <2>2
<1>3. \A n \in 1 .. Len(size) : size[n] \in Nat /\ n \in 1 .. MaxMsgs BY <1>1, <1>2
<1> QED BY <1>1, <1>2, <1>3 DEF ChannelTypes

\* A further message changes nothing of what was received.
LEMMA FurtherMessage ==
    ASSUME StreamInv, NEW l \in Lengths, size' = Append(size, l), UNCHANGED <<receiveVars, broken>>,
           ~ broken \/ wire' = wire
    PROVE  BodyInv' /\ ReceivedInv'
<1>1. ChannelTypes /\ BodyInv /\ ReceivedInv BY DEF StreamInv
<1>2. size \in Seq(Nat) /\ Len(size) \in Nat /\ Len(received) \in Nat /\ l \in Nat
  BY <1>1, StreamTypes, ChannelAssumption
<1>3. Len(size') = Len(size) + 1 /\ \A n \in 1 .. Len(size) : size'[n] = size[n] BY <1>2
<1>4. rpc' = rpc /\ len' = len /\ data' = data /\ received' = received /\ broken' = broken BY DEF receiveVars
<1>5. Len(received) <= Len(size) BY <1>1 DEF BodyInv
<1>6. BodyInv'
  <2>1. Len(received') <= Len(size') BY <1>2, <1>3, <1>4, <1>5
  <2>2. Len(received) < Len(size) => Len(received) + 1 \in 1 .. Len(size) BY <1>2
  <2>3. rpc \in {"body", "spin"} => Len(received') < Len(size') /\ len' = size'[Len(received') + 1]
    BY <1>1, <1>2, <1>3, <1>4, <2>2 DEF BodyInv
  <2>4. rpc' = "spin" => broken' /\ wire' = << >> BY <1>1, <1>4 DEF BodyInv
  <2> QED BY <1>1, <1>4, <2>1, <2>3, <2>4 DEF BodyInv
<1>7. ReceivedInv'
  <2>1. \A n \in 1 .. Len(received) : size'[n] = size[n] BY <1>2, <1>3, <1>5
  <2> SUFFICES ASSUME NEW n \in 1 .. Len(received)
               PROVE  Whole(n)' \/ Cut(n)'
    BY <1>4 DEF ReceivedInv
  <2>2. size'[n] = size[n] BY <2>1
  <2>3. Whole(n) \/ Cut(n) BY <1>1 DEF ReceivedInv
  <2> QED BY <1>4, <2>2, <2>3 DEF Whole, Cut
<1> QED BY <1>6, <1>7

\* SendData writes the length.
LEMMA SendLengthStep ==
    ASSUME StreamInv, NEW l \in Lengths, SendLength(l) PROVE StreamInv'
<1> DEFINE n == Len(size) + 1
<1>1. ChannelTypes /\ Stretch(wire, size) /\ WireEnds BY DEF StreamInv
<1>2. /\ MaxMsgs \in Nat /\ size \in Seq(Nat) /\ Len(size) \in Nat /\ wire \in Seq(Item)
      /\ Len(wire) \in Nat /\ l \in Nat /\ n \in Nat
  BY <1>1, StreamTypes, ChannelAssumption
<1>3. /\ ~ broken /\ wpc = "idle" /\ Len(size) < MaxMsgs /\ size' = Append(size, l)
      /\ wire' = Append(wire, <<n, 0>>) /\ UNCHANGED <<broken, receiveVars>>
      /\ IF l = 0 THEN sent' = Append(sent, TRUE) /\ wpc' = "idle" ELSE wpc' = "body" /\ sent' = sent
  BY DEF SendLength, SendReturns
<1>4. /\ size' \in Seq(Nat) /\ size' \in Seq(Lengths) /\ Len(size') = n /\ size'[n] = l
      /\ n \in 1 .. Len(size') /\ n \in 1 .. MaxMsgs
      /\ \A m \in 1 .. Len(size) : size'[m] = size[m]
  BY <1>1, <1>2, <1>3 DEF ChannelTypes
<1>5. Stretch(wire, size') BY <1>1, <1>2, <1>3, StretchSize
<1>6. Expected' = Expected BY <1>3 DEF Expected, receiveVars
<1>7. <<n, 0>> = IF wire = << >> THEN Expected ELSE After(size, wire[Len(wire)])
  BY <1>1, <1>3 DEF WireEnds, Upcoming
<1> HIDE DEF n
<1>8. wire # << >> => After(size', wire[Len(wire)]) = <<n, 0>>
  <2> SUFFICES ASSUME wire # << >> PROVE After(size', wire[Len(wire)]) = <<n, 0>> OBVIOUS
  <2>1. wire[Len(wire)][1] \in 1 .. Len(size) BY <1>1, <1>2 DEF Stretch, Items
  <2>2. size'[wire[Len(wire)][1]] = size[wire[Len(wire)][1]] BY <1>4, <2>1
  <2> QED BY <1>7, <2>2 DEF After
<1>9. \A j \in 1 .. Len(wire) : wire[j][1] < n BY <1>1, <1>2 DEF Stretch, Items, n
<1>10. Stretch(wire', size') BY <1>2, <1>3, <1>4, <1>5, <1>8, <1>9, StretchLength
<1>11. <<n, 0>> \in Item BY <1>4 DEF Item
<1>12. /\ wire' \in Seq(Item) /\ Len(wire') = Len(wire) + 1 /\ wire' # << >>
       /\ wire'[Len(wire')] = <<n, 0>>
       /\ wire # << >> => wire'[1] = wire[1]
       /\ wire = << >> => wire'[1] = <<n, 0>>
  BY <1>2, <1>3, <1>11
<1>13. ChannelTypes'
  <2>1. /\ sent' \in Seq(BOOLEAN) /\ wpc' \in {"idle", "body", "spin"}
        /\ Len(sent') = Len(size') - (IF wpc' = "idle" THEN 0 ELSE 1)
    <3>1. sent \in Seq(BOOLEAN) /\ Len(sent) = Len(size) /\ TRUE \in BOOLEAN
      BY <1>1, <1>2, <1>3 DEF ChannelTypes
    <3>2. CASE l = 0
      <4>1. sent' = Append(sent, TRUE) /\ wpc' = "idle" BY <1>3, <3>2
      <4>2. sent' \in Seq(BOOLEAN) /\ Len(sent') = Len(sent) + 1 BY <3>1, <4>1, AppendProperties
      <4> QED BY <1>2, <1>4, <3>1, <4>1, <4>2 DEF n
    <3>3. CASE l # 0
      BY <1>2, <1>3, <1>4, <3>1, <3>3 DEF n
    <3> QED BY <3>2, <3>3
  <2>2. Len(size') <= MaxMsgs BY <1>4
  <2> QED BY <1>1, <1>3, <1>4, <1>12, <2>1, <2>2 DEF ChannelTypes, receiveVars
<1>14. WireEnds'
  <2>1. wire'[1] = Expected'
    <3>1. CASE wire = << >> BY <1>6, <1>7, <1>12, <3>1
    <3>2. CASE wire # << >> BY <1>1, <1>6, <1>12, <3>2 DEF WireEnds
    <3> QED BY <3>1, <3>2
  <2>2. After(size', wire'[Len(wire')]) = IF 0 < l THEN <<n, 0 + 1>> ELSE <<n + 1, 0>>
    BY <1>4, <1>12 DEF After
  <2>3. Upcoming' = IF l = 0 THEN <<n + 1, 0>> ELSE <<n, 1>>
    BY <1>3, <1>4 DEF Upcoming
  <2>4. 0 + 1 = 1 /\ (0 < l <=> l # 0) BY <1>2
  <2>5. Upcoming' = After(size', wire'[Len(wire')]) BY <2>2, <2>3, <2>4
  <2>6. wpc' = "body" => Len(size') >= 1 /\ size'[Len(size')] >= 1 BY <1>2, <1>3, <1>4
  <2> QED BY <1>12, <2>1, <2>5, <2>6 DEF WireEnds
<1>15. BodyInv' /\ ReceivedInv' BY <1>3, FurtherMessage
<1> QED BY <1>10, <1>13, <1>14, <1>15 DEF StreamInv

\* SendData fails at the length.
LEMMA SendLengthFailsStep ==
    ASSUME StreamInv, NEW l \in Lengths, SendLengthFails(l) PROVE StreamInv'
<1>1. ChannelTypes /\ Stretch(wire, size) /\ WireEnds BY DEF StreamInv
<1>2. MaxMsgs \in Nat /\ size \in Seq(Nat) /\ Len(size) \in Nat /\ wire \in Seq(Item) /\ l \in Nat
  BY <1>1, StreamTypes, ChannelAssumption
<1>3. /\ broken /\ wpc = "idle" /\ Len(size) < MaxMsgs /\ size' = Append(size, l)
      /\ sent' = Append(sent, FALSE) /\ wpc' = "idle" /\ UNCHANGED <<wire, broken, receiveVars>>
  BY DEF SendLengthFails, SendReturns
<1>4. size' \in Seq(Lengths) /\ Len(size') = Len(size) + 1 BY <1>1, <1>3 DEF ChannelTypes
<1>5. Stretch(wire', size') BY <1>1, <1>2, <1>3, StretchSize
<1>6. ChannelTypes'
  <2>1. sent \in Seq(BOOLEAN) /\ Len(sent) = Len(size) /\ FALSE \in BOOLEAN
    BY <1>1, <1>2, <1>3 DEF ChannelTypes
  <2>2. sent' \in Seq(BOOLEAN) /\ Len(sent') = Len(sent) + 1 BY <1>3, <2>1, AppendProperties
  <2>3. Len(size') <= MaxMsgs /\ Len(sent') = Len(size') - 0 BY <1>2, <1>3, <1>4, <2>1, <2>2
  <2> QED BY <1>1, <1>3, <1>4, <2>2, <2>3 DEF ChannelTypes, receiveVars
<1>7. Expected' = Expected BY <1>3 DEF Expected, receiveVars
<1>8. WireEnds' BY <1>1, <1>3, <1>7 DEF WireEnds
<1>9. BodyInv' /\ ReceivedInv' BY <1>3, FurtherMessage
<1> QED BY <1>5, <1>6, <1>8, <1>9 DEF StreamInv

\* SendData writes the body.
LEMMA SendBodyStep == ASSUME StreamInv, SendBody PROVE StreamInv'
<1> DEFINE n == Len(size)
           S == size[n]
           B == Bytes(n, S)
<1>1. ChannelTypes /\ Stretch(wire, size) /\ WireEnds BY DEF StreamInv
<1>2. /\ MaxMsgs \in Nat /\ size \in Seq(Nat) /\ n \in Nat /\ wire \in Seq(Item) /\ Len(wire) \in Nat
      /\ \A m \in 1 .. n : size[m] \in Nat /\ m \in 1 .. MaxMsgs
  BY <1>1, StreamTypes
<1>3. /\ ~ broken /\ wpc = "body" /\ wire' = wire \o B /\ UNCHANGED <<size, broken, receiveVars>>
      /\ sent' = Append(sent, TRUE) /\ wpc' = "idle"
  BY DEF SendBody, SendReturns, Body, Bytes
<1>4. n >= 1 /\ S >= 1 BY <1>1, <1>3 DEF WireEnds
<1>5. n \in 1 .. n /\ S \in Nat /\ n \in 1 .. MaxMsgs BY <1>2, <1>4
<1>6. B \in Seq(Item) /\ Len(B) = S /\ B[1] = <<n, 1>> /\ B[S] = <<n, S>>
  <2>1. 1 \in 1 .. S /\ S \in 1 .. S /\ S \in 0 .. S BY <1>4, <1>5
  <2>2. B[1] = <<n, 1>> /\ B[S] = <<n, S>>
    <3> HIDE DEF n, S
    <3> QED BY <2>1 DEF Bytes
  <2> QED BY <1>5, <2>1, <2>2, BytesFacts
<1>7. <<n, 1>> = IF wire = << >> THEN Expected ELSE After(size, wire[Len(wire)])
  BY <1>1, <1>3 DEF WireEnds, Upcoming
<1> HIDE DEF n, S, B
<1>8. wire # << >> => wire[Len(wire)] = <<n, 0>>
  <2> SUFFICES ASSUME wire # << >> PROVE wire[Len(wire)] = <<n, 0>> OBVIOUS
  <2> DEFINE a == wire[Len(wire)]
  <2>1. a \in Item BY <1>2
  <2>2. a = <<a[1], a[2]>> /\ a[2] \in Nat BY <2>1 DEF Item
  <2>3. After(size, a) = <<n, 1>> BY <1>7
  <2>4. After(size, a) = <<a[1], a[2] + 1>> \/ After(size, a) = <<a[1] + 1, 0>> BY DEF After
  <2> HIDE DEF a
  <2>5. After(size, a) # <<a[1] + 1, 0>> BY <2>3
  <2>6. a[1] = n /\ a[2] + 1 = 1 BY <2>3, <2>4, <2>5
  <2>7. a[2] = 0 BY <2>2, <2>6
  <2> QED BY <2>2, <2>6, <2>7 DEF a
<1>9. Stretch(wire', size') BY <1>1, <1>2, <1>3, <1>4, <1>5, <1>8, StretchBody DEF n, S, B
<1>10. /\ wire' \in Seq(Item) /\ Len(wire') = Len(wire) + S /\ wire' # << >>
       /\ wire'[Len(wire')] = <<n, S>>
       /\ wire'[1] = IF wire = << >> THEN <<n, 1>> ELSE wire[1]
  <2>1. /\ wire' \in Seq(Item) /\ Len(wire') = Len(wire) + S
        /\ \A i \in 1 .. Len(wire) + S : wire'[i] = IF i <= Len(wire) THEN wire[i] ELSE B[i - Len(wire)]
    BY <1>2, <1>3, <1>6, ConcatProperties
  <2>2. /\ 1 \in 1 .. Len(wire) + S /\ Len(wire) + S \in 1 .. Len(wire) + S
        /\ ~ (Len(wire) + S <= Len(wire)) /\ (Len(wire) + S) - Len(wire) = S
    BY <1>2, <1>4, <1>5
  <2>3. wire'[Len(wire')] = <<n, S>> BY <1>6, <2>1, <2>2
  <2>4. wire = << >> => Len(wire) = 0 /\ ~ (1 <= Len(wire)) /\ 1 - Len(wire) = 1 OBVIOUS
  <2>5. wire # << >> => 1 <= Len(wire) BY <1>2
  <2>6. wire'[1] = IF wire = << >> THEN <<n, 1>> ELSE wire[1] BY <1>6, <2>1, <2>2, <2>4, <2>5
  <2> QED BY <2>1, <2>2, <2>3, <2>6
<1>11. Expected' = Expected BY <1>3 DEF Expected, receiveVars
<1>12. ChannelTypes'
  <2>1. sent \in Seq(BOOLEAN) /\ Len(sent) = n - 1 /\ TRUE \in BOOLEAN
    BY <1>1, <1>3 DEF ChannelTypes, n
  <2>2. sent' \in Seq(BOOLEAN) /\ Len(sent') = Len(sent) + 1 BY <1>3, <2>1, AppendProperties
  <2>3. Len(sent') = Len(size') - 0 BY <1>2, <1>3, <2>1, <2>2 DEF n
  <2> QED BY <1>1, <1>3, <1>10, <2>2, <2>3 DEF ChannelTypes, receiveVars
<1>13. WireEnds'
  <2>1. wire'[1] = Expected'
    <3>1. CASE wire = << >> BY <1>7, <1>10, <1>11, <3>1
    <3>2. CASE wire # << >> BY <1>1, <1>10, <1>11, <3>2 DEF WireEnds
    <3> QED BY <3>1, <3>2
  <2>2. ~ (S < size[n]) BY <1>5 DEF S
  <2>3. After(size, <<n, S>>) = <<n + 1, 0>> BY <2>2 DEF After
  <2>4. Upcoming' = <<n + 1, 0>> BY <1>3 DEF Upcoming, n
  <2> QED BY <1>3, <1>10, <2>1, <2>3, <2>4 DEF WireEnds
<1>14. BodyInv' /\ ReceivedInv'
  <2>1. BodyInv /\ ReceivedInv BY DEF StreamInv
  <2>2. ~ broken /\ UNCHANGED <<size, broken, rpc, len, data, received>> BY <1>3 DEF receiveVars
  <2>3. BodyInv' BY <2>1, <2>2 DEF BodyInv
  <2>4. ReceivedInv' BY <2>1, <2>2 DEF ReceivedInv, Whole, Cut
  <2> QED BY <2>3, <2>4
<1> QED BY <1>9, <1>12, <1>13, <1>14 DEF StreamInv

\* A body that is not written: the connection is broken, and nothing changes on the wire.
LEMMA SendBodyEndsStep == ASSUME StreamInv, SendBodyFails \/ SendBodySpins PROVE StreamInv'
<1>1. ChannelTypes /\ WireEnds /\ BodyInv /\ ReceivedInv /\ Stretch(wire, size) BY DEF StreamInv
<1>2. /\ broken /\ wpc = "body" /\ UNCHANGED <<size, wire, broken, rpc, len, data, received>>
      /\ \/ sent' = Append(sent, TRUE) /\ wpc' = "idle"
         \/ sent' = sent /\ wpc' = "spin"
  BY DEF SendBodyFails, SendBodySpins, SendReturns, receiveVars
<1>3. ChannelTypes'
  <2>1. /\ sent \in Seq(BOOLEAN) /\ Len(sent) = Len(size) - 1 /\ TRUE \in BOOLEAN /\ Len(size) \in Nat
    BY <1>1, <1>2, StreamTypes DEF ChannelTypes
  <2>2. Append(sent, TRUE) \in Seq(BOOLEAN) /\ Len(Append(sent, TRUE)) = Len(sent) + 1
    BY <2>1, AppendProperties
  <2>3. Len(sent) + 1 = Len(size) - 0 BY <2>1
  <2>4. sent' \in Seq(BOOLEAN) /\ Len(sent') = Len(size') - (IF wpc' = "idle" THEN 0 ELSE 1)
    BY <1>2, <2>1, <2>2, <2>3
  <2> QED BY <1>1, <1>2, <2>4 DEF ChannelTypes
<1>4. WireEnds' BY <1>1, <1>2 DEF WireEnds, Expected
<1>5. BodyInv' BY <1>1, <1>2 DEF BodyInv
<1>6. ReceivedInv' BY <1>1, <1>2 DEF ReceivedInv, Whole, Cut
<1>7. Stretch(wire', size') BY <1>1, <1>2
<1> QED BY <1>3, <1>4, <1>5, <1>6, <1>7 DEF StreamInv

\* A read takes the first j items, and waits for the one that follows them.
LEMMA ReadStep ==
    ASSUME StreamInv, NEW j \in 1 .. Len(wire), wire' = SubSeq(wire, j + 1, Len(wire)),
           UNCHANGED <<broken, sendVars>>, Expected' = After(size, wire[j])
    PROVE  wire' \in Seq(Item) /\ Stretch(wire', size') /\ WireEnds'
<1>1. ChannelTypes /\ Stretch(wire, size) /\ WireEnds BY DEF StreamInv
<1>2. size \in Seq(Nat) /\ wire \in Seq(Item) /\ Len(wire) \in Nat BY <1>1, StreamTypes
<1>3. UNCHANGED <<broken, wpc, size>> BY DEF sendVars
<1>4. j + 1 \in 1 .. Len(wire) + 1 /\ Len(wire) \in 0 .. Len(wire) /\ j + 1 <= Len(wire) + 1 BY <1>2
<1>5. /\ wire' \in Seq(Item) /\ Len(wire') = Len(wire) + 1 - (j + 1) /\ Stretch(wire', size)
      /\ \A i \in 1 .. Len(wire) + 1 - (j + 1) : wire'[i] = wire[i + (j + 1) - 1]
  BY <1>1, <1>2, <1>4, StretchPiece
<1>6. Len(wire) + 1 - (j + 1) = Len(wire) - j /\ \A i \in Nat : i + (j + 1) - 1 = i + j BY <1>2
<1>7. Len(wire') = Len(wire) - j /\ \A i \in 1 .. Len(wire) - j : wire'[i] = wire[i + j]
  BY <1>2, <1>5, <1>6
<1>8. Upcoming' = Upcoming BY <1>3 DEF Upcoming
<1>9. ~ broken => Upcoming = After(size, wire[Len(wire)])
  <2>1. wire # << >> BY <1>2
  <2> QED BY <1>1, <2>1 DEF WireEnds
<1>10. CASE wire' = << >>
  <2>0. Len(wire') = 0 BY <1>10
  <2>1. j = Len(wire) BY <1>2, <1>7, <2>0
  <2> QED BY <1>1, <1>3, <1>5, <1>8, <1>9, <1>10, <2>1 DEF WireEnds
<1>11. CASE wire' # << >>
  <2>1. Len(wire') \in Nat /\ Len(wire') # 0 BY <1>5, <1>11
  <2>2. j < Len(wire) /\ 1 \in 1 .. Len(wire) - j /\ Len(wire) - j \in 1 .. Len(wire) - j
        /\ 1 + j = j + 1 /\ (Len(wire) - j) + j = Len(wire)
    BY <1>2, <1>7, <2>1
  <2>3. wire'[1] = wire[j + 1] /\ wire'[Len(wire')] = wire[Len(wire)] BY <1>7, <2>2
  <2>4. wire[j + 1] = After(size, wire[j]) BY <1>1, <2>2 DEF Stretch, Adjacent
  <2>5. wire'[1] = Expected' BY <2>3, <2>4
  <2>6. ~ broken' => Upcoming' = After(size', wire'[Len(wire')])
    <3>1. size' = size /\ broken' = broken BY <1>3
    <3>2. After(size', wire'[Len(wire')]) = After(size, wire[Len(wire)]) BY <2>3, <3>1, Zenon
    <3>3. ~ broken' => ~ broken BY <3>1
    <3>4. ~ broken' => Upcoming = After(size, wire[Len(wire)]) BY <1>9, <3>3
    <3> HIDE DEF Upcoming, After
    <3> QED BY <1>8, <3>2, <3>4
  <2>7. wpc' = "body" => Len(size') >= 1 /\ size'[Len(size')] >= 1 BY <1>1, <1>3 DEF WireEnds
  <2>8. WireEnds' BY <1>11, <2>5, <2>6, <2>7 DEF WireEnds
  <2> QED BY <1>3, <1>5, <2>8
<1> QED BY <1>10, <1>11

\* ReceiveData returns a message, whole or because nothing more can come.
LEMMA ReturnsStep ==
    ASSUME StreamInv, NEW body \in Seq(Item), ReceiveReturns(body), UNCHANGED <<broken, sendVars>>,
           Len(received) < Len(size), wire # << >> \/ rpc = "spin",
           \/ body = Bytes(Len(received) + 1, size[Len(received) + 1])
           \/ /\ broken /\ wire' = << >>
              /\ \E d \in 0 .. size[Len(received) + 1] : body = Bytes(Len(received) + 1, d)
    PROVE  /\ wire' \in Seq(Item) => ChannelTypes'
           /\ BodyInv' /\ ReceivedInv'
<1>1. ChannelTypes /\ BodyInv /\ ReceivedInv BY DEF StreamInv
<1>2. size \in Seq(Nat) /\ Len(size) \in Nat /\ Len(received) \in Nat BY <1>1, StreamTypes
<1>3. /\ UNCHANGED <<broken, wpc, size, sent>> /\ received' = Append(received, body)
      /\ rpc' = "length" /\ len' = 0 /\ data' = << >>
  BY DEF sendVars, ReceiveReturns
<1>4. received \in Seq(Seq(Item)) BY <1>1 DEF ChannelTypes
<1>5. /\ received' \in Seq(Seq(Item)) /\ Len(received') = Len(received) + 1
      /\ received'[Len(received) + 1] = body
      /\ \A n \in 1 .. Len(received) : received'[n] = received[n]
  BY <1>3, <1>4, AppendProperties
<1>6. wire' \in Seq(Item) => ChannelTypes' BY <1>1, <1>3, <1>5 DEF ChannelTypes
<1>7. BodyInv' BY <1>2, <1>3, <1>5 DEF BodyInv
<1>8. \A n \in 1 .. Len(received) : Whole(n)
  <2>1. wire # << >> => \A n \in 1 .. Len(received) : ~ Cut(n) BY DEF Cut
  <2>2. rpc = "spin" => \A n \in 1 .. Len(received) : ~ Cut(n) BY DEF Cut
  <2> QED BY <1>1, <2>1, <2>2 DEF ReceivedInv
<1>9. ReceivedInv'
  <2> SUFFICES ASSUME NEW n \in 1 .. Len(received') PROVE Whole(n)' \/ Cut(n)'
    BY DEF ReceivedInv
  <2>1. CASE n \in 1 .. Len(received)
    <3>1. Whole(n) BY <1>8, <2>1
    <3> QED BY <1>3, <1>5, <2>1, <3>1 DEF Whole
  <2>2. CASE n = Len(received) + 1
    <3>1. received'[n] = body /\ size' = size /\ n = Len(received') BY <1>3, <1>5, <2>2
    <3>2. CASE body = Bytes(n, size[n]) BY <3>1, <3>2 DEF Whole
    <3>3. CASE broken /\ wire' = << >> /\ \E d \in 0 .. size[n] : body = Bytes(n, d)
      BY <1>3, <3>1, <3>3 DEF Cut
    <3> QED BY <2>2, <3>2, <3>3
  <2>3. n \in 1 .. Len(received) \/ n = Len(received) + 1 BY <1>2, <1>5
  <2> QED BY <2>1, <2>2, <2>3
<1> QED BY <1>6, <1>7, <1>9

\* ReceiveData reads the length.
LEMMA ReceiveLengthStep == ASSUME StreamInv, ReceiveLength PROVE StreamInv'
<1> DEFINE n == Len(received) + 1
           l == size[n]
<1>1. ChannelTypes /\ Stretch(wire, size) /\ WireEnds /\ BodyInv /\ ReceivedInv BY DEF StreamInv
<1>2. /\ MaxMsgs \in Nat /\ size \in Seq(Nat) /\ Len(size) \in Nat /\ wire \in Seq(Item)
      /\ Len(wire) \in Nat /\ Len(received) \in Nat /\ n \in Nat
  BY <1>1, StreamTypes
<1>3. rpc = "length" /\ wire # << >> /\ wire' = Tail(wire) /\ UNCHANGED <<broken, sendVars>>
  BY DEF ReceiveLength
<1>4. wire[1] = <<n, 0>> /\ Head(wire) = wire[1] /\ 1 \in 1 .. Len(wire)
  BY <1>1, <1>2, <1>3 DEF WireEnds, Expected
<1>5. wire[1][1] = n /\ wire[1][2] = 0 BY <1>4
<1>6. n \in 1 .. Len(size) /\ l \in Nat /\ Len(received) < Len(size)
  <2>1. n \in 1 .. Len(size) BY <1>1, <1>4, <1>5 DEF Stretch, Items
  <2> QED BY <1>2, <2>1
<1>7. IF l = 0 THEN ReceiveReturns(<< >>) ELSE rpc' = "body" /\ len' = l /\ UNCHANGED <<data, received>>
  BY <1>4, <1>5 DEF ReceiveLength
<1>8. data = << >> BY <1>1, <1>3 DEF BodyInv
<1>9. wire' = SubSeq(wire, 1 + 1, Len(wire)) BY <1>2, <1>3
<1>10. After(size, wire[1]) = IF 0 < l THEN <<n, 0 + 1>> ELSE <<n + 1, 0>> BY <1>5 DEF After
<1> HIDE DEF l
<1>11. CASE l = 0
  <2>1. ReceiveReturns(<< >>) BY <1>7, <1>11
  <2>2. rpc' = "length" /\ received' = Append(received, << >>) BY <2>1 DEF ReceiveReturns
  <2>3. Len(received') = n BY <1>1, <1>2, <2>2 DEF ChannelTypes
  <2>4. Expected' = <<n + 1, 0>> BY <2>2, <2>3 DEF Expected
  <2>5. Expected' = After(size, wire[1]) BY <1>10, <1>11, <2>4
  <2>6. wire' \in Seq(Item) /\ Stretch(wire', size') /\ WireEnds'
    BY <1>3, <1>4, <1>9, <2>5, ReadStep
  <2>7. << >> \in Seq(Item) /\ << >> = Bytes(n, l) BY <1>11, BytesFacts
  <2>8. ChannelTypes' /\ BodyInv' /\ ReceivedInv'
    BY <1>3, <1>6, <2>1, <2>6, <2>7, ReturnsStep DEF l
  <2> QED BY <2>6, <2>8 DEF StreamInv
<1>12. CASE l # 0
  <2>1. rpc' = "body" /\ len' = l /\ data' = data /\ received' = received BY <1>7, <1>12
  <2>2. Len(data') = 0 /\ Len(data') + 1 = 0 + 1 BY <1>8, <2>1
  <2>3. Expected' = <<n, 0 + 1>> BY <2>1, <2>2 DEF Expected
  <2>4. Expected' = After(size, wire[1]) BY <1>6, <1>10, <1>12, <2>3
  <2>5. wire' \in Seq(Item) /\ Stretch(wire', size') /\ WireEnds'
    BY <1>3, <1>4, <1>9, <2>4, ReadStep
  <2>6. UNCHANGED <<broken, wpc, size, sent>> BY <1>3 DEF sendVars
  <2>7. ChannelTypes' BY <1>1, <1>6, <2>1, <2>5, <2>6 DEF ChannelTypes
  <2>8. BodyInv'
    <3>1. Len(received') < Len(size') /\ len' = size'[Len(received') + 1] BY <1>6, <2>1, <2>6 DEF l
    <3>2. Len(data') < len' BY <1>6, <1>12, <2>1, <2>2
    <3>3. data' = Bytes(Len(received') + 1, Len(data')) BY <1>8, <2>1, <2>2, BytesFacts
    <3>4. Len(received') <= Len(size') BY <1>2, <1>6, <2>1, <2>6
    <3> QED BY <2>1, <3>1, <3>2, <3>3, <3>4 DEF BodyInv
  <2>9. ReceivedInv'
    <3>1. \A m \in 1 .. Len(received) : Whole(m) BY <1>1, <1>3 DEF ReceivedInv, Cut
    <3> QED BY <2>1, <2>6, <3>1 DEF ReceivedInv, Whole
  <2> QED BY <2>5, <2>7, <2>8, <2>9 DEF StreamInv
<1> QED BY <1>11, <1>12

\* The items of the body that is being read come one after the other.
LEMMA BodyRun ==
    ASSUME StreamInv, rpc = "body", NEW j \in 1 .. Len(wire), j <= len - Len(data)
    PROVE  wire[j] = <<Len(received) + 1, Len(data) + j>>
<1> DEFINE n == Len(received) + 1
           d == Len(data)
<1>1. ChannelTypes /\ Stretch(wire, size) /\ WireEnds /\ BodyInv BY DEF StreamInv
<1>2. /\ wire \in Seq(Item) /\ Len(wire) \in Nat /\ d \in Nat /\ n \in Nat /\ len \in Nat /\ j \in Nat
  BY <1>1, StreamTypes
<1>3. wire # << >> /\ 1 \in 1 .. Len(wire) BY <1>2
<1>4. wire[1] = <<n, d + 1>> BY <1>1, <1>3 DEF WireEnds, Expected
<1>5. size[n] = len BY <1>1 DEF BodyInv
<1>6. wire[1][1] = n /\ wire[1][2] = d + 1 BY <1>4
<1> HIDE DEF n, d
<1>7. CASE j = 1 BY <1>4, <1>7 DEF n, d
<1>8. CASE 1 < j
  <2>1. \/ wire[j][1] = wire[1][1] /\ wire[j][2] = wire[1][2] + (j - 1)
        \/ j - 1 > size[wire[1][1]] - wire[1][2]
    BY <1>1, <1>3, <1>8 DEF Stretch, Apart
  <2>2. ~ (j - 1 > len - (d + 1)) BY <1>2 DEF d
  <2>3. wire[j][1] = n /\ wire[j][2] = (d + 1) + (j - 1) BY <1>5, <1>6, <2>1, <2>2
  <2>4. (d + 1) + (j - 1) = d + j BY <1>2
  <2>5. wire[j] = <<wire[j][1], wire[j][2]>> BY <1>2 DEF Item
  <2> QED BY <2>3, <2>4, <2>5 DEF n, d
<1> QED BY <1>2, <1>7, <1>8

\* ReceiveData reads a piece of the body.
LEMMA ReceiveBodyStep == ASSUME StreamInv, ReceiveBody PROVE StreamInv'
<1> DEFINE n == Len(received) + 1
           d == Len(data)
<1>1. ChannelTypes /\ Stretch(wire, size) /\ WireEnds /\ BodyInv /\ ReceivedInv BY DEF StreamInv
<1>2. /\ MaxMsgs \in Nat /\ size \in Seq(Nat) /\ Len(size) \in Nat /\ wire \in Seq(Item)
      /\ Len(wire) \in Nat /\ Len(received) \in Nat /\ n \in Nat /\ d \in Nat /\ len \in Nat
  BY <1>1, StreamTypes
<1>3. rpc = "body" /\ wire # << >> /\ UNCHANGED <<broken, sendVars>> BY DEF ReceiveBody
<1>4. PICK j \in 1 .. (IF Rest < Len(wire) THEN Rest ELSE Len(wire)) :
         /\ wire' = SubSeq(wire, j + 1, Len(wire))
         /\ IF Len(data \o SubSeq(wire, 1, j)) < len
            THEN data' = data \o SubSeq(wire, 1, j) /\ UNCHANGED <<rpc, len, received>>
            ELSE ReceiveReturns(data \o SubSeq(wire, 1, j))
  BY DEF ReceiveBody
<1>5. /\ Len(received) < Len(size) /\ len = size[n] /\ d < len /\ data = Bytes(n, d)
  BY <1>1, <1>3 DEF BodyInv
<1>6. j \in 1 .. Len(wire) /\ j \in Nat /\ j <= len - d
  BY <1>2, <1>4 DEF Rest
<1>7. n \in 1 .. Len(size) /\ n \in 1 .. MaxMsgs
  <2>1. n \in 1 .. Len(size) BY <1>2, <1>5
  <2> QED BY <1>1, <2>1, StreamTypes
<1>8. data \o SubSeq(wire, 1, j) = Bytes(n, d + j)
  <2> DEFINE s == SubSeq(wire, 1, j)
  <2>1. s \in Seq(Item) /\ Len(s) = j /\ \A i \in 1 .. j : s[i] = wire[i] BY <1>2, <1>6
  <2>2. ASSUME NEW i \in 1 .. j PROVE s[i] = <<n, d + i>>
    <3>1. i \in 1 .. Len(wire) /\ i <= len - d BY <1>2, <1>6
    <3>2. wire[i] = <<n, d + i>> BY <1>3, <3>1, BodyRun
    <3> QED BY <2>1, <3>2
  <2> HIDE DEF s
  <2>3. Bytes(n, d) \o s = Bytes(n, d + j) BY <1>2, <1>6, <1>7, <2>1, <2>2, BytesExtends, ZenonT(60)
  <2> QED BY <1>5, <2>3 DEF s
<1>9. Bytes(n, d + j) \in Seq(Item) /\ Len(Bytes(n, d + j)) = d + j
  BY <1>2, <1>6, <1>7, BytesFacts
<1>10. IF d + j < len THEN data' = Bytes(n, d + j) /\ UNCHANGED <<rpc, len, received>>
       ELSE ReceiveReturns(Bytes(n, d + j))
  BY <1>4, <1>8, <1>9
<1>11. wire[j] = <<n, d + j>> BY <1>3, <1>6, BodyRun
<1>12. After(size, wire[j]) = IF d + j < len THEN <<n, d + j + 1>> ELSE <<n + 1, 0>>
  <2>1. wire[j][1] = n /\ wire[j][2] = d + j BY <1>11
  <2> QED BY <1>5, <2>1 DEF After
<1>13. CASE d + j < len
  <2>1. data' = Bytes(n, d + j) /\ rpc' = rpc /\ len' = len /\ received' = received BY <1>10, <1>13
  <2>2. Len(data') = d + j BY <1>9, <2>1
  <2>3. Expected' = <<n, d + j + 1>> BY <1>3, <2>1, <2>2 DEF Expected
  <2>4. Expected' = After(size, wire[j]) BY <1>12, <1>13, <2>3
  <2>5. wire' \in Seq(Item) /\ Stretch(wire', size') /\ WireEnds'
    BY <1>3, <1>4, <1>6, <2>4, ReadStep
  <2>6. UNCHANGED <<broken, wpc, size, sent>> BY <1>3 DEF sendVars
  <2>7. ChannelTypes' BY <1>1, <1>9, <2>1, <2>5, <2>6 DEF ChannelTypes
  <2>8. BodyInv'
    <3>1. data' = Bytes(Len(received') + 1, Len(data')) BY <2>1, <2>2
    <3>2. Len(received') < Len(size') /\ len' = size'[Len(received') + 1] BY <1>5, <2>1, <2>6
    <3>3. Len(data') < len' /\ rpc' = "body" BY <1>3, <1>13, <2>1, <2>2
    <3>4. Len(received') <= Len(size') BY <1>2, <1>5, <2>1, <2>6
    <3> QED BY <3>1, <3>2, <3>3, <3>4 DEF BodyInv
  <2>9. ReceivedInv'
    <3>1. \A m \in 1 .. Len(received) : Whole(m) BY <1>1, <1>3 DEF ReceivedInv, Cut
    <3> QED BY <2>1, <2>6, <3>1 DEF ReceivedInv, Whole
  <2> QED BY <2>5, <2>7, <2>8, <2>9 DEF StreamInv
<1>14. CASE ~ d + j < len
  <2>1. ReceiveReturns(Bytes(n, d + j)) BY <1>10, <1>14
  <2>2. rpc' = "length" /\ received' = Append(received, Bytes(n, d + j)) BY <2>1 DEF ReceiveReturns
  <2>3. Len(received') = n BY <1>1, <1>2, <1>9, <2>2, AppendProperties DEF ChannelTypes
  <2>4. Expected' = <<n + 1, 0>> BY <2>2, <2>3 DEF Expected
  <2>5. Expected' = After(size, wire[j]) BY <1>12, <1>14, <2>4
  <2>6. wire' \in Seq(Item) /\ Stretch(wire', size') /\ WireEnds'
    BY <1>3, <1>4, <1>6, <2>5, ReadStep
  <2>7. d + j = len BY <1>2, <1>6, <1>14, SMTT(30)
  <2>8. Bytes(n, d + j) = Bytes(n, size[n]) BY <1>5, <2>7
  <2>9. ChannelTypes' /\ BodyInv' /\ ReceivedInv'
    BY <1>3, <1>5, <1>9, <2>1, <2>6, <2>8, ReturnsStep
  <2> QED BY <2>6, <2>9 DEF StreamInv
<1> QED BY <1>13, <1>14

\* The body stays incomplete, and the loop goes on; or it comes to an end all the same.
LEMMA ReceiveFailsStep == ASSUME StreamInv, ReceiveBodyFails \/ ReceiveOverflows PROVE StreamInv'
<1>1. ChannelTypes /\ Stretch(wire, size) /\ WireEnds /\ BodyInv /\ ReceivedInv BY DEF StreamInv
<1>2. size \in Seq(Nat) /\ Len(size) \in Nat /\ Len(received) \in Nat /\ Len(data) \in Nat /\ len \in Nat
  BY <1>1, StreamTypes
<1>3. CASE ReceiveBodyFails
  <2>1. /\ rpc = "body" /\ rpc' = "spin" /\ wire = << >> /\ broken
        /\ UNCHANGED <<wire, broken, wpc, size, sent, len, data, received>>
    BY <1>3 DEF ReceiveBodyFails, sendVars
  <2>2. ChannelTypes' BY <1>1, <2>1 DEF ChannelTypes
  <2>3. Stretch(wire', size') BY <1>1, <2>1
  <2>4. WireEnds' BY <1>1, <2>1 DEF WireEnds
  <2>5. BodyInv' BY <1>1, <2>1 DEF BodyInv
  <2>6. ReceivedInv'
    <3>1. \A m \in 1 .. Len(received) : Whole(m) BY <1>1, <2>1 DEF ReceivedInv, Cut
    <3> QED BY <2>1, <3>1 DEF ReceivedInv, Whole
  <2> QED BY <2>2, <2>3, <2>4, <2>5, <2>6 DEF StreamInv
<1>4. CASE ReceiveOverflows
  <2> DEFINE n == Len(received) + 1
  <2>1. rpc = "spin" /\ ReceiveReturns(data) /\ UNCHANGED <<wire, broken, sendVars>>
    BY <1>4 DEF ReceiveOverflows
  <2>2. /\ broken /\ wire = << >> /\ Len(received) < Len(size) /\ len = size[n]
        /\ Len(data) < len /\ data = Bytes(n, Len(data))
    BY <1>1, <2>1 DEF BodyInv
  <2>3. data \in Seq(Item) /\ wire' \in Seq(Item) /\ wire' = << >> BY <1>1, <2>1, <2>2 DEF ChannelTypes
  <2>4. Len(data) \in 0 .. size[n] BY <1>2, <2>2
  <2>5. \E d \in 0 .. size[n] : data = Bytes(n, d) BY <2>2, <2>4
  <2>6. ChannelTypes' /\ BodyInv' /\ ReceivedInv'
    BY <2>1, <2>2, <2>3, <2>5, ReturnsStep
  <2>7. UNCHANGED <<wire, broken, wpc, size>> BY <2>1 DEF sendVars
  <2>8. Stretch(wire', size') BY <1>1, <2>7
  <2>9. WireEnds' BY <1>1, <2>2, <2>7 DEF WireEnds
  <2> QED BY <2>6, <2>8, <2>9 DEF StreamInv
<1> QED BY <1>3, <1>4

\* The connection breaks, or nothing more is read or written.
LEMMA BreakStep == ASSUME StreamInv, Break \/ ReadEnds \/ Ends PROVE StreamInv'
<1>1. ChannelTypes /\ Stretch(wire, size) /\ WireEnds /\ BodyInv /\ ReceivedInv BY DEF StreamInv
<1>2. size \in Seq(Nat) /\ wire \in Seq(Item) /\ Len(wire) \in Nat BY <1>1, StreamTypes
<1>3. CASE Break
  <2>1. PICK k \in 0 .. Len(wire) : wire' = SubSeq(wire, 1, k) BY <1>3 DEF Break
  <2>2. ~ broken /\ broken' = TRUE /\ UNCHANGED <<wpc, size, sent, rpc, len, data, received>>
    BY <1>3 DEF Break, sendVars, receiveVars
  <2>3. 1 \in 1 .. Len(wire) + 1 /\ 1 <= k + 1 /\ k + 1 - 1 = k BY <1>2
  <2>4. /\ wire' \in Seq(Item) /\ Len(wire') = k + 1 - 1 /\ Stretch(wire', size)
        /\ \A i \in 1 .. k + 1 - 1 : wire'[i] = wire[i + 1 - 1]
    BY <1>1, <1>2, <2>1, <2>3, StretchPiece
  <2>5. wire' # << >> => wire # << >> /\ wire'[1] = wire[1]
    <3> SUFFICES ASSUME wire' # << >> PROVE wire # << >> /\ wire'[1] = wire[1] OBVIOUS
    <3>1. Len(wire') # 0 BY <2>4
    <3>2. 1 \in 1 .. k + 1 - 1 /\ 1 + 1 - 1 = 1 /\ Len(wire) # 0 BY <1>2, <2>3, <2>4, <3>1
    <3>3. wire'[1] = wire[1 + 1 - 1] BY <2>4, <3>2
    <3> QED BY <3>2, <3>3
  <2>6. ChannelTypes' BY <1>1, <2>2, <2>4 DEF ChannelTypes
  <2>7. Expected' = Expected BY <2>2 DEF Expected
  <2>8. WireEnds' BY <1>1, <2>2, <2>5, <2>7 DEF WireEnds
  <2>9. BodyInv' BY <1>1, <2>2 DEF BodyInv
  <2>10. ReceivedInv'
    <3>1. \A m \in 1 .. Len(received) : Whole(m) BY <1>1, <2>2 DEF ReceivedInv, Cut
    <3> QED BY <2>2, <3>1 DEF ReceivedInv, Whole
  <2> QED BY <2>2, <2>4, <2>6, <2>8, <2>9, <2>10 DEF StreamInv
<1>4. CASE ReadEnds
  <2>1. /\ rpc = "length" /\ rpc' = "false" /\ wire = << >>
        /\ UNCHANGED <<wire, broken, wpc, size, sent, len, data, received>>
    BY <1>4 DEF ReadEnds, sendVars
  <2>2. ChannelTypes' BY <1>1, <2>1 DEF ChannelTypes
  <2>3. Expected' = Expected /\ Upcoming' = Upcoming BY <2>1 DEF Expected, Upcoming
  <2>4. WireEnds' BY <1>1, <2>1, <2>3 DEF WireEnds
  <2>5. BodyInv' BY <1>1, <2>1 DEF BodyInv
  <2>6. ReceivedInv' BY <1>1, <2>1 DEF ReceivedInv, Whole, Cut
  <2> QED BY <1>1, <2>1, <2>2, <2>4, <2>5, <2>6 DEF StreamInv
<1>5. CASE Ends
  <2>1. /\ broken' = broken \/ broken' = TRUE
        /\ UNCHANGED <<wire, wpc, size, sent, rpc, len, data, received>>
    BY <1>5 DEF Ends, sendVars, receiveVars
  <2>2. ChannelTypes' BY <1>1, <2>1 DEF ChannelTypes
  <2>3. Expected' = Expected /\ Upcoming' = Upcoming BY <2>1 DEF Expected, Upcoming
  <2>4. WireEnds' BY <1>1, <2>1, <2>3 DEF WireEnds
  <2>5. BodyInv' BY <1>1, <2>1 DEF BodyInv
  <2>6. ReceivedInv' BY <1>1, <2>1 DEF ReceivedInv, Whole, Cut
  <2> QED BY <1>1, <2>1, <2>2, <2>4, <2>5, <2>6 DEF StreamInv
<1> QED BY <1>3, <1>4, <1>5

\* Every step keeps the stream in order.
LEMMA StreamStep == ASSUME StreamInv, [ObjectsNext]_sessionVars PROVE StreamInv'
<1>1. CASE Send
  BY <1>1, SendLengthStep, SendLengthFailsStep, SendBodyStep, SendBodyEndsStep DEF Send
<1>2. CASE Receive \/ ReceiveOverflows
  BY <1>2, ReceiveLengthStep, ReceiveBodyStep, ReceiveFailsStep DEF Receive
<1>3. CASE Break \/ ReadEnds \/ Ends
  BY <1>3, BreakStep
<1> QED BY <1>1, <1>2, <1>3, ChannelStep

-----------------------------------------------------------------------------
(* The theorems                                                            *)

SessionInv == ConnectionInv /\ HeapInv /\ StreamInv

\* The first state of a connection.
LEMMA SessionInit == ASSUME ObjectsInit PROVE SessionInv
<1>1. /\ wire = << >> /\ broken = FALSE /\ wpc = "idle" /\ size = << >> /\ sent = << >>
      /\ rpc = "length" /\ len = 0 /\ data = << >> /\ received = << >>
  BY DEF ObjectsInit, ConnectionInit, ChannelInit
<1>2. /\ login \in Login /\ edge = "start" /\ server = "setup" /\ sess = "wait" /\ worker = "off"
      /\ ssl = "none" /\ fin = FALSE /\ back = << >> /\ heard = {} /\ lost = FALSE /\ uaf = FALSE
      /\ heap = {} /\ writer = "off"
  BY DEF ObjectsInit, ConnectionInit
<1>3. ConnectionInv
  <2>1. ConnectionTypes
    <3>1. back \in Seq(Written) /\ heard \subseteq Told BY <1>2, EmptySeq
    <3> QED BY <1>2, <3>1 DEF ConnectionTypes
  <2>2. ThreadInv BY <1>1, <1>2 DEF ThreadInv
  <2>3. BackInv BY <1>1, <1>2 DEF BackInv, Once, NotifyLast, Has
  <2>4. EdgeInv BY <1>1, <1>2 DEF EdgeInv
  <2>5. PatientInv BY <1>2 DEF PatientInv
  <2> QED BY <2>1, <2>2, <2>3, <2>4, <2>5 DEF ConnectionInv
<1>4. HeapInv BY <1>2 DEF HeapInv, HasClient
<1>5. Len(wire) = 0 /\ Len(size) = 0 /\ Len(sent) = 0 /\ Len(received) = 0 /\ MaxMsgs \in Nat
  BY <1>1, ChannelAssumption
<1>6. ChannelTypes
  <2>1. << >> \in Seq(Lengths) /\ << >> \in Seq(BOOLEAN) /\ << >> \in Seq(Item) /\ << >> \in Seq(Seq(Item))
    BY EmptySeq
  <2>2. Len(sent) = Len(size) - 0 /\ Len(size) <= MaxMsgs BY <1>5
  <2> QED BY <1>1, <2>1, <2>2 DEF ChannelTypes
<1>7. Stretch(wire, size) BY <1>5 DEF Stretch, Items, Adjacent, Apart
<1>8. WireEnds BY <1>1, <1>5 DEF WireEnds, Expected, Upcoming
<1>9. BodyInv BY <1>1, <1>5 DEF BodyInv
<1>10. ReceivedInv BY <1>5 DEF ReceivedInv
<1> QED BY <1>3, <1>4, <1>6, <1>7, <1>8, <1>9, <1>10 DEF SessionInv, StreamInv

\* SessionInvariant: the stream, the threads of the session and the objects stay in the
\* order of SessionInv, whatever the edge sends, wherever the connection breaks and
\* whenever the server ends.
THEOREM SessionInvariant == ObjectsSpec => []SessionInv
<1>1. ObjectsInit => SessionInv BY SessionInit
<1>2. SessionInv /\ [ObjectsNext]_sessionVars => SessionInv'
  BY ConnectionStep, HeapStep, StreamStep DEF SessionInv
<1> QED BY <1>1, <1>2, PTL DEF ObjectsSpec

\* MessagesFramed: ReceiveData of the server returns the messages SendData of the edge was
\* given, in order and whole, for any lengths, however the stream is cut into reads; only
\* the last one before a break may be cut short.
THEOREM MessagesFramed == ObjectsSpec => []Framing
<1>1. SessionInv => Framing
  <2> SUFFICES ASSUME SessionInv, NEW n \in DOMAIN received
               PROVE  \/ received[n] = Body(n)
                      \/ broken /\ n = Len(received) /\ IsPrefix(received[n], Body(n))
    BY DEF Framing
  <2>1. ChannelTypes /\ BodyInv /\ ReceivedInv BY DEF SessionInv, StreamInv
  <2>2. n \in 1 .. Len(received) BY <2>1 DEF ChannelTypes
  <2>3. Body(n) = Bytes(n, size[n]) BY DEF Body, Bytes
  <2>4. size[n] \in Nat
    <3>1. n \in 1 .. Len(size) BY <2>1, <2>2, StreamTypes DEF BodyInv
    <3> QED BY <2>1, <3>1, StreamTypes
  <2>5. CASE Whole(n) BY <2>3, <2>5 DEF Whole
  <2>6. CASE Cut(n)
    <3>1. PICK d \in 0 .. size[n] : received[n] = Bytes(n, d) BY <2>6 DEF Cut
    <3>2. IsPrefix(Bytes(n, d), Bytes(n, size[n])) BY <2>4, BytesFacts
    <3> QED BY <2>3, <2>6, <3>1, <3>2 DEF Cut
  <2> QED BY <2>1, <2>2, <2>5, <2>6 DEF ReceivedInv
<1> QED BY <1>1, SessionInvariant, PTL

\* PatientEdgesSafe: no thread of a session uses a connection that the other has freed and
\* no upload and no download of recipes that has begun ends the server, as long as the edge
\* waits for the response to its login and, of recipes, for the end, and the connection
\* holds; and the Finish of such an edge ends well.
THEOREM PatientEdgesSafe == ObjectsSpec => []PatientEdge
<1>1. SessionInv => PatientEdge BY DEF SessionInv, ConnectionInv, PatientInv, PatientEdge
<1> QED BY <1>1, SessionInvariant, PTL

\* WorkedOnIsLive: what the threads of a session work on is allocated as long as they run,
\* at every point of the connection's life, and the state is well typed.
THEOREM WorkedOnIsLive == ObjectsSpec => []ObjectsLive
<1>1. SessionInv => ObjectsLive
  <2> SUFFICES ASSUME SessionInv PROVE ObjectsLive OBVIOUS
  <2>1. ConnectionTypes /\ ThreadInv /\ HeapInv /\ ChannelTypes /\ BodyInv
    BY DEF SessionInv, ConnectionInv, StreamInv
  <2>2. ConnectionTypeOK
    <3>1. Len(back) <= 3 /\ back \in Seq({"response", "end", "notify"})
      <4>1. Written = {"response", "end", "notify"} BY DEF Written, Told
      <4>2. Once(back) BY DEF SessionInv, ConnectionInv, BackInv
      <4> QED BY <2>1, <4>1, <4>2, BackShort DEF ConnectionTypes
    <3>2. Len(data) <= len /\ (rpc \in {"body", "spin"} <=> Len(data) < len)
      <4>1. Len(data) \in Nat /\ len \in Nat /\ rpc \in {"length", "body", "spin", "false"}
        BY <2>1, StreamTypes DEF ChannelTypes
      <4>2. CASE rpc \in {"length", "false"}
        <5>1. Len(data) = 0 /\ len = 0 BY <2>1, <4>2 DEF BodyInv
        <5> QED BY <4>2, <5>1
      <4>3. CASE rpc \in {"body", "spin"} BY <2>1, <4>1, <4>3 DEF BodyInv
      <4> QED BY <4>1, <4>2, <4>3
    <3>3. ChannelTypeOK BY <2>1, <3>2 DEF ChannelTypes, ChannelTypeOK, Item
    <3> QED BY <2>1, <3>1, <3>3 DEF ConnectionTypeOK, ConnectionTypes, ThreadInv, Told
  <2>3. writer \in {"off", "run", "done"} BY <2>1 DEF HeapInv
  <2> SUFFICES ASSUME server = "up"
               PROVE  /\ sess \in {"wait", "respond", "join"} => {"recvBuf", "serverThreadObj"} \subseteq heap
                      /\ Working => Members \subseteq heap
                      /\ Working /\ login = "upload" => ReceiverUses \union InitUploadBuffer \subseteq heap
                      /\ Working /\ login = "recipe" => SenderUses \union InitDownloadRecipeBuffer \subseteq heap
                      /\ Working /\ login = "chunk" => DecoderUses \union InitDownloadChunkBuffer \subseteq heap
                      /\ writer = "run" => WriterUses \subseteq heap
    BY <2>2, <2>3 DEF ObjectsLive
  <2>4. Base \subseteq heap /\ (sess # "ended" => "recvBuf" \in heap) BY <2>1 DEF HeapInv
  <2>5. sess \in {"wait", "respond", "join"} => {"recvBuf", "serverThreadObj"} \subseteq heap
    BY <2>4 DEF Base, NewServerOptThread
  <2>6. ReceiverUses \subseteq Base /\ SenderUses \subseteq Base /\ DecoderUses \subseteq Base
        /\ "dataWriterObj" \in Base
    BY DEF ReceiverUses, SenderUses, DecoderUses, Base, NewServerOptThread, NewCryptoPrimitive
  <2>7. ASSUME Working \/ writer = "run"
        PROVE  NewClient \subseteq heap /\ login \in {"upload", "chunk", "recipe"}
    <3>1. HasClient
      <4>1. Working => login # "absent" /\ sess \in {"respond", "join"}
        BY <2>1 DEF Working, ThreadInv, ConnectionTypes
      <4>2. writer = "run" => login # "absent" /\ sess \in {"respond", "join"} BY <2>1 DEF HeapInv
      <4> QED BY <2>7, <4>1, <4>2 DEF HasClient
    <3> QED BY <2>1, <3>1, Logins DEF HeapInv, HasClient, ConnectionTypes
  <2>8. Working => Members \subseteq heap BY <2>7, ClientFacts
  <2>9. Working /\ login = "upload" => ReceiverUses \union InitUploadBuffer \subseteq heap
    BY <2>4, <2>6, <2>7, ClientFacts
  <2>10. Working /\ login = "recipe" => SenderUses \union InitDownloadRecipeBuffer \subseteq heap
    BY <2>4, <2>6, <2>7, ClientFacts
  <2>11. Working /\ login = "chunk" => DecoderUses \union InitDownloadChunkBuffer \subseteq heap
    BY <2>4, <2>6, <2>7, ClientFacts
  <2>12. writer = "run" => WriterUses \subseteq heap
    <3>1. writer = "run" => login = "upload" BY <2>1 DEF HeapInv
    <3>2. writer = "run" => InitUploadBuffer \subseteq heap BY <2>7, <3>1, ClientFacts
    <3> QED BY <2>4, <2>6, <3>2 DEF WriterUses, InitUploadBuffer, NewMessageQueue
  <2> QED BY <2>5, <2>8, <2>9, <2>10, <2>11, <2>12
<1> QED BY <1>1, SessionInvariant, PTL

\* EverythingReturned: a session that has ended, however it ended, and a server that has
\* closed leave nothing allocated but what the code never frees.
THEOREM EverythingReturned == ObjectsSpec => []ObjectsReturned
<1>1. SessionInv => ObjectsReturned
  <2> SUFFICES ASSUME SessionInv PROVE ObjectsReturned OBVIOUS
  <2>1. HeapInv /\ ThreadInv BY DEF SessionInv, ConnectionInv
  <2>2. sess = "ended" => heap \ Base \subseteq Leak BY <2>1 DEF HeapInv, HasClient
  <2>3. server = "down" => heap \subseteq Leak BY <2>1 DEF HeapInv
  <2>4. sess = "ended" /\ login # "absent" => ssl = "freed" \/ worker = "left" BY <2>1 DEF ThreadInv
  <2> QED BY <2>2, <2>3, <2>4 DEF ObjectsReturned, Base
<1> QED BY <1>1, SessionInvariant, PTL

-----------------------------------------------------------------------------
(* The threads of the server and the locks of the clients                  *)

\* A session has the lock of its client; a lock that is held has a holder that is at work.
LockInv ==
    /\ \A c \in Conn : pc[c] \in {"session", "stuck"} => holder[id[c]] = c
    /\ \A i \in Client : holder[i] # None =>
          pc[holder[i]] \in {"session", "stuck", "handler"} /\ id[holder[i]] = i
    /\ clientLockSetLock # None => pc[clientLockSetLock] \in {"wantclient", "handler"}
    /\ main = "handshake" => pc[fresh] = "idle"

Listed(c) == \E i \in DOMAIN thList : thList[i] = c

\* CTRLC knows of every thread, but for the one that main has just started.
ListInv ==
    /\ \A c \in Conn : pc[c] \in {"idle", "ended"} \/ Listed(c) \/ (main = "started" /\ fresh = c)
    /\ proc = "joining" /\ ~ unlisted => main # "started"
    /\ proc = "down" /\ ~ unlisted => \A c \in Conn : pc[c] \in {"idle", "ended"}

\* Types are kept by every step, and the table's lock is with the one thread that is between
\* taking it and taking its client's.
THEOREM TypeCorrect == Spec => []TypeOK
<1>1. Init => TypeOK
  <2> SUFFICES ASSUME Init PROVE TypeOK
    OBVIOUS
  <2>1. thList \in Seq(Conn) /\ clientLockIndex \subseteq Client BY DEF Init
  <2>2. interrupts \in 0 .. MaxInterrupts BY SessionAssumption DEF Init
  <2>3. \A c \in Conn : pc[c] = "idle" BY DEF Init
  <2> QED BY <2>1, <2>2, <2>3 DEF Init, TypeOK
<1>2. TypeOK /\ [Next]_vars => TypeOK'
  <2> SUFFICES ASSUME TypeOK, [Next]_vars PROVE TypeOK'
    OBVIOUS
  <2> USE SessionAssumption DEF TypeOK, mainVars, lockVars
  <2>1. ASSUME NEW c \in Conn, AcceptEdge(c) PROVE TypeOK'
    BY <2>1 DEF AcceptEdge
  <2>2. CASE Start
    BY <2>2 DEF Start
  <2>3. CASE Enlist
    <3>1. fresh \in Conn BY <2>3 DEF Enlist
    <3>2. thList' \in Seq(Conn) BY <2>3, <3>1 DEF Enlist
    <3> QED BY <2>3, <3>2 DEF Enlist
  <2>4. CASE ExitProcess
    BY <2>4 DEF ExitProcess
  <2>5. ASSUME NEW c \in Conn, LoginArrives(c) PROVE TypeOK'
    BY <2>5 DEF LoginArrives
  <2>6. ASSUME NEW c \in Conn, LockSet(c) PROVE TypeOK'
    <3>1. id[c] \in Client BY <2>6 DEF LockSet
    <3>2. \A d \in Conn : pc[d] # "wantclient" BY <2>6 DEF LockSet
    <3>3. \A d \in Conn : pc'[d] = "wantclient" => clientLockSetLock' = d BY <2>6, <3>2 DEF LockSet
    <3> QED BY <2>6, <3>1, <3>3 DEF LockSet
  <2>7. ASSUME NEW c \in Conn, LockClient(c) PROVE TypeOK'
    <3>1. \A d \in Conn : pc'[d] = "wantclient" => clientLockSetLock' = d BY <2>7 DEF LockClient
    <3>2. holder' \in [Client -> Conn \union {None}] BY <2>7 DEF LockClient
    <3> QED BY <2>7, <3>1, <3>2 DEF LockClient
  <2>8. ASSUME NEW c \in Conn, SessionEnds(c) PROVE TypeOK'
    BY <2>8 DEF SessionEnds
  <2>9. CASE Interrupt
    BY <2>9 DEF Interrupt
  <2>10. ASSUME NEW c \in Conn, InterruptAgain(c) \/ InterruptWorker(c) PROVE TypeOK'
    BY <2>10 DEF InterruptAgain, InterruptWorker
  <2>11. CASE CTRLC
    BY <2>11 DEF CTRLC
  <2>12. CASE UNCHANGED vars
    BY <2>12 DEF vars
  <2> QED
    BY <2>1, <2>2, <2>3, <2>4, <2>5, <2>6, <2>7, <2>8, <2>9, <2>10, <2>11, <2>12
    DEF Next, Thread, EdgeStep, ListenFails, LoginFails, SessionFails, JoinItself, CloseUnlisted
<1> QED BY <1>1, <1>2, PTL DEF Spec

\* The locks are exclusive and the list of threads is complete, with the types.
THEOREM Inductive == Spec => [](TypeOK /\ LockInv /\ ListInv)
<1>1. Init => LockInv /\ ListInv
  <2> SUFFICES ASSUME Init PROVE LockInv /\ ListInv
    OBVIOUS
  <2>1. \A c \in Conn : pc[c] = "idle" BY DEF Init
  <2>2. \A i \in Client : holder[i] = None BY DEF Init
  <2> QED BY <2>1, <2>2 DEF Init, LockInv, ListInv
<1>2. TypeOK /\ TypeOK' /\ LockInv /\ [Next]_vars => LockInv'
  <2> SUFFICES ASSUME TypeOK, TypeOK', LockInv, [Next]_vars PROVE LockInv'
    OBVIOUS
  <2> USE SessionAssumption DEF TypeOK, LockInv, mainVars, lockVars
  <2>1. ASSUME NEW c \in Conn, AcceptEdge(c) PROVE LockInv'
    BY <2>1 DEF AcceptEdge
  <2>2. CASE Start
    BY <2>2 DEF Start
  <2>3. CASE Enlist \/ ExitProcess \/ Interrupt \/ CTRLC \/ UNCHANGED vars
    BY <2>3 DEF Enlist, ExitProcess, Interrupt, CTRLC, vars
  <2>5. ASSUME NEW c \in Conn, LoginArrives(c) PROVE LockInv'
    BY <2>5 DEF LoginArrives
  <2>6. ASSUME NEW c \in Conn, LockSet(c) PROVE LockInv'
    BY <2>6 DEF LockSet
  <2>7. ASSUME NEW c \in Conn, LockClient(c) PROVE LockInv'
    BY <2>7 DEF LockClient, Free
  <2>8. ASSUME NEW c \in Conn, SessionEnds(c) PROVE LockInv'
    BY <2>8 DEF SessionEnds
  <2>9. ASSUME NEW c \in Conn, InterruptAgain(c) \/ InterruptWorker(c) PROVE LockInv'
    BY <2>9 DEF InterruptAgain, InterruptWorker, Alive
  <2> QED
    BY <2>1, <2>2, <2>3, <2>5, <2>6, <2>7, <2>8, <2>9
    DEF Next, Thread, EdgeStep, ListenFails, LoginFails, SessionFails, JoinItself, CloseUnlisted
<1>3. TypeOK /\ ListInv /\ [Next]_vars => ListInv'
  <2> SUFFICES ASSUME TypeOK, ListInv, [Next]_vars PROVE ListInv'
    OBVIOUS
  <2> USE SessionAssumption DEF TypeOK, ListInv, Listed, mainVars, lockVars
  <2>1. ASSUME NEW c \in Conn, AcceptEdge(c) PROVE ListInv'
    BY <2>1 DEF AcceptEdge
  <2>2. CASE Start
    BY <2>2 DEF Start
  <2>3. CASE Enlist
    <3>1. /\ \E i \in DOMAIN thList' : thList'[i] = fresh
          /\ \A d \in Conn : Listed(d) => Listed(d)'
      <4>1. thList \in Seq(Conn) /\ thList' = Append(thList, fresh) BY <2>3 DEF Enlist
      <4>2. ASSUME NEW q \in Seq(Conn), NEW x \in Conn
            PROVE  /\ DOMAIN q \subseteq DOMAIN Append(q, x) /\ \A i \in DOMAIN q : Append(q, x)[i] = q[i]
                   /\ Len(q) + 1 \in DOMAIN Append(q, x) /\ Append(q, x)[Len(q) + 1] = x
        OBVIOUS
      <4>3. fresh \in Conn BY <2>3 DEF Enlist
      <4>4. /\ DOMAIN thList \subseteq DOMAIN thList' /\ \A i \in DOMAIN thList : thList'[i] = thList[i]
            /\ Len(thList) + 1 \in DOMAIN thList' /\ thList'[Len(thList) + 1] = fresh
        BY <4>1, <4>2, <4>3
      <4>5. \E i \in DOMAIN thList' : thList'[i] = fresh BY <4>4
      <4>6. \A d \in Conn : Listed(d) => \E i \in DOMAIN thList' : thList'[i] = d BY <4>4
      <4> QED BY <4>5, <4>6
    <3>2. \A d \in Conn : pc[d] \in {"idle", "ended"} \/ Listed(d)'
      BY <2>3, <3>1 DEF Enlist
    <3> QED BY <2>3, <3>2 DEF Enlist
  <2>4. CASE ExitProcess \/ Interrupt \/ UNCHANGED vars
    BY <2>4 DEF ExitProcess, Interrupt, vars
  <2>5. ASSUME NEW c \in Conn, LoginArrives(c) \/ LockSet(c) \/ LockClient(c) \/ SessionEnds(c) PROVE ListInv'
    BY <2>5 DEF LoginArrives, LockSet, LockClient, SessionEnds, Running
  <2>6. ASSUME NEW c \in Conn, InterruptAgain(c) \/ InterruptWorker(c) PROVE ListInv'
    BY <2>6 DEF InterruptAgain, InterruptWorker, Alive
  <2>7. CASE CTRLC
    <3>1. \A i \in DOMAIN thList : pc[thList[i]] = "ended"
      BY <2>7 DEF CTRLC, JoinAll, ThreadsJoined
    <3> QED BY <2>7, <3>1 DEF CTRLC
  <2> QED
    BY <2>1, <2>2, <2>3, <2>4, <2>5, <2>6, <2>7
    DEF Next, Thread, EdgeStep, ListenFails, LoginFails, SessionFails, JoinItself, CloseUnlisted
<1> QED BY <1>1, <1>2, <1>3, TypeCorrect, PTL DEF Spec

\* Two connections of one client are never in a session at the same time, however many
\* connections there are and wherever ctrl + c strikes (ServerOptThread::Run).
THEOREM Exclusive == Spec => []OneSessionPerClient
<1>1. TypeOK /\ LockInv => OneSessionPerClient
  BY DEF TypeOK, LockInv, OneSessionPerClient
<1> QED BY <1>1, Inductive, PTL

\* CTRLC deletes the locks and saves the index with no thread running and no lock held, but
\* for a thread that main had started and not listed.
THEOREM Clean == Spec => []CleanShutdown
<1>1. TypeOK /\ LockInv /\ ListInv => CleanShutdown
  BY SessionAssumption DEF TypeOK, LockInv, ListInv, CleanShutdown
<1> QED BY <1>1, Inductive, PTL
=============================================================================
