------------------------------ MODULE Channel ------------------------------
(***************************************************************************)
(* One direction of a connection: SendData on one side and ReceiveData on  *)
(* the other, over a TLS stream that may break at any time.                *)
(*                                                                         *)
(* A message is a length and a body.  Message n is the item <<n, 0>> for   *)
(* its length, which is written and read at once, and the items <<n, i>>   *)
(* for the bytes of its body, of which a read returns as many as there     *)
(* are.  SSL_write writes all it is given or fails; SIGPIPE is ignored.    *)
(***************************************************************************)
EXTENDS Integers, Sequences, SequencesExt

CONSTANTS
    Lengths, \* bound: lengths of messages
    MaxMsgs  \* bound: messages sent

ASSUME ChannelAssumption == Lengths \subseteq Nat /\ MaxMsgs \in Nat

VARIABLES
    wire,      \* items written and not read
    broken,    \* the connection is gone: no more items, and writes fail
    wpc, size, \* SendData: where it stands, the lengths of the messages so far
    sent,      \* SendData: what it returned, for every message
    rpc, len,  \* ReceiveData: where it stands, the length it has read
    data,      \* ReceiveData: the body as far as it was read
    received   \* what ReceiveData returned as messages

sendVars == <<wpc, size, sent>>
receiveVars == <<rpc, len, data, received>>
channelVars == <<wire, broken, sendVars, receiveVars>>

Body(n) == [i \in 1 .. size[n] |-> <<n, i>>]

ChannelInit ==
    /\ wire = << >> /\ broken = FALSE
    /\ wpc = "idle" /\ size = << >> /\ sent = << >>
    /\ rpc = "length" /\ len = 0 /\ data = << >> /\ received = << >>

-----------------------------------------------------------------------------
(* SendData                                                                *)

SendReturns(ok) == sent' = Append(sent, ok) /\ wpc' = "idle"

\* The length of the next message is written.  Without a body that is all.
SendLength(l) ==
    /\ wpc = "idle" /\ ~ broken /\ Len(size) < MaxMsgs
    /\ size' = Append(size, l)
    /\ wire' = Append(wire, <<Len(size) + 1, 0>>)
    /\ IF l = 0 THEN SendReturns(TRUE) ELSE wpc' = "body" /\ UNCHANGED sent
    /\ UNCHANGED <<broken, receiveVars>>

SendLengthFails(l) ==
    /\ wpc = "idle" /\ broken /\ Len(size) < MaxMsgs
    /\ size' = Append(size, l)
    /\ SendReturns(FALSE)
    /\ UNCHANGED <<wire, broken, receiveVars>>

SendBody ==
    /\ wpc = "body" /\ ~ broken
    /\ wire' = wire \o Body(Len(size))
    /\ SendReturns(TRUE)
    /\ UNCHANGED <<size, broken, receiveVars>>

\* SSL_write returns -1, which is added to sendedSize; compared with the unsigned
\* dataSize that is a large number, and the loop is left.
SendBodyFails ==
    /\ wpc = "body" /\ broken
    /\ SendReturns(TRUE)
    /\ UNCHANGED <<size, wire, broken, receiveVars>>

\* SSL_write returns 0: the loop goes on for ever.
SendBodySpins ==
    /\ wpc = "body" /\ broken
    /\ wpc' = "spin"
    /\ UNCHANGED <<size, sent, wire, broken, receiveVars>>

-----------------------------------------------------------------------------
(* ReceiveData                                                             *)

ReceiveReturns(body) ==
    /\ received' = Append(received, body)
    /\ rpc' = "length" /\ len' = 0 /\ data' = << >>

ReceiveLength ==
    /\ rpc = "length" /\ wire # << >>
    /\ wire' = Tail(wire)
    /\ LET l == IF Head(wire)[2] = 0 THEN size[Head(wire)[1]] ELSE 0 IN
          IF l = 0 THEN ReceiveReturns(<< >>)
          ELSE rpc' = "body" /\ len' = l /\ UNCHANGED <<data, received>>
    /\ UNCHANGED <<broken, sendVars>>

\* Nothing more comes: false is returned, and the session ends.
ReceiveLengthFails ==
    /\ rpc = "length" /\ wire = << >> /\ broken
    /\ rpc' = "false"
    /\ UNCHANGED <<wire, broken, sendVars, len, data, received>>

\* Fault: a full body is asked for every time.
RestAlwaysAll == len

\* What is asked for: the rest of the body.
Rest == len - Len(data)

\* A read returns between one byte and all that was asked for.
ReceiveBody ==
    /\ rpc = "body" /\ wire # << >>
    /\ \E j \in 1 .. (IF Rest < Len(wire) THEN Rest ELSE Len(wire)) :
          /\ wire' = SubSeq(wire, j + 1, Len(wire))
          /\ LET d == data \o SubSeq(wire, 1, j) IN
                IF Len(d) < len THEN data' = d /\ UNCHANGED <<rpc, len, received>>
                ELSE ReceiveReturns(d)
    /\ UNCHANGED <<broken, sendVars>>

\* SSL_read returns 0 or -1, which is added to receivedSize: the loop goes on.
ReceiveBodyFails ==
    /\ rpc = "body" /\ wire = << >> /\ broken
    /\ rpc' = "spin"
    /\ UNCHANGED <<wire, broken, sendVars, len, data, received>>

\* With -1, receivedSize gets smaller until the int overflows.  The result is undefined:
\* the loop does not end, or receivedSize becomes positive and the message is returned
\* with what was read of it.
ReceiveOverflows ==
    /\ rpc = "spin"
    /\ ReceiveReturns(data)
    /\ UNCHANGED <<wire, broken, sendVars>>

\* The connection breaks, and some of what was written is lost.
Break ==
    /\ ~ broken
    /\ broken' = TRUE
    /\ \E k \in 0 .. Len(wire) : wire' = SubSeq(wire, 1, k)
    /\ UNCHANGED <<sendVars, receiveVars>>

Send == (\E l \in Lengths : SendLength(l) \/ SendLengthFails(l)) \/ SendBody \/ SendBodyFails \/ SendBodySpins
Receive == ReceiveLength \/ ReceiveBody \/ ReceiveBodyFails

-----------------------------------------------------------------------------
(* Properties                                                              *)

\* Types; a body that is not complete yet is a proper beginning of a message.
ChannelTypeOK ==
    /\ broken \in BOOLEAN /\ wpc \in {"idle", "body", "spin"} /\ size \in Seq(Lengths)
    /\ sent \in Seq(BOOLEAN) /\ Len(sent) = Len(size) - (IF wpc = "idle" THEN 0 ELSE 1)
    /\ rpc \in {"length", "body", "spin", "false"}
    /\ wire \in Seq((1 .. MaxMsgs) \X Nat)
    /\ len \in Nat /\ Len(data) <= len /\ (rpc \in {"body", "spin"} <=> Len(data) < len)

\* ReceiveData returns the messages of SendData, in order, each from its first byte to
\* its last, however the stream is cut into reads; only the last one before a break may
\* be cut short.
Framing ==
    \A n \in DOMAIN received :
        \/ received[n] = Body(n)
        \/ broken /\ n = Len(received) /\ IsPrefix(received[n], Body(n))
=============================================================================
