---------------------------- MODULE StreamServer ----------------------------
(***************************************************************************)
(* Services that take anyMSG messages from byte streams: the TCP services    *)
(* of Ethernet, Wi-Fi and 4G, and the RFCOMM service of Bluetooth.  A stream  *)
(* arrives in pieces of any size; a message starts with its length.  Each    *)
(* service has one connection at a time, the others wait in its backlog.    *)
(*                                                                         *)
(* A byte is <<c, k, n>>: byte n of message k of connection c; the first two  *)
(* are the length field.                                                    *)
(***************************************************************************)
EXTENDS Naturals, FiniteSets, SequencesExt

CONSTANTS
    Clients,       \* connections
    Tcp, Rfcomm,   \* the services, by kind
    ServiceOf,     \* the service of a connection
    MessagesOf(_), \* what a client sends: a sequence of kinds of message
    LengthOf(_),   \* the bytes of a message of a kind
    ChunkSize,     \* the receive buffer of a TCP service
    None

Services == Tcp \cup Rfcomm
Kinds == {"good", "malformed", "badLength"}
LengthField == 2

ASSUME StreamAssumption ==
    /\ ServiceOf \in [Clients -> Services]
    /\ \A c \in Clients : MessagesOf(c) \in Seq(Kinds)
    /\ \A k \in Kinds : LengthOf(k) \in Nat /\ LengthOf(k) > LengthField
    /\ ChunkSize \in Nat \ {0}
    /\ None \notin Clients

VARIABLES
    backlog,   \* of each service: the connections that wait
    client,    \* of each service: the connection it serves
    input,     \* the bytes of the last recv that are not looked at yet
    buffer,    \* the bytes of the message it puts together
    stream,    \* of each connection: what was not received yet
    ended,     \* connections that are closed, by either end
    handed     \* the messages that were committed to the RX ring

vars == <<backlog, client, input, buffer, stream, ended, handed>>

BytesOf(c) ==
    FlattenSeq([k \in DOMAIN MessagesOf(c) |-> [n \in 1 .. LengthOf(MessagesOf(c)[k]) |-> <<c, k, n>>]])
KindOf(b) == MessagesOf(b[1])[b[2]]

\* What the first two bytes say of the message, and whether they are in range.
MsgLength(s) == LengthOf(KindOf(buffer[s][1]))
LengthInRange(s) == KindOf(buffer[s][1]) /= "badLength"

Smaller(a, b) == IF a < b THEN a ELSE b

Init ==
    /\ backlog = [s \in Services |-> <<>>]
    /\ client = [s \in Services |-> None]
    /\ input = [s \in Services |-> <<>>]
    /\ buffer = [s \in Services |-> <<>>]
    /\ stream = [c \in Clients |-> BytesOf(c)]
    /\ ended = {}
    /\ handed = [c \in Clients |-> <<>>]

-----------------------------------------------------------------------------
(* The clients. *)

Waiting(c) == Contains(backlog[ServiceOf[c]], c)
Served(c) == client[ServiceOf[c]] = c

Connect(c) ==
    /\ ~Waiting(c) /\ ~Served(c) /\ c \notin ended
    /\ backlog' = [backlog EXCEPT ![ServiceOf[c]] = Append(@, c)]
    /\ UNCHANGED <<client, input, buffer, stream, ended, handed>>

\* The client closes its end, perhaps in the middle of a message; what was not
\* received by then does not arrive.
End(c) ==
    /\ (Waiting(c) \/ Served(c)) /\ c \notin ended
    /\ ended' = ended \cup {c}
    /\ UNCHANGED <<backlog, client, input, buffer, stream, handed>>

-----------------------------------------------------------------------------
(* The services. *)

\* Mutant: the stream context of the connection before is used again.
AcceptKeepsBuffer(s) ==
    /\ client[s] = None /\ backlog[s] /= <<>>
    /\ client' = [client EXCEPT ![s] = Head(backlog[s])]
    /\ backlog' = [backlog EXCEPT ![s] = Tail(@)]
    /\ UNCHANGED <<input, buffer, stream, ended, handed>>

Accept(s) ==
    /\ client[s] = None /\ backlog[s] /= <<>>
    /\ client' = [client EXCEPT ![s] = Head(backlog[s])]
    /\ backlog' = [backlog EXCEPT ![s] = Tail(@)]
    /\ input' = [input EXCEPT ![s] = <<>>]
    /\ buffer' = [buffer EXCEPT ![s] = <<>>]
    /\ UNCHANGED <<stream, ended, handed>>

\* Whatever the client still sends is lost with the connection.
Close(s) ==
    /\ client' = [client EXCEPT ![s] = None]
    /\ stream' = [stream EXCEPT ![client[s]] = <<>>]
    /\ ended' = ended \cup {client[s]}
    /\ UNCHANGED backlog

StaysOpen == UNCHANGED <<backlog, client, ended>>

\* All bytes are looked at and more are needed.
Waits(s) ==
    /\ client[s] /= None /\ input[s] = <<>>
    /\ IF Len(buffer[s]) < LengthField THEN TRUE
       ELSE LengthInRange(s) /\ Len(buffer[s]) < MsgLength(s)

Received(s, n) ==
    /\ client[s] \notin ended /\ n \in 1 .. Len(stream[client[s]])
    /\ input' = [input EXCEPT ![s] = SubSeq(stream[client[s]], 1, n)]
    /\ stream' = [stream EXCEPT ![client[s]] = SubSeq(@, n + 1, Len(@))]

\* recv of a TCP service: up to a buffer full, cut anywhere.
Recv(s) ==
    /\ s \in Tcp /\ Waits(s)
    /\ \E n \in 1 .. ChunkSize : Received(s, n)
    /\ StaysOpen /\ UNCHANGED <<buffer, handed>>

\* recv of the RFCOMM service: MSG_WAITALL, the length and then the rest.
RecvAll(s) ==
    /\ s \in Rfcomm /\ Waits(s)
    /\ Received(s, IF buffer[s] = <<>> THEN LengthField ELSE MsgLength(s) - LengthField)
    /\ StaysOpen /\ UNCHANGED <<buffer, handed>>

\* Mutant: the service goes on waiting for the rest of the message.
RecvEndsBetween(s) ==
    /\ Waits(s) /\ client[s] \in ended
    /\ IF buffer[s] = <<>> THEN Close(s) /\ UNCHANGED <<input, buffer, handed>>
       ELSE UNCHANGED vars

\* The end of the stream, or a reset: what it has of a message is dropped.
RecvEnds(s) ==
    /\ Waits(s) /\ client[s] \in ended
    /\ Close(s) /\ UNCHANGED <<input, buffer, handed>>

\* The bytes that are copied: what is needed, or what there is.
Take(s, needed) ==
    LET n == Smaller(needed, Len(input[s])) IN
    /\ buffer' = [buffer EXCEPT ![s] = @ \o SubSeq(input[s], 1, n)]
    /\ input' = [input EXCEPT ![s] = SubSeq(@, n + 1, Len(@))]

CopyLength(s) ==
    /\ input[s] /= <<>> /\ Len(buffer[s]) < LengthField
    /\ Take(s, LengthField - Len(buffer[s]))
    /\ StaysOpen /\ UNCHANGED <<stream, handed>>

\* A length out of range: nothing tells where the next message begins.
BadLength(s) ==
    /\ Len(buffer[s]) >= LengthField /\ ~LengthInRange(s)
    /\ buffer' = [buffer EXCEPT ![s] = <<>>]
    /\ input' = [input EXCEPT ![s] = <<>>]
    /\ Close(s) /\ UNCHANGED handed

\* Mutant: all the bytes there are are copied.
NeededUnbounded(s) == Len(input[s])
Needed(s) == MsgLength(s) - Len(buffer[s])

CopyBody(s) ==
    /\ input[s] /= <<>> /\ Len(buffer[s]) >= LengthField
    /\ LengthInRange(s) /\ Len(buffer[s]) < MsgLength(s)
    /\ Take(s, Needed(s))
    /\ StaysOpen /\ UNCHANGED <<stream, handed>>

Complete(s) == Len(buffer[s]) >= LengthField /\ LengthInRange(s) /\ Len(buffer[s]) >= MsgLength(s)

\* The message is decoded, its flags are set, it goes into the RX ring.
HandleDatagram(s) ==
    /\ Complete(s) /\ KindOf(buffer[s][1]) = "good"
    /\ handed' = [handed EXCEPT ![buffer[s][1][1]] = Append(@, buffer[s][1][2])]
    /\ buffer' = [buffer EXCEPT ![s] = <<>>]
    /\ StaysOpen /\ UNCHANGED <<input, stream>>

\* Mutant: a TCP service goes on after an error.
RefusedGoesOn(s) == StaysOpen /\ UNCHANGED <<input, stream>>

\* A TCP service closes the connection, the RFCOMM service goes on with it.
Refused(s) ==
    IF s \in Tcp THEN Close(s) /\ input' = [input EXCEPT ![s] = <<>>]
                 ELSE StaysOpen /\ UNCHANGED <<input, stream>>

\* It cannot be decoded, or there is no frame or no room in the ring.
HandleFails(s) ==
    /\ Complete(s)
    /\ buffer' = [buffer EXCEPT ![s] = <<>>]
    /\ Refused(s)
    /\ UNCHANGED handed

-----------------------------------------------------------------------------
HandleTcpBytes(s) == CopyLength(s) \/ BadLength(s) \/ CopyBody(s) \/ HandleDatagram(s) \/ HandleFails(s)
Serve(s) == Accept(s) \/ Recv(s) \/ RecvAll(s) \/ RecvEnds(s) \/ HandleTcpBytes(s)

Idle == (\A c \in Clients : c \in ended /\ ~Waiting(c) /\ ~Served(c)) /\ UNCHANGED vars

Next ==
    \/ \E s \in Services : Serve(s)
    \/ \E c \in Clients : Connect(c) \/ End(c)
    \/ Idle

Spec == Init /\ [][Next]_vars

\* The receiving threads run; nothing is asked of the clients.
Fairness == \A s \in Services : WF_vars(Serve(s))
LiveSpec == Spec /\ Fairness

-----------------------------------------------------------------------------
TypeOK ==
    /\ \A s \in Services : backlog[s] \in Seq(Clients) /\ client[s] \in Clients \cup {None}
    /\ ended \subseteq Clients
    /\ \A c \in Clients : handed[c] \in Seq(DOMAIN MessagesOf(c))

\* However the stream is cut up, what a service has put together is the
\* beginning of one message of the connection it serves, and what it has not
\* looked at and what is on its way are the bytes that follow.
NothingMixed ==
    TypeOK /\ \A s \in Services : client[s] /= None =>
        LET c == client[s] IN
        /\ Len(handed[c]) <= Len(MessagesOf(c))
        /\ IsSuffix(buffer[s] \o input[s] \o stream[c], BytesOf(c))
        /\ buffer[s] /= <<>> => /\ buffer[s][1][3] = 1
                                /\ \A n \in DOMAIN buffer[s] : buffer[s][n][2] = buffer[s][1][2]

Pipe == INSTANCE MessagePipe WITH Lenient <- LAMBDA c : ServiceOf[c] \in Rfcomm

\* A service is such a pipe: TCP leaves out nothing before the connection ends.
ImplementsPipe == Pipe!Spec

\* A connection that waits is served in the end if the clients before it end
\* theirs: no stream, however cut up, malformed or broken off, blocks a service.
EveryoneIsServed ==
    (\A c \in Clients : <>(c \in ended)) =>
        \A c \in Clients : Waiting(c) ~> Served(c)
-----------------------------------------------------------------------------
(* The inductive invariant. *)

Byte == Clients \X Nat \X Nat

Typed ==
    /\ backlog \in [Services -> Seq(Clients)]
    /\ client \in [Services -> Clients \cup {None}]
    /\ input \in [Services -> Seq(Byte)] /\ buffer \in [Services -> Seq(Byte)]
    /\ stream \in [Clients -> Seq(Byte)]
    /\ ended \subseteq Clients
    /\ handed \in [Clients -> Seq(Nat)]

\* A connection waits once, at its own service, and not while it is served.
Queues ==
    \A s \in Services :
        /\ client[s] /= None => ServiceOf[client[s]] = s
        /\ \A i \in DOMAIN backlog[s] :
              /\ ServiceOf[backlog[s][i]] = s
              /\ backlog[s][i] /= client[s]
              /\ \A j \in DOMAIN backlog[s] : backlog[s][i] = backlog[s][j] => i = j

\* Nothing was read of a connection before it is accepted.
Untouched ==
    \A c \in Clients : Waiting(c) \/ (c \notin ended /\ ~Served(c)) =>
        stream[c] = BytesOf(c) /\ handed[c] = <<>>

\* A message of c, or the end of its stream, begins after p bytes, and its number.
Boundary(c, p) == p < Len(BytesOf(c)) => BytesOf(c)[p + 1][3] = 1
MessageAfter(c, p) ==
    IF p < Len(BytesOf(c)) THEN BytesOf(c)[p + 1][2] ELSE Len(MessagesOf(c)) + 1

LastHanded(c) == IF handed[c] = <<>> THEN 0 ELSE handed[c][Len(handed[c])]

\* Of the connection it serves a service has what follows a message, up to the
\* end of the stream, and not more than one message of it put together.
InMessage(s, c, p) ==
    LET k == MessageAfter(c, p) IN
    /\ Boundary(c, p)
    /\ buffer[s] \o input[s] \o stream[c] = SubSeq(BytesOf(c), p + 1, Len(BytesOf(c)))
    /\ buffer[s] /= <<>> => Len(buffer[s]) <= LengthOf(MessagesOf(c)[k])
    /\ Len(handed[c]) < k /\ \A i \in DOMAIN handed[c] : handed[c][i] \in 1 .. k - 1
    /\ s \in Tcp => LastHanded(c) = k - 1

\* Between two connections nothing is left that could be taken for a message.
Between(s) ==
    /\ input[s] = <<>>
    /\ Len(buffer[s]) >= LengthField => LengthInRange(s)
    /\ ~Complete(s)

Serves(s) ==
    IF client[s] = None THEN Between(s)
    ELSE \E p \in 0 .. Len(BytesOf(client[s])) : InMessage(s, client[s], p)
Serving == \A s \in Services : Serves(s)

HandedInRange == \A c \in Clients : handed[c] \in Seq(DOMAIN MessagesOf(c))

StreamInv == Typed /\ Queues /\ Untouched /\ Serving /\ HandedInRange
=============================================================================
