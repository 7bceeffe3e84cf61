------------------------------ MODULE FrameStream ------------------------------
(***************************************************************************)
(* Framing on one direction of a bridge connection: encodeFrame() and      *)
(* FrameDecoder (src/src/net/src/protocol.cpp), the socket loops around    *)
(* them (socket_io.cpp), and the client that closes and connects again     *)
(* (client.cpp).  TCP keeps bytes in order and cuts them anywhere.         *)
(*                                                                         *)
(* Abstracted: a byte has Radix values and a length HeaderBytes of them.   *)
(***************************************************************************)
EXTENDS Integers, Sequences

CONSTANTS
    Radix, HeaderBytes,  \* 256 and 4
    Limit,               \* kMaxMessageBytes
    RecvBuffer,          \* what one recv() returns at most
    Payload,             \* the payloads sent
    MaxFrames, MaxConnections

Byte == 0 .. Radix - 1

\* A length without its last j bytes.
Shifted(n) ==
    LET drop[j \in 0 .. HeaderBytes] == IF j = 0 THEN n ELSE drop[j - 1] \div Radix
    IN  drop

StreamAssumption ==
    /\ Radix \in Nat \ {0, 1} /\ HeaderBytes \in Nat \ {0}
    /\ Limit \in Nat /\ RecvBuffer \in Nat \ {0}
    /\ MaxFrames \in Nat /\ MaxConnections \in Nat \ {0}
    \* encodeFrame()'s cast to 32 bits keeps the length of a payload.
    /\ \A p \in Payload : p \in Seq(Byte) /\ Shifted(Len(p))[HeaderBytes] = 0

VARIABLES
    sent,           \* the payloads handed to sendFrame() on this connection
    out, wire,      \* bytes writeAll() has still to send, and bytes under way
    broken,         \* the sender is gone
    buffer, failed, \* the decoder
    delivered,      \* the payloads recvFrame() returned
    closed,         \* recvFrame() returned false
    connections

vars == <<sent, out, wire, broken, buffer, failed, delivered, closed, connections>>

Init ==
    /\ sent = <<>> /\ out = <<>> /\ wire = <<>> /\ broken = FALSE
    /\ buffer = <<>> /\ failed = FALSE /\ delivered = <<>> /\ closed = FALSE
    /\ connections = 1

Smaller(a, b) == IF a < b THEN a ELSE b
Take(s, n) == SubSeq(s, 1, n)
Skip(s, n) == SubSeq(s, n + 1, Len(s))

-----------------------------------------------------------------------------
(* The codec *)

\* The length, most significant byte first.
Header(n) == [i \in 1 .. HeaderBytes |-> Shifted(n)[HeaderBytes - i] % Radix]

encodeFrame(payload) == Header(Len(payload)) \o payload

HasHeader == Len(buffer) >= HeaderBytes

Announced ==
    LET upTo[i \in 0 .. HeaderBytes] == IF i = 0 THEN 0 ELSE upTo[i - 1] * Radix + buffer[i]
    IN  upTo[HeaderBytes]

Oversize == Announced > Limit

Complete == Len(buffer) >= HeaderBytes + Announced

-----------------------------------------------------------------------------
(* The sender *)

SenderOnly == UNCHANGED <<buffer, failed, delivered, closed, connections>>

sendFrame(p) ==
    /\ ~broken /\ out = <<>> /\ Len(sent) < MaxFrames
    /\ sent' = Append(sent, p)
    /\ out' = encodeFrame(p)
    /\ UNCHANGED <<wire, broken>> /\ SenderOnly

\* writeAll(): one send(), which may take less than it is given.
Write(k) ==
    /\ k \in 1 .. Len(out)
    /\ wire' = wire \o Take(out, k) /\ out' = Skip(out, k)
    /\ UNCHANGED <<sent, broken>> /\ SenderOnly

\* send() fails, or the process is gone: a frame may be cut for ever.
Breaks ==
    /\ ~broken /\ broken' = TRUE
    /\ out' = <<>>
    /\ UNCHANGED <<sent, wire>> /\ SenderOnly

-----------------------------------------------------------------------------
(* The receiver: recvFrame() *)

ReceiverOnly == UNCHANGED <<sent, out, broken, connections>>

\* FrameDecoder::next() has a frame.
Pop ==
    /\ ~closed /\ ~failed /\ HasHeader /\ ~Oversize /\ Complete
    /\ delivered' = Append(delivered, SubSeq(buffer, HeaderBytes + 1, HeaderBytes + Announced))
    /\ buffer' = Skip(buffer, HeaderBytes + Announced)
    /\ UNCHANGED <<wire, failed, closed>> /\ ReceiverOnly

\* ... or finds a length over the limit, and latches.
Refuse ==
    /\ ~closed /\ ~failed /\ HasHeader /\ Oversize
    /\ failed' = TRUE /\ closed' = TRUE
    /\ UNCHANGED <<wire, buffer, delivered>> /\ ReceiverOnly

\* Mutant: the length is not looked at before the whole message is there.
StarvedByLength == ~closed /\ ~failed /\ (HasHeader => ~Complete)

\* ... or waits for more bytes.
Starved == ~closed /\ ~failed /\ (HasHeader => ~Oversize /\ ~Complete)

\* Mutant: recv() waits until its buffer is full.
RecvFull(k) ==
    /\ Starved
    /\ k = RecvBuffer /\ k <= Len(wire)
    /\ buffer' = buffer \o Take(wire, k) /\ wire' = Skip(wire, k)
    /\ UNCHANGED <<failed, delivered, closed>> /\ ReceiverOnly

Recv(k) ==
    /\ Starved
    /\ k \in 1 .. Smaller(RecvBuffer, Len(wire))
    /\ buffer' = buffer \o Take(wire, k) /\ wire' = Skip(wire, k)
    /\ UNCHANGED <<failed, delivered, closed>> /\ ReceiverOnly

\* Mutant: what is left of a frame that was cut off counts as one.
DisconnectedFlushes ==
    /\ Starved /\ broken /\ wire = <<>>
    /\ closed' = TRUE
    /\ delivered' = IF HasHeader THEN Append(delivered, Skip(buffer, HeaderBytes)) ELSE delivered
    /\ UNCHANGED <<wire, buffer, failed>> /\ ReceiverOnly

\* recv() returns 0 or an error.
Disconnected ==
    /\ Starved /\ broken /\ wire = <<>>
    /\ closed' = TRUE
    /\ UNCHANGED <<wire, buffer, failed, delivered>> /\ ReceiverOnly

\* BridgeClient::connect(): close() first, with a new decoder; at any point of
\* the connection, also inside a frame.
Reconnect ==
    /\ connections < MaxConnections /\ connections' = connections + 1
    /\ sent' = <<>> /\ out' = <<>> /\ wire' = <<>> /\ broken' = FALSE
    /\ buffer' = <<>> /\ failed' = FALSE
    /\ delivered' = <<>> /\ closed' = FALSE

Writes == \E k \in 1 .. Len(out) : Write(k)
Receives == Pop \/ Refuse \/ Disconnected \/ \E k \in 1 .. RecvBuffer : Recv(k)

Next == (\E p \in Payload : sendFrame(p)) \/ Writes \/ Breaks \/ Receives \/ Reconnect

Spec == Init /\ [][Next]_vars

\* Both ends keep going; nobody need send, break off or connect again.
Fairness == WF_vars(Writes) /\ WF_vars(Receives)

-----------------------------------------------------------------------------
(* Properties *)

TypeOK ==
    /\ sent \in Seq(Payload)
    /\ {out, wire, buffer} \subseteq Seq(Byte)
    /\ {broken, failed, closed} \subseteq BOOLEAN
    /\ connections \in 1 .. MaxConnections

\* The refinement: wherever the bytes are cut, on a connection that follows a
\* broken one too, what comes out is what was sent, whole and in order.
Channel == INSTANCE FrameChannel
ImplementsChannel == Channel!Spec

\* The connection is given up for a reason: the sender is gone, or the payload
\* that comes next is over the limit, and not merely at it.
RefusedForCause ==
    closed => broken \/ (Len(delivered) < Len(sent) /\ Len(sent[Len(delivered) + 1]) > Limit)

\* "rejected without allocating it": the buffer holds at most one message within
\* the limit and what one recv() brought, whatever length a peer announces.
BufferBounded == Len(buffer) < HeaderBytes + Limit + RecvBuffer

\* The limit on a message is kept, on either side of it, and nothing else is
\* limited: kMaxMessageBytes in protocol.cpp.
LimitKept == TypeOK /\ RefusedForCause /\ BufferBounded

\* A frame within the limit, with none over it before it, comes out of the other
\* end unless the connection is broken or made anew.
Deliverable(n) == n <= Len(sent) /\ \A i \in 1 .. n : Len(sent[i]) <= Limit
FramesArrive ==
    \A n \in 1 .. MaxFrames :
        Deliverable(n) ~> (Len(delivered) >= n \/ broken \/ ~Deliverable(n))
=============================================================================
