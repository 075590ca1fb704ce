------------------------------ MODULE Framing ------------------------------
(***************************************************************************)
(* ClientSocket::ReadHandler(): how the byte stream of the server, which   *)
(* async_read_some() delivers in chunks of any size, is cut into packets.  *)
(* Bytes are numbered 1, 2, ... in the order the server sent them; a       *)
(* MessageBuffer is the sequence of bytes it holds.                        *)
(***************************************************************************)
EXTENDS Integers, Sequences, FiniteSets

CONSTANTS
    HeaderSize, \* sizeof(DiscordClientPktHeader)
    BlockSize,  \* READ_BLOCK_SIZE
    MaxPayload, \* bound: payload length
    MaxSent     \* bound: packets the server sends

ASSUME FramingBounds ==
    /\ HeaderSize \in Nat \ {0} /\ BlockSize \in Nat \ {0}
    /\ MaxPayload \in Nat /\ MaxSent \in Nat

\* What the server sends.  fate is what the client makes of the packet: its
\* header is rejected, its handler returns Error, or it is accepted.
Packets == [len : 0 .. MaxPayload, fate : {"ok", "error", "badHeader"}]

VARIABLES
    stream,     \* the packets the server sends
    arrived,    \* number of bytes read from the socket
    readBuffer, \* _readBuffer: positions and storage size
    header,     \* _headerBuffer: the bytes written to it
    payload,    \* _packetBuffer: the bytes written to it
    size,       \* _packetBuffer: its storage size
    handled,    \* history: the payloads given to ReadDataHandler()
    pc          \* "idle" while a read is outstanding, "loop", "payload", or
                \* the outcomes "closed" and "aborted" (a failed ASSERT)

vars == <<stream, arrived, readBuffer, header, payload, size, handled, pc>>

\* The bytes of packet k are those after StartOf[k], HeaderSize of them header.
StartOf ==
    LET start[k \in 1 .. Len(stream) + 1] ==
            IF k = 1 THEN 0 ELSE start[k - 1] + HeaderSize + stream[k - 1].len
    IN start

\* The bytes after position p, n of them.
Bytes(p, n) == [i \in 1 .. n |-> p + i]

HeaderOf(k)  == Bytes(StartOf[k], HeaderSize)
PayloadOf(k) == Bytes(StartOf[k] + HeaderSize, stream[k].len)

Init ==
    /\ stream \in UNION {[1 .. n -> Packets] : n \in 1 .. MaxSent}
    /\ arrived = 0
    /\ readBuffer = [rpos |-> 0, wpos |-> 0, size |-> BlockSize]
    /\ header = << >> /\ payload = << >> /\ size = 0
    /\ handled = << >> /\ pc = "idle"

-----------------------------------------------------------------------------
(***************************************************************************)
(* MessageBuffer                                                           *)
(***************************************************************************)
ActiveSize(b)     == b.wpos - b.rpos
RemainingSpace(b) == b.size - b.wpos

Buffer(r, w, s) == [rpos |-> r, wpos |-> w, size |-> s]

ReadCompleted(b, n)  == Buffer(b.rpos + n, b.wpos, b.size)
WriteCompleted(b, n) == Buffer(b.rpos, b.wpos + n, b.size)

Normalize(b) == Buffer(0, ActiveSize(b), b.size)

EnsureFreeSpace(b) ==
    IF RemainingSpace(b) = 0 THEN Buffer(b.rpos, b.wpos, (b.size * 3) \div 2) ELSE b

\* The bytes ReadPointer points at, n of them: the last ActiveSize bytes that
\* arrived are unread.
Unread(n) == Bytes(arrived - ActiveSize(readBuffer), n)

\* Mutant of Lesser: one byte at a time.
LesserOne(a, b) == IF a = 0 \/ b = 0 THEN 0 ELSE 1

\* std::min
Lesser(a, b) == IF a < b THEN a ELSE b

-----------------------------------------------------------------------------
\* AsyncRead(): the unread bytes move to the front and a read is started.
AsyncRead(b) == EnsureFreeSpace(Normalize(b))

\* ReadHandlerInternal(): async_read_some() delivered n bytes.
ReadHandlerInternal ==
    /\ pc = "idle"
    /\ \E n \in 1 .. RemainingSpace(readBuffer) :
        /\ arrived + n <= StartOf[Len(stream) + 1]
        /\ arrived' = arrived + n
        /\ readBuffer' = WriteCompleted(readBuffer, n)
    /\ pc' = "loop"
    /\ UNCHANGED <<stream, header, payload, size, handled>>

\* The loop ends when the buffer is used up.
LoopEnds ==
    /\ pc = "loop" /\ ActiveSize(readBuffer) = 0
    /\ readBuffer' = AsyncRead(readBuffer)
    /\ pc' = "idle"
    /\ UNCHANGED <<stream, arrived, header, payload, size, handled>>

\* ReadHeaderHandler(): which packet a complete header announces.
Announced(h) == {k \in 1 .. Len(stream) : h = HeaderOf(k)}
Accepts(h)   == \E k \in Announced(h) : stream[k].fate # "badHeader"
LengthIn(h)  == stream[CHOOSE k \in Announced(h) : TRUE].len

\* Mutant of HeaderAccepted: the loop starts over after a header.
HeaderAcceptedContinues(h) == size' = LengthIn(h) /\ pc' = "loop"

\* _packetBuffer is given the size of the payload, and the body goes on.
HeaderAccepted(h) == size' = LengthIn(h) /\ pc' = "payload"

\* A part of the loop came to its break with n bytes taken from the buffer:
\* ASSERT(packet.GetActiveSize() == 0).
Break(n) ==
    IF ActiveSize(readBuffer) = n
       THEN /\ readBuffer' = AsyncRead(ReadCompleted(readBuffer, n))
            /\ pc' = "idle"
       ELSE pc' = "aborted" /\ UNCHANGED readBuffer

\* The header part of the loop body.
ReadHeader ==
    LET n == Lesser(ActiveSize(readBuffer), HeaderSize - Len(header)) IN
    /\ pc = "loop" /\ ActiveSize(readBuffer) > 0 /\ Len(header) < HeaderSize
    /\ header' = header \o Unread(n)
    /\ \/ /\ Len(header') < HeaderSize
          /\ Break(n) /\ UNCHANGED size
       \/ /\ Len(header') = HeaderSize
          /\ readBuffer' = ReadCompleted(readBuffer, n)
          /\ IF Accepts(header')
                THEN HeaderAccepted(header')
                ELSE pc' = "closed" /\ UNCHANGED size
    /\ UNCHANGED <<stream, arrived, payload, handled>>

\* A header received earlier is waiting for its payload.
HeaderPresent ==
    /\ pc = "loop" /\ ActiveSize(readBuffer) > 0 /\ Len(header) = HeaderSize
    /\ pc' = "payload"
    /\ UNCHANGED <<stream, arrived, readBuffer, header, payload, size, handled>>

\* Mutant of HandlePacket: the header buffer is not reset.
HandlePacketKeepsHeader(data) ==
    /\ handled' = Append(handled, data)
    /\ payload' = << >> /\ size' = 0 /\ pc' = "loop" /\ UNCHANGED header

\* ReadDataHandler() takes the payload out of _packetBuffer; the header buffer
\* is reset; an Error closes the socket.
HandlePacket(data) ==
    /\ handled' = Append(handled, data)
    /\ header' = << >> /\ payload' = << >> /\ size' = 0
    /\ pc' = IF \E k \in Announced(header) : stream[k].fate = "ok" THEN "loop" ELSE "closed"

\* The payload part of the loop body.
ReadPayload ==
    LET n == Lesser(ActiveSize(readBuffer), size - Len(payload)) IN
    /\ pc = "payload"
    /\ \/ /\ Len(payload) + n < size
          /\ payload' = payload \o Unread(n)
          /\ Break(n)
          /\ UNCHANGED <<header, size, handled>>
       \/ /\ Len(payload) + n = size
          /\ readBuffer' = ReadCompleted(readBuffer, n)
          /\ HandlePacket(payload \o Unread(n))
    /\ UNCHANGED <<stream, arrived>>

\* The socket is closed and reads no more, or the stream is used up.
Done ==
    /\ pc = "closed" \/ (pc = "idle" /\ arrived = StartOf[Len(stream) + 1])
    /\ UNCHANGED vars

Next ==
    \/ ReadHandlerInternal \/ LoopEnds \/ ReadHeader \/ HeaderPresent \/ ReadPayload
    \/ Done

Spec == Init /\ [][Next]_vars

-----------------------------------------------------------------------------
(***************************************************************************)
(* Properties                                                              *)
(***************************************************************************)
TypeOK ==
    /\ arrived \in 0 .. StartOf[Len(stream) + 1]
    /\ readBuffer \in [rpos : Nat, wpos : Nat, size : Nat]
    /\ readBuffer.rpos <= readBuffer.wpos /\ readBuffer.wpos <= readBuffer.size
    /\ Len(header) <= HeaderSize /\ Len(payload) <= size /\ size \in 0 .. MaxPayload
    /\ pc \in {"idle", "loop", "payload", "closed", "aborted"}

\* However the stream is chunked, ReadDataHandler() gets the payloads of the
\* server's packets, in order, each exactly once and whole.
PacketsAsSent ==
    /\ Len(handled) <= Len(stream)
    /\ \A k \in DOMAIN handled : handled[k] = PayloadOf(k)

\* A complete header is the header of the next packet: the reader never takes
\* payload bytes for a header.
HeaderInStep == Len(header) = HeaderSize => header = HeaderOf(Len(handled) + 1)

\* The packets in front of the first bad one are handled, those behind it never.
NothingAfterBad ==
    \A k \in 1 .. Len(handled) - 1 : stream[k].fate = "ok"

\* The read buffer is used up before the next read: EnsureFreeSpace() finds the
\* whole block free and never grows it.
ReadBufferKeepsSize == readBuffer.size = BlockSize /\ (pc = "idle" => readBuffer.wpos = 0)

\* Payloads and headers are told apart, wherever the chunks end; nothing behind a bad
\* packet is handled, and the block is never outgrown.
FramingInv == TypeOK /\ PacketsAsSent /\ HeaderInStep /\ NothingAfterBad /\ ReadBufferKeepsSize

\* The two ASSERTs of ReadHandler(), at the breaks of its loop, hold.
AssertsHold == pc # "aborted"

\* No packet that has arrived waits for bytes behind it, one without a payload
\* included: whenever a read is outstanding, the packets handled are those that
\* have arrived completely.
HandledPromptly ==
    pc = "idle" =>
        Len(handled) = Cardinality({k \in 1 .. Len(stream) : StartOf[k + 1] <= arrived})
=============================================================================
