------------------------------ MODULE Packets ------------------------------
(***************************************************************************)
(* DiscordPacket and the ByteBuffer it is: two packets that items are      *)
(* written to and read from, that are copied, moved, appended to each      *)
(* other, and sent over the wire behind a DiscordServerPktHeader.  Bytes   *)
(* are numbers 0 .. 255, positions count from 0.                           *)
(***************************************************************************)
EXTENDS Integers, Sequences

CONSTANTS Values,    \* Values[t]: the values of type t that are written
          NewOpcodes, \* opcodes that packets are made with
          MaxItems    \* bound: items written to the two packets

Names == {"a", "b"}
Opcodes == 0 .. 7                    \* below NUM_MSG_TYPES
MaxStorage == 10000000               \* append() aborts at this size
Other(p) == IF p = "a" THEN "b" ELSE "a"

VARIABLES
    buf,   \* the packets: _storage, _rpos, _wpos, m_opcode
    said,  \* history: what its users know of a packet: the items written to it, which
           \* of them is at _rpos (0: none), its opcode, and whether its storage holds
           \* the items and nothing else
    last   \* history: the type of the last item read, what was read, what was written

vars == <<buf, said, last>>

Buffer(storage, rpos, wpos, opcode) ==
    [storage |-> storage, rpos |-> rpos, wpos |-> wpos, opcode |-> opcode]
History(items, next, opcode, intact) ==
    [items |-> items, next |-> next, opcode |-> opcode, intact |-> intact]

NewPacket(opcode) == Buffer(<< >>, 0, 0, opcode)
NewHistory(opcode) == History(<< >>, 1, opcode, TRUE)

Init ==
    /\ buf = [p \in Names |-> NewPacket(0)]
    /\ said = [p \in Names |-> NewHistory(0)]
    /\ last = << >>

-----------------------------------------------------------------------------
(***************************************************************************)
(* The types                                                               *)
(***************************************************************************)
Width == [uint8 |-> 1, uint16 |-> 2, uint32 |-> 4, uint64 |-> 8,
          int8 |-> 1, int16 |-> 2, int32 |-> 4, int64 |-> 8]
Integral == DOMAIN Width
Signed == {"int8", "int16", "int32", "int64"}
Types == Integral \cup {"bool", "string", "guid", "time", "float"}

\* n >> 8 * k
Shifted(n, k) == LET rest[i \in 0 .. k] == IF i = 0 THEN n ELSE rest[i - 1] \div 256 IN rest[k]

\* The little-endian bytes of n in two's complement, and the number bytes stand for.
LittleEndian(n, width) == [i \in 1 .. width |-> Shifted(n, i - 1) % 256]
Number(bytes, signed) ==
    LET negative == signed /\ bytes[Len(bytes)] >= 128
        high[i \in 0 .. Len(bytes)] == IF i = 0 THEN IF negative THEN -1 ELSE 0
                                       ELSE bytes[Len(bytes) + 1 - i] + 256 * high[i - 1]
    IN high[Len(bytes)]

Bit == <<1, 2, 4, 8, 16, 32, 64, 128>>

\* A guid is its eight bytes, low end first: the mask, then those that are not zero.
PackGUID(guid) ==
    LET packed[i \in 0 .. 8] ==
            IF i = 0 THEN <<0>>
            ELSE IF guid[i] = 0 THEN packed[i - 1]
            ELSE <<packed[i - 1][1] + Bit[i]>> \o Tail(packed[i - 1]) \o <<guid[i]>>
    IN packed[8]

\* A moment is what TimeBreakdown() makes of a time_t with localtime (of now, if it is 0).
\* tm_year counts from 1900, tm_mon from 0.  The second and tm_isdst are not packed.
PackedTime(t) ==
    LittleEndian(t.mon * 2^20 + (t.mday - 1) * 2^14 + t.wday * 2^11 + t.hour * 2^6 + t.min, 3)
        \o <<(t.year - 100) % 256>>

\* mktime() of a tm with tm_isdst 0 and tm_sec 0, for the years 1901 to 2099: the fields
\* are standard time, and those out of their range carry over.  Seconds are counted from
\* the standard time of the zone at the epoch, and the zone keeps its standard time.
DaysBefore == <<0, 31, 59, 90, 120, 151, 181, 212, 243, 273, 304, 334>>
MkTime(year, mon, mday, hour, min) ==
    LET y == year + mon \div 12
        m == mon % 12
        leapDay == IF m > 1 /\ y % 4 = 0 THEN 1 ELSE 0
        days == 365 * (y - 70) + (y - 69) \div 4 + DaysBefore[m + 1] + leapDay + mday - 1
    IN 86400 * days + 3600 * hour + 60 * min

\* The year keeps 5 bits; the weekday is not read.
UnpackedTime(bytes) ==
    LET n == Number(SubSeq(bytes, 1, 3), FALSE)
    IN MkTime(100 + (bytes[4] % 32), (n \div 2^20) % 16, 1 + ((n \div 2^14) % 64),
              (n \div 2^6) % 32, n % 64)

\* What operator<<, appendPackGUID() and AppendPackedTime() append.  A string is its
\* bytes, a float the four bytes of its representation.
Encode(t, v) ==
    CASE t \in Integral -> LittleEndian(v, Width[t])
      [] t = "bool"     -> <<IF v THEN 1 ELSE 0>>
      [] t = "string"   -> Append(v, 0)
      [] t = "guid"     -> PackGUID(v)
      [] t = "time"     -> PackedTime(v)
      [] t = "float"    -> v

\* The values of a type.  Above its low bytes a number has one byte, and its sign; a
\* string has no terminator in it.
IsValue(t, v) ==
    CASE t \in Integral ->
            v \in Int /\ Shifted(v, Width[t] - 1) \in (IF t \in Signed THEN -128 .. 127 ELSE 0 .. 255)
      [] t = "bool"     -> v \in BOOLEAN
      [] t = "string"   -> v \in Seq(1 .. 255)
      [] t = "guid"     -> v \in [1 .. 8 -> 0 .. 255]
      [] t = "time"     -> v \in [year : Int, mon : 0 .. 11, mday : 1 .. 31, wday : 0 .. 6,
                                  hour : 0 .. 23, min : 0 .. 59, sec : 0 .. 60, isdst : BOOLEAN]
      [] t = "float"    -> v \in [1 .. 4 -> 0 .. 255]

Finite(float) == ~(float[4] % 128 = 127 /\ float[3] >= 128)

\* utf8::is_valid(): code points of one to four bytes, each the shortest encoding of a
\* number that is no surrogate.
Lead == <<0 .. 127, 192 .. 223, 224 .. 239, 240 .. 247>>
LeadBase == <<0, 192, 224, 240>>
CodePoints == <<0 .. 127, 128 .. 2047, 2048 .. 55295 \cup 57344 .. 65535, 65536 .. 1114111>>
IsCodePoint(bytes) ==
    LET n == Len(bytes)
        number[i \in 1 .. n] ==
            IF i = 1 THEN bytes[1] - LeadBase[n] ELSE 64 * number[i - 1] + bytes[i] - 128
    IN /\ bytes[1] \in Lead[n] /\ \A i \in 2 .. n : bytes[i] \in 128 .. 191
       /\ number[n] \in CodePoints[n]
ValidUtf8(string) ==
    LET size == Len(string)
        valid[k \in 0 .. size] ==   \* the last k bytes are code points
            \/ k = 0
            \/ \E n \in 1 .. 4 :
                 /\ n <= k /\ IsCodePoint(SubSeq(string, size - k + 1, size - k + n))
                 /\ valid[k - n]
    IN valid[size]

-----------------------------------------------------------------------------
(***************************************************************************)
(* ByteBuffer.  A read gives the position it leaves and the value, or no   *)
(* value when it throws.                                                   *)
(***************************************************************************)
Size(b) == Len(b.storage)
BytesAt(b, pos, n) == SubSeq(b.storage, pos + 1, pos + n)

Throws(pos) == [rpos |-> pos, value |-> << >>]
Gives(pos, value) == [rpos |-> pos, value |-> <<value>>]

\* read(): n bytes, or an exception in front of them.
ReadBytes(b, n) ==
    IF b.rpos + n > Size(b) THEN Throws(b.rpos) ELSE Gives(b.rpos + n, BytesAt(b, b.rpos, n))

\* To the terminator or, without one, to the end.  An invalid string is consumed.
ReadCString(b) ==
    LET zeros == {i \in b.rpos + 1 .. Size(b) : b.storage[i] = 0}
        end == IF zeros = {} THEN Size(b) ELSE CHOOSE i \in zeros : \A j \in zeros : i <= j
        string == SubSeq(b.storage, b.rpos + 1, IF zeros = {} THEN end ELSE end - 1)
    IN IF ValidUtf8(string) THEN Gives(end, string) ELSE Throws(end)

\* The mask, then a byte for each of its bits; the bytes in front of a missing one
\* are consumed.
ReadPackGUID(b) ==
    LET mark == b.storage[b.rpos + 1]
        read[i \in 0 .. 8] ==
            IF i = 0 THEN Gives(b.rpos + 1, << >>)
            ELSE LET r == read[i - 1]
                 IN IF r.value = << >> THEN r
                    ELSE IF (mark \div Bit[i]) % 2 = 0 THEN Gives(r.rpos, Append(r.value[1], 0))
                    ELSE IF r.rpos + 1 > Size(b) THEN Throws(r.rpos)
                    ELSE Gives(r.rpos + 1, Append(r.value[1], b.storage[r.rpos + 1]))
    IN IF b.rpos + 1 > Size(b) THEN Throws(b.rpos) ELSE read[8]

\* operator>>, readPackGUID() and ReadPackedTime()
Decode(b, t) ==
    CASE t = "string" -> ReadCString(b)
      [] t = "guid"   -> ReadPackGUID(b)
      [] OTHER ->
            LET n == IF t \in Integral THEN Width[t] ELSE IF t = "bool" THEN 1 ELSE 4
                r == ReadBytes(b, n)
            IN IF r.value = << >> THEN r
               ELSE CASE t \in Integral -> Gives(r.rpos, Number(r.value[1], t \in Signed))
                      [] t = "bool"     -> Gives(r.rpos, r.value[1][1] \in 1 .. 127)  \* char > 0
                      [] t = "time"     -> Gives(r.rpos, UnpackedTime(r.value[1]))
                      [] t = "float"    -> IF Finite(r.value[1]) THEN r ELSE Throws(r.rpos)

\* append(): over what is at _wpos, and behind it.
AppendBytes(b, bytes) ==
    LET after == b.wpos + Len(bytes)
    IN Buffer(SubSeq(b.storage, 1, b.wpos) \o bytes \o SubSeq(b.storage, after + 1, Size(b)),
              b.rpos, after, b.opcode)

PutBytes(b, pos, bytes) ==
    Buffer([i \in DOMAIN b.storage |-> IF i - pos \in DOMAIN bytes THEN bytes[i - pos] ELSE b.storage[i]],
           b.rpos, b.wpos, b.opcode)

\* Mutant of MovedFrom: the positions stay.
MovedFromKeeps(b) == Buffer(<< >>, b.rpos, b.wpos, b.opcode)

\* What std::move() leaves of a packet: the opcode is copied.
MovedFrom(b) == NewPacket(b.opcode)

-----------------------------------------------------------------------------
(***************************************************************************)
(* Operations on packets                                                   *)
(***************************************************************************)
Become(p, b, h) ==
    /\ buf' = [buf EXCEPT ![p] = b] /\ said' = [said EXCEPT ![p] = h]
    /\ last' = << >>

AtEnd(p) == buf[p].wpos = Size(buf[p])

Write(p) ==
    /\ Len(said["a"].items) + Len(said["b"].items) < MaxItems
    /\ \E t \in DOMAIN Values : \E v \in Values[t] :
        LET h == said[p]
        IN Become(p, AppendBytes(buf[p], Encode(t, v)),
                  History(Append(h.items, <<t, v>>), h.next, h.opcode, h.intact /\ AtEnd(p)))

\* append(ByteBuffer const&) goes by _wpos, which is 0 in a packet that was received.
AppendBuffer(p) ==
    LET q == Other(p)
        h == said[p]
    IN /\ Len(h.items) + Len(said[q].items) <= MaxItems
       /\ IF buf[q].wpos = 0 THEN UNCHANGED <<buf, said>> /\ last' = << >>
          ELSE Become(p, AppendBytes(buf[p], SubSeq(buf[q].storage, 1, buf[q].wpos)),
                      History(h.items \o said[q].items, h.next, h.opcode,
                              h.intact /\ said[q].intact /\ AtEnd(p) /\ AtEnd(q)))

\* The item at _rpos, known by its type.
Expects(p, t) ==
    LET h == said[p]
    IN h.intact /\ h.next \in DOMAIN h.items /\ h.items[h.next][1] = t

At(p, pos) == Buffer(buf[p].storage, pos, buf[p].wpos, buf[p].opcode)
Knows(p, next) == History(said[p].items, next, said[p].opcode, said[p].intact)

\* A read with the type that was written, or with another: then the position is nowhere,
\* unless the read threw in front of the bytes.
Read(p) ==
    \E t \in DOMAIN Values :
        LET r == Decode(buf[p], t)
            next == said[p].next
        IN /\ buf' = [buf EXCEPT ![p] = At(p, r.rpos)]
           /\ said' = [said EXCEPT ![p] = Knows(p, IF Expects(p, t) THEN next + 1
                                                  ELSE IF r.rpos = buf[p].rpos THEN next ELSE 0)]
           /\ last' = IF Expects(p, t) THEN <<t, r.value, said[p].items[next][2]>> ELSE << >>

\* read_skip<T>() of the item at _rpos.
ReadSkip(p) ==
    \E t \in DOMAIN Values :
        LET item == said[p].items[said[p].next]
            pos == IF t = "string" THEN ReadCString(buf[p]).rpos
                   ELSE buf[p].rpos + Len(Encode(t, item[2]))
        IN Expects(p, t) /\ Become(p, At(p, pos), Knows(p, said[p].next + 1))

\* Where the item i of a packet that is intact starts.
StartOf(items, i) ==
    LET upTo[k \in 0 .. i - 1] ==
            IF k = 0 THEN 0 ELSE upTo[k - 1] + Len(Encode(items[k][1], items[k][2]))
    IN upTo[i - 1]

\* put() over a number that was written; its ASSERTs are the caller's.
Put(p) ==
    \E i \in DOMAIN said[p].items, t \in DOMAIN Values \cap Integral :
        LET h == said[p]
        IN /\ h.intact /\ h.items[i][1] = t
           /\ \E v \in Values[t] :
                Become(p, PutBytes(buf[p], StartOf(h.items, i), Encode(t, v)),
                       History([h.items EXCEPT ![i] = <<t, v>>], h.next, h.opcode, TRUE))

\* rpos(0), rfinish()
Rewind(p) == Become(p, At(p, 0), Knows(p, 1))
Rfinish(p) == Become(p, At(p, buf[p].wpos), Knows(p, IF AtEnd(p) THEN Len(said[p].items) + 1 ELSE 1))

Initialize(p) ==
    \E opcode \in NewOpcodes : Become(p, NewPacket(opcode), NewHistory(opcode))

Copy(p) == Become(p, buf[Other(p)], said[Other(p)])

Move(p) ==
    LET q == Other(p)
    IN /\ buf' = [n \in Names |-> IF n = p THEN buf[q] ELSE MovedFrom(buf[q])]
       /\ said' = [n \in Names |-> IF n = p THEN said[q] ELSE NewHistory(buf[q].opcode)]
       /\ last' = << >>

-----------------------------------------------------------------------------
(***************************************************************************)
(* The wire: ClientSocket::SendPacket() and ReadHeaderHandler(),           *)
(* ReadDataHandler() of the other end.                                     *)
(***************************************************************************)
Reversed(bytes) == [i \in DOMAIN bytes |-> bytes[Len(bytes) + 1 - i]]
BigEndian(n, width) == Reversed(LittleEndian(n, width))

\* DiscordServerPktHeader: the size with the opcode, big end first; the opcode, low end first.
Header(b) == BigEndian(Size(b) + 2, 4) \o LittleEndian(b.opcode, 2)

OnWire(b) == Header(b) \o b.storage

\* DiscordClientPktHeader: EndianConvertReverse(size), EndianConvert(cmd)
SizeIn(wire) == Number(Reversed(SubSeq(wire, 1, 4)), FALSE)
CmdIn(wire) == Number(SubSeq(wire, 5, 6), FALSE)
ValidHeader(wire) == SizeIn(wire) \in 2 .. 9999 /\ CmdIn(wire) \in Opcodes

\* The packet that takes the storage of _packetBuffer: both positions are 0.
Received(wire) ==
    Buffer(SubSeq(wire, 7, 6 + SizeIn(wire) - 2), 0, 0, CmdIn(wire))

Send(p) ==
    /\ ValidHeader(OnWire(buf[p]))
    /\ Become(Other(p), Received(OnWire(buf[p])), Knows(p, 1))

Next ==
    \E p \in Names :
        \/ Write(p) \/ AppendBuffer(p) \/ Read(p) \/ ReadSkip(p) \/ Put(p) \/ Rewind(p) \/ Rfinish(p)
        \/ Initialize(p) \/ Copy(p) \/ Move(p) \/ Send(p)
-----------------------------------------------------------------------------
\* The time_t of a moment: in summer time the clock is an hour ahead.
Hour == 3600
TimeOf(t) ==
    MkTime(t.year, t.mon, t.mday, t.hour, t.min) + t.sec - IF t.isdst THEN Hour ELSE 0

\* The moment in 2000 to 2031 whose year has the same five bits.
Folded(t) == [t EXCEPT !.year = 100 + ((@ - 100) % 32)]

\* What is read of a value.  A time_t comes back as the start of its minute, an hour late
\* if it was in summer time, with its year in 2000 to 2031; infinities and strings that
\* are no UTF-8 are refused; all else comes back as it was written.
Kept(t, v) ==
    CASE t = "time" -> <<TimeOf(Folded(v)) - v.sec + IF v.isdst THEN Hour ELSE 0>>
      [] t = "float" /\ ~Finite(v)      -> << >>
      [] t = "string" /\ ~ValidUtf8(v)  -> << >>
      [] OTHER                          -> <<v>>

\* Of every item that is read comes back what its type keeps of a value, whatever the
\* packet went through in between: reads of other items, skips, exceptions, put(), copies,
\* moves, appends to another packet and the wire, which also keep the opcode.  No read goes
\* past the storage.
RoundTrip ==
    /\ last # << >> => last[2] = Kept(last[1], last[3])
    /\ \A p \in Names : /\ buf[p].opcode = said[p].opcode
                        /\ buf[p].rpos <= Size(buf[p]) /\ buf[p].wpos <= Size(buf[p])
=============================================================================
